--------------------------- MODULE LibraryProofs ---------------------------
(***************************************************************************)
(* Theorems about Library: whatever is moved, edited, merged and deleted   *)
(* between the steps of a scan, the tables keep their types and keys; and  *)
(* until one of the Troubles has come, no file is a file of two books,     *)
(* after two quiet scans the index is what the disk is and a third finds   *)
(* nothing to do, and a file is found again in the book it was in.         *)
(***************************************************************************)
EXTENDS Library, NumberFacts, FiniteSetTheorems, TLAPS

-----------------------------------------------------------------------------
(* Numbers.                                                                *)

(* The bounds that sets of ids and paths are built from. *)
LEMMA Bounds ==
    LastPath \in Nat /\ MaxBooks \in Nat /\ MaxOps \in Nat /\ MaxFaults \in Nat
  <1>1. LastPath \in Nat
    BY LibraryConstants
  <1>2. {MASS_MISSING_MIN_ABSOLUTE, MaxBooks, MaxOps, MaxFaults} \subseteq Nat
    BY LibraryConstants, Zenon
  <1>3. MaxBooks \in Nat /\ MaxOps \in Nat /\ MaxFaults \in Nat
    BY <1>2
  <1> QED BY <1>1, <1>3

(* What holds of 0, and of each path if it holds of the one before, holds  *)
(* of all.                                                                 *)
LEMMA UpToEach ==
    ASSUME NEW S, 0 \in S, \A n \in Paths : n - 1 \in S => n \in S
    PROVE  \A n \in 0 .. LastPath : n \in S
  <1> DEFINE Bad == {n \in 0 .. LastPath : n \notin S}
  <1>1. LastPath \in Nat
    BY LibraryConstants
  <1>2. SUFFICES Bad = {}
    OBVIOUS
  <1>3. SUFFICES ASSUME Bad # {} PROVE FALSE
    OBVIOUS
  <1>4. PICK n \in Bad : \A k \in Bad : n <= k
    <2>1. Bad \in SUBSET Nat
      BY <1>1
    <2> HIDE DEF Bad
    <2> QED BY <1>3, <2>1, LeastNatural
  <1>5. n \in Paths /\ n - 1 \in 0 .. LastPath /\ n - 1 < n
    BY <1>1 DEF Paths
  <1>6. n - 1 \notin Bad
    BY <1>4, <1>5
  <1> QED BY <1>4, <1>5, <1>6

LEMMA UpToTheLast ==
    ASSUME NEW S, 0 \in S, \A n \in Paths : n - 1 \in S => n \in S
    PROVE  LastPath \in S
  BY UpToEach, Bounds

(* Min finds a member of a set of numbers that has one. *)
LEMMA MinIsOne ==
    ASSUME NEW S \in SUBSET Nat, S # {}
    PROVE  Min(S) \in S
  <1>1. PICK x \in S : \A y \in S : x <= y
    BY LeastNatural
  <1> QED BY <1>1, MinFinds

(* A spare id for every file still to be written is enough, if a file      *)
(* takes one at most.                                                      *)
LEMMA OneFewer ==
    ASSUME NEW A \in SUBSET Id, NEW B \in SUBSET Id, NEW S \in SUBSET Paths, NEW b, NEW p \in S,
           A \ {b} \subseteq B, Cardinality(S) <= Cardinality(A)
    PROVE  Cardinality(S \ {p}) <= Cardinality(B)
  <1>1. IsFiniteSet(Id) /\ IsFiniteSet(Paths)
    <2>1. 1 \in Int /\ LastPath \in Int /\ MaxBooks \in Int
      BY Bounds
    <2> QED BY <2>1, FS_Interval DEF Id, Paths
  <1>2. IsFiniteSet(A) /\ IsFiniteSet(B) /\ IsFiniteSet(S) /\ IsFiniteSet(A \ {b})
    BY <1>1, FS_Subset
  <1>3. /\ Cardinality(A) \in Nat /\ Cardinality(B) \in Nat /\ Cardinality(S) \in Nat
        /\ Cardinality(A \ {b}) \in Nat
    BY <1>2, FS_CardinalityType
  <1>4. Cardinality(S \ {p}) = Cardinality(S) - 1
    BY <1>2, FS_RemoveElement
  <1>5. Cardinality(A \ {b}) >= Cardinality(A) - 1
    <2>1. CASE b \in A
      BY <1>2, <2>1, <1>3, FS_RemoveElement
    <2>2. CASE b \notin A
      <3>1. A \ {b} = A
        BY <2>2
      <3> QED BY <3>1, <1>3
    <2> QED BY <2>1, <2>2
  <1>6. Cardinality(A \ {b}) <= Cardinality(B)
    BY <1>2, FS_Subset
  <1> QED BY <1>3, <1>4, <1>5, <1>6

LEMMA OneLeft ==
    ASSUME NEW A \in SUBSET Id, NEW S \in SUBSET Paths, NEW p \in S, Cardinality(S) <= Cardinality(A)
    PROVE  A # {}
  <1>1. IsFiniteSet(Paths)
    <2>1. 1 \in Int /\ LastPath \in Int
      BY Bounds
    <2> QED BY <2>1, FS_Interval DEF Paths
  <1>2. IsFiniteSet(S)
    BY <1>1, FS_Subset
  <1>3. Cardinality(S) \in Nat /\ Cardinality(S) # 0
    BY <1>2, FS_CardinalityType, FS_EmptySet
  <1>4. Cardinality({}) = 0
    BY FS_EmptySet
  <1> QED BY <1>3, <1>4

-----------------------------------------------------------------------------
(* The recursion of the three stages that write one file after another.    *)

(* What a stage makes of the tables at the path n. *)
StageAt(stage, T0, T, n) ==
    CASE stage = "moved" ->
            IF \E m \in pass.moved : m.to = n
            THEN relocate_one(T, CHOOSE m \in pass.moved : m.to = n) ELSE T
      [] stage = "changed" ->
            IF n \in pass.changed THEN sync_changed_one(T0, T, Parsed(n)) ELSE T
      [] stage = "new" ->
            IF n \in pass.new THEN sync_new_one(T0, T, Parsed(n), pass.removed) ELSE T

StageFrom(stage, T0, g, n) == IF n = 0 THEN T0 ELSE StageAt(stage, T0, g[n - 1], n)

LEMMA StageExists ==
    ASSUME NEW stage, NEW T0
    PROVE  \E g : g = [n \in 0 .. LastPath |-> StageFrom(stage, T0, g, n)]
  <1> DEFINE Upto(k) == \E g : \A n \in 0 .. k : g[n] = StageFrom(stage, T0, g, n)
             S == {k \in 0 .. LastPath : Upto(k)}
  <1>1. LastPath \in Nat
    BY LibraryConstants
  <1>2. 0 \in S
    <2>1. Upto(0)
      <3> WITNESS [n \in {0} |-> T0]
      <3> QED BY DEF StageFrom
    <2> QED BY <1>1, <2>1
  <1>3. ASSUME NEW k \in Paths, k - 1 \in S
        PROVE  k \in S
    <2>1. PICK g : \A n \in 0 .. k - 1 : g[n] = StageFrom(stage, T0, g, n)
      BY <1>3
    <2>2. k \in Nat /\ k - 1 \in Nat /\ k # 0 /\ k <= LastPath
      BY <1>1 DEF Paths
    <2>3. PICK h : h = [n \in 0 .. k |-> IF n = k THEN StageAt(stage, T0, g[k - 1], k) ELSE g[n]]
      OBVIOUS
    <2>4. \A n \in 0 .. k - 1 : h[n] = g[n]
      BY <2>2, <2>3
    <2>5. h[k] = StageAt(stage, T0, g[k - 1], k)
      BY <2>2, <2>3
    <2>6. ASSUME NEW n \in 0 .. k PROVE h[n] = StageFrom(stage, T0, h, n)
      <3>1. CASE n = k
        <4>1. h[n - 1] = g[k - 1]
          BY <2>2, <2>4, <3>1
        <4> QED BY <2>2, <2>5, <3>1, <4>1 DEF StageFrom
      <3>2. CASE n # k
        <4>1. n \in 0 .. k - 1 /\ (n # 0 => n - 1 \in 0 .. k - 1)
          BY <2>2, <3>2
        <4>2. h[n] = StageFrom(stage, T0, g, n)
          BY <2>1, <2>4, <4>1
        <4>3. n # 0 => h[n - 1] = g[n - 1]
          BY <2>4, <4>1
        <4> QED BY <4>2, <4>3 DEF StageFrom
      <3> QED BY <3>1, <3>2
    <2>7. Upto(k)
      BY <2>6
    <2> QED BY <2>2, <2>7
  <1>4. LastPath \in S
    <2> HIDE DEF S
    <2> QED BY <1>2, <1>3, UpToTheLast
  <1>5. PICK g : \A n \in 0 .. LastPath : g[n] = StageFrom(stage, T0, g, n)
    BY <1>4
  <1>6. PICK h : h = [n \in 0 .. LastPath |-> g[n]]
    OBVIOUS
  <1>7. \A n \in 0 .. LastPath : StageFrom(stage, T0, g, n) = StageFrom(stage, T0, h, n)
    BY <1>1, <1>6 DEF StageFrom
  <1>8. h = [n \in 0 .. LastPath |-> StageFrom(stage, T0, h, n)]
    BY <1>5, <1>6, <1>7
  <1> QED BY <1>8

(* A recursive function that satisfies its equation passes from T0 through *)
(* every path to what it returns.                                          *)
Passes(stage, T0, T) ==
    \E g : /\ g[0] = T0 /\ g[LastPath] = T
           /\ \A n \in Paths : g[n] = StageAt(stage, T0, g[n - 1], n)

LEMMA StagePasses ==
    ASSUME NEW stage, NEW T0,
           NEW g, g = [n \in 0 .. LastPath |-> StageFrom(stage, T0, g, n)]
    PROVE  Passes(stage, T0, g[LastPath])
  <1>1. LastPath \in Nat
    BY LibraryConstants
  <1>2. \A n \in 0 .. LastPath : g[n] = StageFrom(stage, T0, g, n)
    OBVIOUS
  <1>3. g[0] = T0
    BY <1>1, <1>2 DEF StageFrom
  <1>4. ASSUME NEW n \in Paths PROVE g[n] = StageAt(stage, T0, g[n - 1], n)
    BY <1>1, <1>2 DEF Paths, StageFrom
  <1> QED BY <1>3, <1>4 DEF Passes

LEMMA MovedPasses ==
    ASSUME NEW T0
    PROVE  Passes("moved", T0, sync_moved(T0, pass.moved))
  <1> DEFINE Rule(g) == [n \in 0 .. LastPath |-> StageFrom("moved", T0, g, n)]
             done == CHOOSE g : g = Rule(g)
  <1>1. done = Rule(done)
    BY StageExists
  <1>2. sync_moved(T0, pass.moved) = done[LastPath]
    BY DEF sync_moved, StageFrom, StageAt
  <1> HIDE DEF done
  <1> QED BY <1>1, <1>2, StagePasses

LEMMA ChangedPasses ==
    ASSUME NEW T0
    PROVE  Passes("changed", T0, sync_changed(T0, pass.changed))
  <1> DEFINE Rule(g) == [n \in 0 .. LastPath |-> StageFrom("changed", T0, g, n)]
             done == CHOOSE g : g = Rule(g)
  <1>1. done = Rule(done)
    BY StageExists
  <1>2. sync_changed(T0, pass.changed) = done[LastPath]
    BY DEF sync_changed, StageFrom, StageAt
  <1> HIDE DEF done
  <1> QED BY <1>1, <1>2, StagePasses

LEMMA NewPasses ==
    ASSUME NEW T0
    PROVE  Passes("new", T0, sync_new(T0, pass.new, pass.removed))
  <1> DEFINE Rule(g) == [n \in 0 .. LastPath |-> StageFrom("new", T0, g, n)]
             done == CHOOSE g : g = Rule(g)
  <1>1. done = Rule(done)
    BY StageExists
  <1>2. sync_new(T0, pass.new, pass.removed) = done[LastPath]
    BY DEF sync_new, StageFrom, StageAt
  <1> HIDE DEF done
  <1> QED BY <1>1, <1>2, StagePasses

-----------------------------------------------------------------------------
(* What the operators that write do to the tables.                         *)

Db == [books : [Id -> Book \cup {None}], files : SUBSET Row, ledger : SUBSET Attachment]

(* None stands for no book, no file, no owner. *)
LEMMA Nulls ==
    /\ None \notin Book /\ None \notin File /\ None \notin Works /\ None \notin Nat
    /\ DOMAIN FormatOf = Paths
    /\ \A p \in Paths : FormatOf[p] \in Range(FormatOf)
  <1>1. None \notin Works \cup Nat \cup File \cup Book
    BY LibraryConstants, Zenon
  <1>2. DOMAIN FormatOf = Paths
    BY LibraryConstants, Zenon
  <1>3. \A p \in Paths : FormatOf[p] \in Range(FormatOf)
    BY <1>2 DEF Range
  <1> QED BY <1>1, <1>2, <1>3

(* The file p becomes the file of b that has the format x, and the other   *)
(* books are left alone.                                                   *)
NewRow(b, p) == [book |-> b, key |-> p, stat |-> pass.seen[p]]

Puts(T, U, b, x, p) ==
    /\ U \in Db /\ U.books[b] \in Book
    /\ \A c \in Id \ {b} : U.books[c] = T.books[c]
    /\ U.files = {f \in T.files : ~(f.book = b /\ FormatOf[f.key] = x)} \cup {NewRow(b, p)}

LEMMA PutRowDoes ==
    ASSUME NEW T \in Db, NEW b \in Id, T.books[b] \in Book, NEW x, NEW p \in Paths,
           pass.seen[p] \in Stat, NEW U, U = PutRow(T, b, x, Parsed(p))
    PROVE  /\ Puts(T, U, b, x, p)
           /\ U.ledger = T.ledger
           /\ U.books[b] = NotMissing(T.books[b])
           /\ U.books[b].key = T.books[b].key /\ U.books[b].work = T.books[b].work
  <1>1. Parsed(p).key = p /\ Parsed(p).stat = pass.seen[p]
    BY DEF Parsed
  <1>2. U = [T EXCEPT !.files = (@ \ SlotOf(T, b, x)) \cup {NewRow(b, p)},
                      !.books[b] = NotMissing(@)]
    BY <1>1 DEF PutRow, NewRow
  <1>3. /\ U.ledger = T.ledger
        /\ U.files = (T.files \ SlotOf(T, b, x)) \cup {NewRow(b, p)}
        /\ U.books = [T.books EXCEPT ![b] = NotMissing(T.books[b])]
        /\ U = [books |-> U.books, files |-> U.files, ledger |-> U.ledger]
    BY <1>2 DEF Db
  <1>4. /\ NotMissing(T.books[b]) \in Book
        /\ NotMissing(T.books[b]).key = T.books[b].key
        /\ NotMissing(T.books[b]).work = T.books[b].work
    BY DEF NotMissing, Book
  <1>5. U.books[b] = NotMissing(T.books[b]) /\ \A c \in Id \ {b} : U.books[c] = T.books[c]
    BY <1>3 DEF Db
  <1>6. U.files = {f \in T.files : ~(f.book = b /\ FormatOf[f.key] = x)} \cup {NewRow(b, p)}
    BY <1>3 DEF SlotOf, FilesOf
  <1>7. NewRow(b, p) \in Row
    BY DEF NewRow, Row
  <1>8. U \in Db
    <2>1. U.books \in [Id -> Book \cup {None}]
      BY <1>3, <1>4 DEF Db
    <2>2. U.files \in SUBSET Row /\ U.ledger \in SUBSET Attachment
      BY <1>3, <1>6, <1>7 DEF Db
    <2> QED BY <1>3, <2>1, <2>2 DEF Db
  <1> QED BY <1>3, <1>4, <1>5, <1>6, <1>8 DEF Puts

(* The work of a file as it is read, if it can be read. *)
Reads == \A p \in Paths : disk[p] \in File \cup {None}

LEMMA ParsedWork ==
    ASSUME Reads, NEW p \in Paths
    PROVE  Parsed(p).work \in Works \cup {None}
  BY DEF Reads, Parsed, File

LEMMA RewriteDoes ==
    ASSUME NEW T \in Db, NEW b \in Id, T.books[b] \in Book, NEW p \in Paths, Reads,
           pass.seen[p] \in Stat, NEW U, U = rewrite_book_in_place(T, b, Parsed(p))
    PROVE  /\ Puts(T, U, b, FormatOf[p], p)
           /\ U.ledger = T.ledger
           /\ U.books[b].key = p /\ U.books[b].work = Parsed(p).work
  <1>1. PICK V : V = PutRow(T, b, FormatOf[p], Parsed(p))
    OBVIOUS
  <1>2. /\ Puts(T, V, b, FormatOf[p], p)
        /\ V.ledger = T.ledger /\ V.books[b] \in Book
    BY <1>1, PutRowDoes DEF Puts
  <1>3. U = [V EXCEPT !.books[b] = [@ EXCEPT !.key = p, !.work = Parsed(p).work]]
    BY <1>1 DEF rewrite_book_in_place, Parsed
  <1>4. V \in Db
    BY <1>2 DEF Puts
  <1>5. /\ U.ledger = V.ledger /\ U.files = V.files
        /\ U.books = [V.books EXCEPT ![b] = [@ EXCEPT !.key = p, !.work = Parsed(p).work]]
        /\ U = [books |-> U.books, files |-> U.files, ledger |-> U.ledger]
    BY <1>3, <1>4 DEF Db
  <1>6. PICK r : r = [V.books[b] EXCEPT !.key = p, !.work = Parsed(p).work]
    OBVIOUS
  <1>7. r \in Book /\ r.key = p /\ r.work = Parsed(p).work
    BY <1>2, <1>6, ParsedWork DEF Book
  <1>8. U.books[b] = r /\ \A c \in Id \ {b} : U.books[c] = V.books[c]
    BY <1>4, <1>5, <1>6 DEF Db
  <1>9. U \in Db
    <2>1. U.books \in [Id -> Book \cup {None}]
      BY <1>4, <1>5, <1>6, <1>7 DEF Db
    <2> QED BY <1>4, <1>5, <2>1 DEF Db
  <1> QED BY <1>2, <1>5, <1>7, <1>8, <1>9 DEF Puts

LEMMA InsertDoes ==
    ASSUME NEW T \in Db, NEW p \in Paths, Reads, pass.seen[p] \in Stat, Spare(T) # {},
           NEW U, U = insert_book_row(T, Parsed(p))
    PROVE  \E b \in Spare(T) :
              /\ Puts(T, U, b, FormatOf[p], p)
              /\ U.ledger = T.ledger
              /\ U.books[b].key = p /\ U.books[b].work = Parsed(p).work
  <1>1. PICK b : b = Min(Spare(T))
    OBVIOUS
  <1>2. b \in Spare(T) /\ b \in Id
    <2>1. Spare(T) \subseteq Id /\ Id \subseteq Nat
      BY DEF Spare, Id
    <2> QED BY <1>1, <2>1, MinIsOne
  <1>3. PICK r : r = [key |-> p, work |-> Parsed(p).work, missing |-> "no", read |-> FALSE]
    OBVIOUS
  <1>4. r \in Book /\ r.key = p /\ r.work = Parsed(p).work
    BY <1>3, ParsedWork DEF Book
  <1>5. PICK V : V = [T EXCEPT !.books[b] = r]
    OBVIOUS
  <1>6. /\ V.books = [T.books EXCEPT ![b] = r] /\ V.files = T.files /\ V.ledger = T.ledger
        /\ V = [books |-> V.books, files |-> V.files, ledger |-> V.ledger]
    BY <1>5 DEF Db
  <1>7. V.books[b] = r /\ \A c \in Id \ {b} : V.books[c] = T.books[c]
    BY <1>2, <1>6 DEF Db
  <1>8. V \in Db
    <2>1. V.books \in [Id -> Book \cup {None}]
      BY <1>2, <1>4, <1>6 DEF Db
    <2> QED BY <1>6, <2>1 DEF Db
  <1>9. U = PutRow(V, b, FormatOf[p], Parsed(p))
    BY <1>1, <1>3, <1>5 DEF insert_book_row, Parsed
  <1>10. /\ Puts(V, U, b, FormatOf[p], p)
         /\ U.ledger = V.ledger /\ U.books[b].key = r.key /\ U.books[b].work = r.work
    BY <1>2, <1>4, <1>7, <1>8, <1>9, PutRowDoes
  <1>11. Puts(T, U, b, FormatOf[p], p)
    BY <1>6, <1>7, <1>10 DEF Puts
  <1> QED BY <1>2, <1>4, <1>6, <1>10, <1>11

LEMMA ForgetDoes ==
    ASSUME NEW T \in Db, NEW p, NEW U, U = forget_attachment(T, p)
    PROVE  /\ U \in Db /\ U.books = T.books /\ U.files = T.files
           /\ U.ledger = {m \in T.ledger : m.key # p}
           /\ Spare(T) \subseteq Spare(U)
  <1>1. /\ U.books = T.books /\ U.files = T.files
        /\ U.ledger = {m \in T.ledger : m.key # p}
        /\ U = [books |-> U.books, files |-> U.files, ledger |-> U.ledger]
    BY DEF forget_attachment, Db
  <1>2. U \in Db
    BY <1>1 DEF Db
  <1>3. BooksOf(U) = BooksOf(T) /\ {m.uuid : m \in U.ledger} \subseteq {m.uuid : m \in T.ledger}
    BY <1>1 DEF BooksOf
  <1> QED BY <1>1, <1>2, <1>3 DEF Spare

(* An attached file keeps the handle the ledger has for its path.          *)
Entry(v, b, x, p) == [uuid |-> v, book |-> b, format |-> x, key |-> p]

LEMMA AttachDoes ==
    ASSUME NEW T \in Db, NEW b \in Id, T.books[b] \in Book, NEW p \in Paths,
           pass.seen[p] \in Stat, NEW x \in Range(FormatOf), NEW u \in Int,
           NEW U, U = attach_ebook_file(T, b, x, u, Parsed(p))
    PROVE  /\ Puts(T, U, b, x, p)
           /\ U.books[b].key = T.books[b].key /\ U.books[b].work = T.books[b].work
           /\ \E v \in Int :
                 /\ U.ledger = {m \in T.ledger : m.uuid # v} \cup {Entry(v, b, x, p)}
                 /\ AttachmentsAt(T, p) = {} => v = u
                 /\ AttachmentsAt(T, p) # {} => \E m \in AttachmentsAt(T, p) : v = m.uuid
  <1>1. PICK V : V = PutRow(T, b, x, Parsed(p))
    OBVIOUS
  <1>2. /\ Puts(T, V, b, x, p) /\ V.ledger = T.ledger /\ V \in Db
        /\ V.books[b].key = T.books[b].key /\ V.books[b].work = T.books[b].work
    BY <1>1, PutRowDoes DEF Puts
  <1>3. U = record_attachment(V, u, b, x, p)
    BY <1>1 DEF attach_ebook_file, Parsed
  <1>4. PICK there : there = {m.uuid : m \in {n \in V.ledger : n.key = p}}
    OBVIOUS
  <1>5. PICK v : v = IF there # {} THEN CHOOSE w \in there : TRUE ELSE u
    OBVIOUS
  <1>6. U = [V EXCEPT !.ledger = {m \in @ : m.uuid # v} \cup {Entry(v, b, x, p)}]
    BY <1>3, <1>4, <1>5 DEF record_attachment, Entry
  <1>7. /\ U.books = V.books /\ U.files = V.files
        /\ U.ledger = {m \in T.ledger : m.uuid # v} \cup {Entry(v, b, x, p)}
        /\ U = [books |-> U.books, files |-> U.files, ledger |-> U.ledger]
    BY <1>2, <1>6 DEF Db
  <1>8. /\ AttachmentsAt(T, p) = {} => there = {}
        /\ there # {} => \E m \in AttachmentsAt(T, p) : v = m.uuid
        /\ AttachmentsAt(T, p) # {} => there # {}
        /\ there \subseteq Int
    <2>1. there = {m.uuid : m \in AttachmentsAt(T, p)}
      BY <1>2, <1>4 DEF AttachmentsAt
    <2>2. \A m \in AttachmentsAt(T, p) : m.uuid \in Int
      BY DEF AttachmentsAt, Db, Attachment
    <2>3. there # {} => v \in there
      BY <1>5
    <2> QED BY <2>1, <2>2, <2>3
  <1>9. v \in Int
    BY <1>5, <1>8
  <1>10. Entry(v, b, x, p) \in Attachment
    BY <1>9 DEF Entry, Attachment
  <1>11. U \in Db
    <2>1. U.ledger \in SUBSET Attachment
      BY <1>7, <1>10 DEF Db
    <2> QED BY <1>2, <1>7, <2>1 DEF Db
  <1>12. AttachmentsAt(T, p) = {} => v = u
    BY <1>5, <1>8
  <1>13. AttachmentsAt(T, p) # {} => \E m \in AttachmentsAt(T, p) : v = m.uuid
    BY <1>8
  <1>14. Puts(T, U, b, x, p)
    BY <1>2, <1>7, <1>11 DEF Puts
  <1> QED BY <1>2, <1>7, <1>9, <1>12, <1>13, <1>14

-----------------------------------------------------------------------------
(* One file written: the ways it can go.                                   *)

(* U is what becomes of T when the file p is written; T0 is as the bucket  *)
(* began. The file goes back to the book of its path, to the book it is    *)
(* attached to, or to a book it fits; or it becomes a book.                *)
Returns(T0, T, U, p) ==
    \E b \in HolderOf(T0, p) : U = rewrite_book_in_place(T, b, Parsed(p))

Reattaches(T, U, p) ==
    \E m \in AttachmentsAt(T, p) :
        IF slot_held_by_other(T, m.book, m.format, p)
        THEN U = insert_book_row(forget_attachment(T, p), Parsed(p))
        ELSE U = attach_ebook_file(T, m.book, m.format, m.uuid, Parsed(p))

Joins(T, U, p) ==
    \E b \in find_attach_target(T, Parsed(p).work, FormatOf[p]) :
        IF b \in pass.removed THEN U = rewrite_book_in_place(T, b, Parsed(p))
        ELSE /\ ~slot_held_by_other(T, b, FormatOf[p], p)
             /\ U = attach_ebook_file(T, b, FormatOf[p], stable_uuid(p), Parsed(p))

Writes(T0, T, U, p) ==
    \/ Returns(T0, T, U, p)
    \/ /\ HolderOf(T0, p) = {}
       /\ \/ Reattaches(T, U, p)
          \/ /\ AttachmentsAt(T, p) = {} \/ (p \in pass.new /\ Parsed(p).work = None)
             /\ \/ U = insert_book_row(T, Parsed(p))
                \/ p \in pass.new /\ Joins(T, U, p)

LEMMA ReattachCases ==
    ASSUME NEW T, NEW p, AttachmentsAt(T, p) # {}
    PROVE  Reattaches(T, reattach(T, Parsed(p)), p)
  <1>1. PICK m : m = CHOOSE a \in AttachmentsAt(T, p) : TRUE
    OBVIOUS
  <1>2. m \in AttachmentsAt(T, p)
    BY <1>1
  <1>3. Parsed(p).key = p
    BY DEF Parsed
  <1>4. reattach(T, Parsed(p)) =
          IF slot_held_by_other(T, m.book, m.format, p)
          THEN insert_book_row(forget_attachment(T, p), Parsed(p))
          ELSE attach_ebook_file(T, m.book, m.format, m.uuid, Parsed(p))
    BY <1>1, <1>3 DEF reattach
  <1> QED BY <1>2, <1>4 DEF Reattaches

LEMMA ChangedCases ==
    ASSUME NEW T0, NEW T, NEW p
    PROVE  Writes(T0, T, sync_changed_one(T0, T, Parsed(p)), p)
  <1>1. Parsed(p).key = p
    BY DEF Parsed
  <1>2. PICK U : U = sync_changed_one(T0, T, Parsed(p))
    OBVIOUS
  <1>3. CASE HolderOf(T0, p) # {}
    <2>1. PICK b : b = CHOOSE c \in HolderOf(T0, p) : TRUE
      OBVIOUS
    <2>2. b \in HolderOf(T0, p) /\ U = rewrite_book_in_place(T, b, Parsed(p))
      BY <1>1, <1>2, <1>3, <2>1 DEF sync_changed_one
    <2> QED BY <1>2, <2>2 DEF Writes, Returns
  <1>4. CASE HolderOf(T0, p) = {} /\ AttachmentsAt(T, p) # {}
    <2>1. U = reattach(T, Parsed(p))
      BY <1>1, <1>2, <1>4 DEF sync_changed_one
    <2> QED BY <1>2, <1>4, <2>1, ReattachCases DEF Writes
  <1>5. CASE HolderOf(T0, p) = {} /\ AttachmentsAt(T, p) = {}
    <2>1. U = insert_book_row(T, Parsed(p))
      BY <1>1, <1>2, <1>5 DEF sync_changed_one
    <2> QED BY <1>2, <1>5, <2>1 DEF Writes
  <1> QED BY <1>3, <1>4, <1>5

LEMMA NewCases ==
    ASSUME NEW T0, NEW T, NEW p \in pass.new
    PROVE  Writes(T0, T, sync_new_one(T0, T, Parsed(p), pass.removed), p)
  <1>1. Parsed(p).key = p
    BY DEF Parsed
  <1>2. PICK U : U = sync_new_one(T0, T, Parsed(p), pass.removed)
    OBVIOUS
  <1>3. CASE HolderOf(T0, p) # {}
    <2>1. PICK b : b = CHOOSE c \in HolderOf(T0, p) : TRUE
      OBVIOUS
    <2>2. b \in HolderOf(T0, p) /\ U = rewrite_book_in_place(T, b, Parsed(p))
      BY <1>1, <1>2, <1>3, <2>1 DEF sync_new_one
    <2> QED BY <1>2, <2>2 DEF Writes, Returns
  <1>4. CASE HolderOf(T0, p) = {}
    <2>1. U = try_attach_new_ebook(T, Parsed(p), pass.removed)
      BY <1>1, <1>2, <1>4 DEF sync_new_one
    <2>2. CASE AttachmentsAt(T, p) # {} /\ Parsed(p).work # None
      <3>1. U = reattach(T, Parsed(p))
        BY <1>1, <2>1, <2>2 DEF try_attach_new_ebook
      <3> QED BY <1>2, <1>4, <2>2, <3>1, ReattachCases DEF Writes
    <2>3. CASE AttachmentsAt(T, p) = {} \/ Parsed(p).work = None
      <3>1. PICK targets : targets = find_attach_target(T, Parsed(p).work, FormatOf[p])
        OBVIOUS
      <3>2. PICK b : b = CHOOSE x \in targets : TRUE
        OBVIOUS
      <3>3. U = IF Cardinality(targets) # 1 THEN insert_book_row(T, Parsed(p))
                ELSE IF b \in pass.removed THEN rewrite_book_in_place(T, b, Parsed(p))
                ELSE IF slot_held_by_other(T, b, FormatOf[p], p) THEN insert_book_row(T, Parsed(p))
                ELSE attach_ebook_file(T, b, FormatOf[p], stable_uuid(p), Parsed(p))
        BY <1>1, <2>1, <2>3, <3>1, <3>2 DEF try_attach_new_ebook
      <3>4. Cardinality(targets) = 1 => b \in targets
        <4>1. Cardinality({}) = 0
          BY FS_EmptySet
        <4>2. Cardinality(targets) = 1 => targets # {}
          BY <4>1
        <4> QED BY <3>2, <4>2
      <3>5. U = insert_book_row(T, Parsed(p)) \/ Joins(T, U, p)
        BY <3>1, <3>3, <3>4 DEF Joins
      <3> QED BY <1>2, <1>4, <2>3, <3>5 DEF Writes
    <2> QED BY <2>2, <2>3
  <1> QED BY <1>3, <1>4

-----------------------------------------------------------------------------
(* Types and keys, through the transaction.                                *)

Stands(T, b) == T.books[b] # None

(* The foreign keys, the primary key of the ledger, UNIQUE of scan_key. *)
Keyed(T) ==
    /\ T \in Db
    /\ \A f \in T.files : Stands(T, f.book)
    /\ \A m \in T.ledger : Stands(T, m.book)
    /\ \A m, n \in T.ledger : m.uuid = n.uuid => m = n
    /\ \A b, c \in Id : Stands(T, b) /\ Stands(T, c) /\ T.books[b].key = T.books[c].key => b = c

LEMMA StandsIs ==
    ASSUME NEW T \in Db, NEW b \in Id
    PROVE  /\ Stands(T, b) <=> T.books[b] \in Book
           /\ b \in BooksOf(T) <=> Stands(T, b)
           /\ Stands(T, b) => T.books[b].key \in Paths /\ T.books[b].work \in Works \cup {None}
  BY Nulls DEF Stands, Db, BooksOf, Book

(* The tables during a bucket: no book goes, and a book has only come to   *)
(* a path that was written.                                                *)
Grown(T0, T, n) ==
    /\ \A b \in Id : Stands(T0, b) => Stands(T, b)
    /\ \A b \in Id : Stands(T, b) /\ T.books[b].key > n
          => Stands(T0, b) /\ T.books[b].key = T0.books[b].key

(* A book takes the path p that no other has. *)
LEMMA TakesPath ==
    ASSUME NEW T, Keyed(T), NEW U, NEW b \in Id, NEW x, NEW p \in Paths, Puts(T, U, b, x, p),
           U.ledger \subseteq T.ledger, U.books[b].key = p,
           \A c \in Id \ {b} : Stands(T, c) => T.books[c].key # p
    PROVE  Keyed(U)
  <1>1. U \in Db /\ Stands(U, b)
    BY StandsIs DEF Puts
  <1>2. \A c \in Id \ {b} : U.books[c] = T.books[c] /\ (Stands(U, c) <=> Stands(T, c))
    BY DEF Puts, Stands
  <1>3. \A c \in Id : Stands(T, c) => Stands(U, c)
    BY <1>1, <1>2
  <1>4. \A f \in U.files : f \in T.files \/ f.book = b
    BY DEF Puts, NewRow
  <1>5. \A f \in T.files : f.book \in Id
    BY DEF Keyed, Db, Row
  <1>6. \A m \in T.ledger : m.book \in Id
    BY DEF Keyed, Db, Attachment
  <1>7. \A f \in U.files : Stands(U, f.book)
    BY <1>1, <1>3, <1>4, <1>5 DEF Keyed
  <1>8. \A m \in U.ledger : Stands(U, m.book)
    BY <1>3, <1>6 DEF Keyed
  <1>9. ASSUME NEW c \in Id, NEW d \in Id, Stands(U, c), Stands(U, d), U.books[c].key = U.books[d].key
        PROVE  c = d
    BY <1>2, <1>9 DEF Keyed
  <1> QED BY <1>1, <1>7, <1>8, <1>9 DEF Keyed

(* A book takes a file and keeps its path. *)
LEMMA TakesFile ==
    ASSUME NEW T, Keyed(T), NEW U, NEW b \in Id, Stands(T, b), NEW x, NEW p \in Paths, NEW v \in Int,
           Puts(T, U, b, x, p), U.books[b].key = T.books[b].key,
           U.ledger = {m \in T.ledger : m.uuid # v} \cup {Entry(v, b, x, p)}
    PROVE  Keyed(U)
  <1>1. U \in Db /\ Stands(U, b)
    BY StandsIs DEF Puts
  <1>2. \A c \in Id \ {b} : U.books[c] = T.books[c] /\ (Stands(U, c) <=> Stands(T, c))
    BY DEF Puts, Stands
  <1>3. \A c \in Id : Stands(T, c) <=> Stands(U, c)
    BY <1>1, <1>2
  <1>4. \A f \in U.files : f \in T.files \/ f.book = b
    BY DEF Puts, NewRow
  <1>5. \A f \in T.files : f.book \in Id
    BY DEF Keyed, Db, Row
  <1>6. \A m \in T.ledger : m.book \in Id
    BY DEF Keyed, Db, Attachment
  <1>7. \A f \in U.files : Stands(U, f.book)
    BY <1>1, <1>3, <1>4, <1>5 DEF Keyed
  <1>8. \A m \in U.ledger : Stands(U, m.book)
    BY <1>1, <1>3, <1>6 DEF Keyed, Entry
  <1>9. \A m, n \in U.ledger : m.uuid = n.uuid => m = n
    BY DEF Keyed, Entry
  <1>10. \A c \in Id : U.books[c].key = T.books[c].key
    BY <1>2
  <1>11. ASSUME NEW c \in Id, NEW d \in Id, Stands(U, c), Stands(U, d), U.books[c].key = U.books[d].key
         PROVE  c = d
    BY <1>3, <1>10, <1>11 DEF Keyed
  <1> QED BY <1>1, <1>7, <1>8, <1>9, <1>11 DEF Keyed

(* What a file written changes: one book, at p or where it was, and at     *)
(* most one id is used up.                                                 *)
LEMMA GrownOn ==
    ASSUME NEW T0 \in Db, NEW T \in Db, NEW p \in Paths, Grown(T0, T, p - 1),
           NEW U, NEW b \in Id, NEW x, Puts(T, U, b, x, p),
           U.books[b].key = p \/ (Stands(T, b) /\ U.books[b].key = T.books[b].key)
    PROVE  Grown(T0, U, p)
  <1>1. U \in Db /\ Stands(U, b)
    BY StandsIs DEF Puts
  <1>2. \A c \in Id \ {b} : U.books[c] = T.books[c] /\ (Stands(U, c) <=> Stands(T, c))
    BY DEF Puts, Stands
  <1>3. \A c \in Id : Stands(T0, c) => Stands(U, c)
    BY <1>1, <1>2 DEF Grown
  <1>4. \A c \in Id : Stands(T, c) => T.books[c].key \in Nat
    BY StandsIs DEF Paths
  <1>5. ASSUME NEW c \in Id, Stands(U, c), U.books[c].key > p
        PROVE  Stands(T0, c) /\ U.books[c].key = T0.books[c].key
    <2>1. p \in Nat
      BY DEF Paths
    <2>2. Stands(T, c) /\ U.books[c].key = T.books[c].key
      <3>1. ~(p > p)
        BY <2>1
      <3> QED BY <1>2, <1>5, <3>1
    <2>3. T.books[c].key > p - 1
      BY <1>4, <1>5, <2>1, <2>2
    <2> QED BY <2>2, <2>3 DEF Grown
  <1> QED BY <1>3, <1>5 DEF Grown

LEMMA SpareLeft ==
    ASSUME NEW T \in Db, NEW U, NEW b \in Id, NEW x, NEW p, Puts(T, U, b, x, p),
           \A m \in U.ledger : m.uuid \in Id => \E n \in T.ledger : n.uuid = m.uuid
    PROVE  Spare(T) \ {b} \subseteq Spare(U)
  <1>1. BooksOf(U) \subseteq BooksOf(T) \cup {b}
    BY DEF Puts, BooksOf
  <1> QED BY <1>1 DEF Spare

(* A path of which no book stood when the bucket began still has none. *)
LEMMA StillNone ==
    ASSUME NEW T0 \in Db, NEW T \in Db, NEW p \in Paths, Grown(T0, T, p - 1), HolderOf(T0, p) = {}
    PROVE  \A c \in Id : Stands(T, c) => T.books[c].key # p
  <1>1. SUFFICES ASSUME NEW c \in Id, Stands(T, c), T.books[c].key = p
                 PROVE  FALSE
    OBVIOUS
  <1>2. p > p - 1
    BY DEF Paths
  <1>3. Stands(T0, c) /\ T0.books[c].key = p
    BY <1>1, <1>2 DEF Grown
  <1>4. c \in HolderOf(T0, p)
    BY <1>3, StandsIs DEF HolderOf
  <1> QED BY <1>4

(* A path of which one book stood may still be its own. *)
LEMMA StillOne ==
    ASSUME NEW T0, NEW T \in Db, NEW p \in Paths, Keyed(T0), Grown(T0, T, p - 1),
           NEW b \in HolderOf(T0, p)
    PROVE  /\ b \in Id /\ Stands(T0, b) /\ T0.books[b].key = p /\ Stands(T, b)
           /\ \A c \in Id \ {b} : Stands(T, c) => T.books[c].key # p
  <1>1. b \in Id /\ Stands(T0, b) /\ T0.books[b].key = p
    BY StandsIs DEF HolderOf, BooksOf, Keyed
  <1>2. Stands(T, b)
    BY <1>1 DEF Grown
  <1>3. ASSUME NEW c \in Id \ {b}, Stands(T, c), T.books[c].key = p
        PROVE  FALSE
    <2>1. p > p - 1
      BY DEF Paths
    <2>2. Stands(T0, c) /\ T0.books[c].key = p
      BY <1>3, <2>1 DEF Grown
    <2> QED BY <1>1, <2>2 DEF Keyed
  <1> QED BY <1>1, <1>2, <1>3

(* The three things that can become of a file, in terms of the tables.     *)

(* Book b takes the path p and the file. *)
Moves(T, U, b, p) ==
    /\ b \in Id /\ Stands(T, b) /\ Puts(T, U, b, FormatOf[p], p) /\ U.ledger = T.ledger
    /\ U.books[b].key = p /\ U.books[b].work = Parsed(p).work

(* The file becomes a book, and leaves the ledger. *)
Settles(T, U, b, p) ==
    /\ b \in Id /\ ~Stands(T, b) /\ Puts(T, U, b, FormatOf[p], p)
    /\ U.ledger = {m \in T.ledger : m.key # p} \/ U.ledger = T.ledger
    /\ \A m \in U.ledger : m.uuid # b
    /\ b \notin (IF step = "sync" THEN pass.removed ELSE {})
    /\ U.books[b].key = p /\ U.books[b].work = Parsed(p).work

(* Book b has the file attached, under the handle v. *)
Attaches(T, U, b, x, v, p) ==
    /\ b \in Id /\ Stands(T, b) /\ x \in Range(FormatOf) /\ v \in Int
    /\ Puts(T, U, b, x, p)
    /\ U.books[b].key = T.books[b].key /\ U.books[b].work = T.books[b].work
    /\ U.ledger = {m \in T.ledger : m.uuid # v} \cup {Entry(v, b, x, p)}

LEMMA RewriteMoves ==
    ASSUME NEW T \in Db, NEW b \in Id, Stands(T, b), NEW p \in Paths, Reads, pass.seen[p] \in Stat
    PROVE  Moves(T, rewrite_book_in_place(T, b, Parsed(p)), b, p)
  <1>1. T.books[b] \in Book
    BY StandsIs
  <1> QED BY <1>1, RewriteDoes DEF Moves

LEMMA InsertSettles ==
    ASSUME NEW T \in Db, NEW p \in Paths, Reads, pass.seen[p] \in Stat, Spare(T) # {}
    PROVE  \E b \in Spare(T) : /\ Settles(T, insert_book_row(T, Parsed(p)), b, p)
                               /\ insert_book_row(T, Parsed(p)).ledger = T.ledger
  <1>1. PICK U : U = insert_book_row(T, Parsed(p))
    OBVIOUS
  <1>2. PICK b \in Spare(T) : /\ Puts(T, U, b, FormatOf[p], p)
                              /\ U.ledger = T.ledger
                              /\ U.books[b].key = p /\ U.books[b].work = Parsed(p).work
    BY <1>1, InsertDoes
  <1>3. /\ b \in Id /\ b \notin BooksOf(T) /\ \A m \in T.ledger : m.uuid # b
        /\ b \notin (IF step = "sync" THEN pass.removed ELSE {})
    BY <1>2 DEF Spare
  <1>4. ~Stands(T, b)
    BY <1>3, StandsIs
  <1> QED BY <1>1, <1>2, <1>3, <1>4 DEF Settles

LEMMA ForgetSettles ==
    ASSUME NEW T \in Db, NEW p \in Paths, Reads, pass.seen[p] \in Stat, Spare(T) # {},
           NEW U, U = insert_book_row(forget_attachment(T, p), Parsed(p))
    PROVE  \E b \in Id : Settles(T, U, b, p) /\ U.ledger = {m \in T.ledger : m.key # p}
  <1>1. PICK V : V = forget_attachment(T, p)
    OBVIOUS
  <1>2. /\ V \in Db /\ V.books = T.books /\ V.files = T.files
        /\ V.ledger = {m \in T.ledger : m.key # p} /\ Spare(T) \subseteq Spare(V)
    BY <1>1, ForgetDoes
  <1>3. PICK b \in Spare(V) : Settles(V, U, b, p) /\ U.ledger = V.ledger
    BY <1>1, <1>2, InsertSettles
  <1>4. Puts(T, U, b, FormatOf[p], p) /\ ~Stands(T, b)
    BY <1>2, <1>3 DEF Settles, Puts, Stands
  <1>5. Settles(T, U, b, p) /\ b \in Id
    BY <1>2, <1>3, <1>4 DEF Settles
  <1> QED BY <1>2, <1>3, <1>5

LEMMA AttachAttaches ==
    ASSUME NEW T \in Db, NEW b \in Id, Stands(T, b), NEW p \in Paths, pass.seen[p] \in Stat,
           NEW x \in Range(FormatOf), NEW u \in Int,
           NEW U, U = attach_ebook_file(T, b, x, u, Parsed(p))
    PROVE  \E v \in Int :
              /\ Attaches(T, U, b, x, v, p)
              /\ AttachmentsAt(T, p) = {} => v = u
              /\ AttachmentsAt(T, p) # {} => \E m \in AttachmentsAt(T, p) : v = m.uuid
  <1>1. T.books[b] \in Book
    BY StandsIs
  <1> QED BY <1>1, AttachDoes DEF Attaches

(* A file written keeps types and keys and takes one id at most.           *)
LEMMA WriteKeyed ==
    ASSUME NEW T0, Keyed(T0), NEW T, Keyed(T), NEW p \in Paths, Grown(T0, T, p - 1),
           Reads, pass.seen[p] \in Stat, Spare(T) # {}, NEW U, Writes(T0, T, U, p)
    PROVE  /\ Keyed(U) /\ Grown(T0, U, p)
           /\ \E b \in Id : Spare(T) \ {b} \subseteq Spare(U)
  <1> DEFINE Kept(V) == /\ Keyed(V) /\ Grown(T0, V, p)
                        /\ \E b \in Id : Spare(T) \ {b} \subseteq Spare(V)
  <1>1. T \in Db /\ T0 \in Db
    BY DEF Keyed
  <1>2. ASSUME NEW b, Moves(T, U, b, p), \A c \in Id \ {b} : Stands(T, c) => T.books[c].key # p
        PROVE  Kept(U)
    <2>1. /\ b \in Id /\ Puts(T, U, b, FormatOf[p], p) /\ U.ledger = T.ledger /\ U.books[b].key = p
      BY <1>2 DEF Moves
    <2>2. Keyed(U)
      <3>1. U.ledger \subseteq T.ledger /\ \A c \in Id \ {b} : Stands(T, c) => T.books[c].key # p
        BY <1>2, <2>1
      <3>2. PICK x : Puts(T, U, b, x, p)
        BY <2>1
      <3>3. b \in Id /\ U.books[b].key = p
        BY <2>1
      <3> QED BY <3>1, <3>2, <3>3, TakesPath
    <2>3. Grown(T0, U, p)
      BY <1>1, <2>1, GrownOn
    <2>4. Spare(T) \ {b} \subseteq Spare(U)
      BY <1>1, <2>1, SpareLeft
    <2> QED BY <2>1, <2>2, <2>3, <2>4
  <1>3. ASSUME NEW b, Settles(T, U, b, p), HolderOf(T0, p) = {}
        PROVE  Kept(U)
    <2>1. /\ b \in Id /\ Puts(T, U, b, FormatOf[p], p) /\ U.ledger \subseteq T.ledger
          /\ U.books[b].key = p
      BY <1>3 DEF Settles
    <2>2. \A c \in Id : Stands(T, c) => T.books[c].key # p
      BY <1>1, <1>3, StillNone
    <2>3. Keyed(U)
      <3>1. PICK x : Puts(T, U, b, x, p)
        BY <2>1
      <3>2. b \in Id /\ U.books[b].key = p /\ U.ledger \subseteq T.ledger
        BY <2>1
      <3> QED BY <2>2, <3>1, <3>2, TakesPath
    <2>4. Grown(T0, U, p)
      BY <1>1, <2>1, GrownOn
    <2>5. Spare(T) \ {b} \subseteq Spare(U)
      BY <1>1, <2>1, SpareLeft
    <2> QED BY <2>1, <2>3, <2>4, <2>5
  <1>4. ASSUME NEW b, NEW x, NEW v, Attaches(T, U, b, x, v, p),
               v \in Id => \E m \in T.ledger : m.uuid = v
        PROVE  Kept(U)
    <2>1. /\ b \in Id /\ Stands(T, b) /\ v \in Int /\ Puts(T, U, b, x, p)
          /\ U.books[b].key = T.books[b].key
          /\ U.ledger = {m \in T.ledger : m.uuid # v} \cup {Entry(v, b, x, p)}
      BY <1>4 DEF Attaches
    <2>2. Keyed(U)
      BY <2>1, TakesFile
    <2>3. Grown(T0, U, p)
      BY <1>1, <2>1, GrownOn
    <2>4. \A m \in U.ledger : m.uuid \in Id => \E n \in T.ledger : n.uuid = m.uuid
      BY <1>4, <2>1 DEF Entry
    <2>5. Spare(T) \ {b} \subseteq Spare(U)
      BY <1>1, <2>1, <2>4, SpareLeft
    <2> QED BY <2>1, <2>2, <2>3, <2>5
  <1>5. CASE Returns(T0, T, U, p)
    <2>1. PICK b \in HolderOf(T0, p) : U = rewrite_book_in_place(T, b, Parsed(p))
      BY <1>5 DEF Returns
    <2>2. /\ b \in Id /\ Stands(T, b)
          /\ \A c \in Id \ {b} : Stands(T, c) => T.books[c].key # p
      BY <1>1, <2>1, StillOne
    <2> QED BY <1>1, <1>2, <2>1, <2>2, RewriteMoves
  <1>6. CASE HolderOf(T0, p) = {} /\ Reattaches(T, U, p)
    <2>1. PICK m \in AttachmentsAt(T, p) :
            IF slot_held_by_other(T, m.book, m.format, p)
            THEN U = insert_book_row(forget_attachment(T, p), Parsed(p))
            ELSE U = attach_ebook_file(T, m.book, m.format, m.uuid, Parsed(p))
      BY <1>6 DEF Reattaches
    <2>2. m \in T.ledger /\ m.book \in Id /\ m.format \in Range(FormatOf) /\ m.uuid \in Int
      BY <1>1 DEF AttachmentsAt, Db, Attachment
    <2>3. CASE U = insert_book_row(forget_attachment(T, p), Parsed(p))
      BY <1>1, <1>3, <1>6, <2>3, ForgetSettles
    <2>4. CASE U = attach_ebook_file(T, m.book, m.format, m.uuid, Parsed(p))
      <3>1. Stands(T, m.book)
        BY <2>2 DEF Keyed
      <3>2. PICK v \in Int : /\ Attaches(T, U, m.book, m.format, v, p)
                             /\ \E n \in AttachmentsAt(T, p) : v = n.uuid
        BY <1>1, <2>1, <2>2, <2>4, <3>1, AttachAttaches
      <3> QED BY <1>4, <3>2 DEF AttachmentsAt
    <2> QED BY <2>1, <2>3, <2>4
  <1>7. CASE HolderOf(T0, p) = {} /\ U = insert_book_row(T, Parsed(p))
    BY <1>1, <1>3, <1>7, InsertSettles
  <1>8. CASE HolderOf(T0, p) = {} /\ Joins(T, U, p)
    <2>1. PICK b \in find_attach_target(T, Parsed(p).work, FormatOf[p]) :
            IF b \in pass.removed THEN U = rewrite_book_in_place(T, b, Parsed(p))
            ELSE U = attach_ebook_file(T, b, FormatOf[p], stable_uuid(p), Parsed(p))
      BY <1>8 DEF Joins
    <2>2. b \in Id /\ Stands(T, b)
      BY <1>1, StandsIs DEF find_attach_target, BooksOf
    <2>3. CASE U = rewrite_book_in_place(T, b, Parsed(p))
      BY <1>1, <1>2, <1>8, <2>2, <2>3, RewriteMoves, StillNone
    <2>4. CASE U = attach_ebook_file(T, b, FormatOf[p], stable_uuid(p), Parsed(p))
      <3>1. FormatOf[p] \in Range(FormatOf) /\ stable_uuid(p) \in Int /\ stable_uuid(p) \notin Id
        BY Nulls DEF stable_uuid, Paths, Id
      <3>2. PICK v \in Int :
              /\ Attaches(T, U, b, FormatOf[p], v, p)
              /\ AttachmentsAt(T, p) = {} => v = stable_uuid(p)
              /\ AttachmentsAt(T, p) # {} => \E m \in AttachmentsAt(T, p) : v = m.uuid
        BY <1>1, <2>2, <2>4, <3>1, AttachAttaches
      <3> QED BY <1>4, <3>1, <3>2 DEF AttachmentsAt
    <2> QED BY <2>1, <2>3, <2>4
  <1> QED BY <1>5, <1>6, <1>7, <1>8 DEF Writes

(* A bucket: its files are written one by one, in the order of their paths. *)
Bucket(T0, g, todo) ==
    /\ g[0] = T0
    /\ \A n \in Paths : IF n \in todo THEN Writes(T0, g[n - 1], g[n], n) ELSE g[n] = g[n - 1]

LEMMA ChangedBucket ==
    ASSUME NEW T0
    PROVE  \E g : Bucket(T0, g, pass.changed) /\ g[LastPath] = sync_changed(T0, pass.changed)
  <1>1. PICK g : /\ g[0] = T0 /\ g[LastPath] = sync_changed(T0, pass.changed)
                 /\ \A n \in Paths : g[n] = StageAt("changed", T0, g[n - 1], n)
    BY ChangedPasses DEF Passes
  <1>2. \A n \in Paths : g[n] = IF n \in pass.changed
                                THEN sync_changed_one(T0, g[n - 1], Parsed(n)) ELSE g[n - 1]
    BY <1>1 DEF StageAt
  <1>3. Bucket(T0, g, pass.changed)
    BY <1>1, <1>2, ChangedCases DEF Bucket
  <1> QED BY <1>1, <1>3

LEMMA NewBucket ==
    ASSUME NEW T0
    PROVE  \E g : Bucket(T0, g, pass.new) /\ g[LastPath] = sync_new(T0, pass.new, pass.removed)
  <1>1. PICK g : /\ g[0] = T0 /\ g[LastPath] = sync_new(T0, pass.new, pass.removed)
                 /\ \A n \in Paths : g[n] = StageAt("new", T0, g[n - 1], n)
    BY NewPasses DEF Passes
  <1>2. \A n \in Paths : g[n] = IF n \in pass.new
                                THEN sync_new_one(T0, g[n - 1], Parsed(n), pass.removed) ELSE g[n - 1]
    BY <1>1 DEF StageAt
  <1>3. Bucket(T0, g, pass.new)
    BY <1>1, <1>2, NewCases DEF Bucket
  <1> QED BY <1>1, <1>3

(* All through a bucket, types and keys hold and there are ids enough for  *)
(* the files still to be written, here and in the bucket that follows.     *)
Later(todo, rest, n) == {p \in todo : p > n} \cup rest

Kept(T0, T, todo, rest, n) ==
    /\ Keyed(T) /\ Grown(T0, T, n)
    /\ Cardinality(Later(todo, rest, n)) <= Cardinality(Spare(T))

LEMMA BucketKeeps ==
    ASSUME NEW T0, Keyed(T0), NEW todo \in SUBSET Paths, NEW rest \in SUBSET Paths,
           todo \cap rest = {}, NEW g, Bucket(T0, g, todo), Reads,
           \A p \in todo : pass.seen[p] \in Stat,
           Cardinality(todo \cup rest) <= Cardinality(Spare(T0))
    PROVE  \A n \in 0 .. LastPath : Kept(T0, g[n], todo, rest, n)
  <1> DEFINE S == {n \in 0 .. LastPath : Kept(T0, g[n], todo, rest, n)}
  <1>1. 0 \in S
    <2>1. Later(todo, rest, 0) = todo \cup rest
      <3>1. \A p \in todo : p > 0
        BY DEF Paths
      <3> QED BY <3>1 DEF Later
    <2>2. Grown(T0, T0, 0)
      BY DEF Grown
    <2> QED BY <2>1, <2>2, Bounds DEF Kept, Bucket
  <1>2. ASSUME NEW n \in Paths, n - 1 \in S
        PROVE  n \in S
    <2>1. PICK T : T = g[n - 1]
      OBVIOUS
    <2>2. Kept(T0, T, todo, rest, n - 1) /\ n \in 0 .. LastPath /\ T0 \in Db /\ T \in Db
      BY <1>2, <2>1 DEF Paths, Kept, Keyed
    <2>3. CASE n \in todo
      <3>1. Later(todo, rest, n) = Later(todo, rest, n - 1) \ {n} /\ n \in Later(todo, rest, n - 1)
        <4>1. \A p \in todo : (p > n - 1) <=> (p > n \/ p = n)
          <5>1. n \in Int /\ \A p \in todo : p \in Int
            BY DEF Paths
          <5> QED BY <5>1
        <4>2. ~(n > n) /\ n \notin rest
          BY <2>3 DEF Paths
        <4> QED BY <2>3, <4>1, <4>2 DEF Later
      <3>2. Later(todo, rest, n - 1) \in SUBSET Paths
        BY DEF Later
      <3>3. Spare(T) \in SUBSET Id
        BY DEF Spare
      <3>4. Cardinality(Later(todo, rest, n - 1)) <= Cardinality(Spare(T))
        BY <2>2 DEF Kept
      <3>5. Spare(T) # {}
        BY <3>1, <3>2, <3>3, <3>4, OneLeft
      <3>6. PICK U : U = g[n]
        OBVIOUS
      <3>7. Writes(T0, T, U, n)
        BY <2>1, <2>3, <3>6 DEF Bucket
      <3>8. Keyed(T) /\ Grown(T0, T, n - 1) /\ pass.seen[n] \in Stat
        BY <2>2, <2>3 DEF Kept
      <3>9. /\ Keyed(U) /\ Grown(T0, U, n)
             /\ \E b \in Id : Spare(T) \ {b} \subseteq Spare(U)
        BY <3>5, <3>7, <3>8, WriteKeyed
      <3>10. PICK b \in Id : Spare(T) \ {b} \subseteq Spare(U)
        BY <3>9
      <3>11. Spare(U) \in SUBSET Id
        BY DEF Spare
      <3>12. Cardinality(Later(todo, rest, n - 1) \ {n}) <= Cardinality(Spare(U))
        <4>1. PICK L, A, B : L = Later(todo, rest, n - 1) /\ A = Spare(T) /\ B = Spare(U)
          OBVIOUS
        <4>2. /\ L \in SUBSET Paths /\ A \in SUBSET Id /\ B \in SUBSET Id /\ n \in L
              /\ A \ {b} \subseteq B /\ Cardinality(L) <= Cardinality(A)
          BY <3>1, <3>2, <3>3, <3>4, <3>10, <3>11, <4>1
        <4>3. Cardinality(L \ {n}) <= Cardinality(B)
          BY <4>2, OneFewer
        <4> QED BY <4>1, <4>3
      <3> QED BY <2>2, <3>1, <3>6, <3>9, <3>12 DEF Kept
    <2>4. CASE n \notin todo
      <3>1. g[n] = T
        BY <2>1, <2>4 DEF Bucket
      <3>2. Later(todo, rest, n) = Later(todo, rest, n - 1)
        <4>1. \A p \in todo : p > n - 1 <=> p > n
          BY <2>4 DEF Paths
        <4> QED BY <4>1 DEF Later
      <3>3. Grown(T0, T, n)
        <4>1. \A c \in Id : Stands(T, c) /\ T.books[c].key > n => T.books[c].key > n - 1
          BY <2>2, StandsIs DEF Paths
        <4> QED BY <2>2, <4>1 DEF Grown, Kept
      <3> QED BY <2>2, <3>1, <3>2, <3>3 DEF Kept
    <2> QED BY <2>3, <2>4
  <1> HIDE DEF S
  <1>3. \A n \in 0 .. LastPath : n \in S
    BY <1>1, <1>2, UpToEach
  <1> QED BY <1>3 DEF S

-----------------------------------------------------------------------------
(* The stages before the buckets.                                          *)

SameBooks(T, U) ==
    \A b \in Id : /\ Stands(U, b) <=> Stands(T, b)
                  /\ Stands(T, b) => /\ U.books[b].key = T.books[b].key
                                     /\ U.books[b].work = T.books[b].work

LEMMA SparedIs ==
    ASSUME NEW T, NEW U, BooksOf(U) \subseteq BooksOf(T),
           \A m \in U.ledger : \E n \in T.ledger : n.uuid = m.uuid
    PROVE  Spare(T) \subseteq Spare(U)
  BY DEF Spare

(* Fewer rows of the same books. *)
LEMMA FewerRows ==
    ASSUME NEW T, Keyed(T), NEW U \in Db, SameBooks(T, U),
           U.files \subseteq T.files, U.ledger \subseteq T.ledger
    PROVE  Keyed(U) /\ Spare(T) \subseteq Spare(U)
  <1>1. T \in Db /\ BooksOf(U) = BooksOf(T)
    BY StandsIs DEF SameBooks, BooksOf, Keyed, Stands
  <1>2. Spare(T) \subseteq Spare(U)
    BY <1>1, SparedIs
  <1>3. \A f \in U.files : f.book \in Id /\ Stands(T, f.book)
    BY DEF Keyed, Db, Row
  <1>4. \A m \in U.ledger : m.book \in Id /\ Stands(T, m.book)
    BY DEF Keyed, Db, Attachment
  <1>5. \A b, c \in Id : Stands(U, b) /\ Stands(U, c) /\ U.books[b].key = U.books[c].key => b = c
    BY DEF Keyed, SameBooks
  <1> QED BY <1>2, <1>3, <1>4, <1>5 DEF SameBooks, Keyed

(* A row the ledger backs, by book, format and path. *)
Backed(T, f) == \E m \in T.ledger : m.book = f.book /\ m.format = FormatOf[f.key] /\ m.key = f.key

LEMMA RemovedDoes ==
    ASSUME NEW T \in Db, NEW R, NEW U, U = sync_removed(T, R)
    PROVE  /\ U \in Db /\ SameBooks(T, U) /\ U.ledger = T.ledger
           /\ U.files = {f \in T.files : f.book \in R \cap BooksOf(T) => Backed(T, f)}
  <1>1. PICK left : left = {f \in T.files : f.book \in R \cap BooksOf(T) => Backed(T, f)}
    OBVIOUS
  <1>2. PICK flagged : flagged = [b \in Id |->
            IF b \in R \cap BooksOf(T) /\ T.books[b].missing = "no" /\ ~(\E f \in left : f.book = b)
            THEN [T.books[b] EXCEPT !.missing = "recent"] ELSE T.books[b]]
    OBVIOUS
  <1>3. U = [T EXCEPT !.files = left, !.books = flagged]
    BY <1>1, <1>2 DEF sync_removed, Backed
  <1>4. /\ U.files = left /\ U.books = flagged /\ U.ledger = T.ledger
        /\ U = [books |-> U.books, files |-> U.files, ledger |-> U.ledger]
    BY <1>3 DEF Db
  <1>5. ASSUME NEW b \in Id
        PROVE  /\ flagged[b] \in Book \cup {None}
               /\ flagged[b] # None <=> T.books[b] # None
               /\ T.books[b] # None => /\ flagged[b].key = T.books[b].key
                                       /\ flagged[b].work = T.books[b].work
    <2>1. CASE T.books[b] \in Book
      <3>1. PICK r : r = [T.books[b] EXCEPT !.missing = "recent"]
        OBVIOUS
      <3>2. r \in Book /\ r.key = T.books[b].key /\ r.work = T.books[b].work
        BY <2>1, <3>1 DEF Book
      <3>3. flagged[b] = r \/ flagged[b] = T.books[b]
        BY <1>2, <3>1
      <3> QED BY <2>1, <3>2, <3>3, Nulls
    <2>2. CASE T.books[b] = None
      <3>1. b \notin BooksOf(T)
        BY <2>2 DEF BooksOf
      <3>2. flagged[b] = None
        BY <1>2, <2>2, <3>1
      <3> QED BY <2>2, <3>2
    <2> QED BY <2>1, <2>2 DEF Db
  <1>6. SameBooks(T, U)
    BY <1>4, <1>5 DEF SameBooks, Stands
  <1>7. U \in Db
    <2>1. U.books \in [Id -> Book \cup {None}]
      BY <1>2, <1>4, <1>5
    <2>2. U.files \in SUBSET Row
      BY <1>1, <1>4 DEF Db
    <2> QED BY <1>4, <2>1, <2>2 DEF Db
  <1> QED BY <1>1, <1>4, <1>6, <1>7

LEMMA DetachedDoes ==
    ASSUME NEW T \in Db, NEW R, NEW U, U = remove_attached_files(T, R)
    PROVE  /\ U \in Db /\ U.books = T.books
           /\ U.files = {f \in T.files : ~\E m \in T.ledger :
                            m.uuid \in R /\ m.book = f.book /\ m.key = f.key}
           /\ U.ledger = {m \in T.ledger : m.uuid \notin R}
  <1>1. PICK gone : gone = {m \in T.ledger : m.uuid \in R}
    OBVIOUS
  <1>2. U = [T EXCEPT !.files = {f \in @ : ~\E m \in gone : m.book = f.book /\ m.key = f.key},
                      !.ledger = @ \ gone]
    BY <1>1 DEF remove_attached_files
  <1>3. /\ U.books = T.books /\ U.ledger = T.ledger \ gone
        /\ U.files = {f \in T.files : ~\E m \in gone : m.book = f.book /\ m.key = f.key}
        /\ U = [books |-> U.books, files |-> U.files, ledger |-> U.ledger]
    BY <1>2 DEF Db
  <1>4. U \in Db
    BY <1>3 DEF Db
  <1> QED BY <1>1, <1>3, <1>4

(* A file relocated: declined, with its book, or with its attachment.      *)
MovesBook(T, U, m) ==
    /\ m.uuid \in Id /\ Stands(T, m.uuid) /\ Stands(U, m.uuid)
    /\ \A c \in Id \ {m.uuid} : Stands(T, c) => T.books[c].key # m.to
    /\ \A c \in Id \ {m.uuid} : U.books[c] = T.books[c]
    /\ U.books[m.uuid].key = m.to /\ U.books[m.uuid].work = T.books[m.uuid].work
    /\ U.files = relocate_file_row(T.files, m.uuid, T.books[m.uuid].key, m.to)
    /\ U.ledger = T.ledger

MovesAttached(T, U, m) ==
    \E a \in T.ledger :
        /\ a.uuid = m.uuid /\ m.uuid \notin BooksOf(T)
        /\ \A c \in T.ledger : c.key = m.to => c.uuid = a.uuid
        /\ U.books = T.books
        /\ U.files = relocate_file_row(T.files, a.book, a.key, m.to)
        /\ U.ledger = (T.ledger \ {a}) \cup {Entry(a.uuid, a.book, a.format, m.to)}

LEMMA RelocatedRows ==
    ASSUME NEW fs \in SUBSET Row, NEW b, NEW from, NEW to \in Paths
    PROVE  relocate_file_row(fs, b, from, to) \in SUBSET Row
  <1>1. \A f \in Row : [f EXCEPT !.key = to] \in Row
    BY DEF Row
  <1> QED BY <1>1 DEF relocate_file_row

LEMMA RelocateDoes ==
    ASSUME NEW T \in Db, NEW m, m.to \in Paths, NEW U, U = relocate_one(T, m)
    PROVE  U \in Db /\ (U = T \/ MovesBook(T, U, m) \/ MovesAttached(T, U, m))
  <1>1. CASE m.uuid \in BooksOf(T) /\ ~\E c \in BooksOf(T) \ {m.uuid} : T.books[c].key = m.to
    <2>1. PICK u : u = m.uuid
      OBVIOUS
    <2>2. u \in Id /\ T.books[u] \in Book /\ Stands(T, u)
      BY <1>1, <2>1, StandsIs DEF BooksOf
    <2>3. PICK r : r = NotMissing([T.books[u] EXCEPT !.key = m.to])
      OBVIOUS
    <2>4. r \in Book /\ r.key = m.to /\ r.work = T.books[u].work
      BY <2>2, <2>3 DEF NotMissing, Book
    <2>5. U = [T EXCEPT !.books[u] = r, !.files = relocate_file_row(@, u, T.books[u].key, m.to)]
      BY <1>1, <2>1, <2>3 DEF relocate_one
    <2>6. /\ U.books = [T.books EXCEPT ![u] = r] /\ U.ledger = T.ledger
          /\ U.files = relocate_file_row(T.files, u, T.books[u].key, m.to)
          /\ U = [books |-> U.books, files |-> U.files, ledger |-> U.ledger]
      BY <2>5 DEF Db
    <2>7. U.books[u] = r /\ \A c \in Id \ {u} : U.books[c] = T.books[c]
      BY <2>2, <2>6 DEF Db
    <2>8. U \in Db
      <3>1. U.books \in [Id -> Book \cup {None}]
        BY <2>4, <2>6 DEF Db
      <3>2. U.files \in SUBSET Row
        BY <2>6, RelocatedRows DEF Db
      <3> QED BY <2>6, <3>1, <3>2 DEF Db
    <2>9. \A c \in Id \ {u} : Stands(T, c) => T.books[c].key # m.to
      BY <1>1, <2>1, StandsIs
    <2>10. Stands(U, u)
      BY <2>4, <2>7, Nulls DEF Stands
    <2> QED BY <2>1, <2>2, <2>4, <2>6, <2>7, <2>8, <2>9, <2>10 DEF MovesBook
  <1>2. CASE /\ m.uuid \notin BooksOf(T) /\ \E a \in T.ledger : a.uuid = m.uuid
             /\ ~\E a \in T.ledger : a.uuid # m.uuid /\ a.key = m.to
    <2>1. PICK a : a = CHOOSE x \in T.ledger : x.uuid = m.uuid
      OBVIOUS
    <2>2. a \in T.ledger /\ a.uuid = m.uuid /\ a \in Attachment
      BY <1>2, <2>1 DEF Db
    <2>3. [a EXCEPT !.key = m.to] = Entry(a.uuid, a.book, a.format, m.to)
      BY <2>2 DEF Entry, Attachment
    <2>4. Entry(a.uuid, a.book, a.format, m.to) \in Attachment
      BY <2>2 DEF Entry, Attachment
    <2>5. U = [T EXCEPT !.ledger = (@ \ {a}) \cup {[a EXCEPT !.key = m.to]},
                        !.files = relocate_file_row(@, a.book, a.key, m.to)]
      BY <1>2, <2>1 DEF relocate_one
    <2>6. /\ U.ledger = (T.ledger \ {a}) \cup {Entry(a.uuid, a.book, a.format, m.to)}
          /\ U.books = T.books /\ U.files = relocate_file_row(T.files, a.book, a.key, m.to)
          /\ U = [books |-> U.books, files |-> U.files, ledger |-> U.ledger]
      BY <2>3, <2>5 DEF Db
    <2>7. U \in Db
      <3>1. U.files \in SUBSET Row
        BY <2>6, RelocatedRows DEF Db
      <3>2. U.ledger \in SUBSET Attachment
        BY <2>4, <2>6 DEF Db
      <3> QED BY <2>6, <3>1, <3>2 DEF Db
    <2> QED BY <1>2, <2>2, <2>6, <2>7 DEF MovesAttached
  <1>3. CASE U = T
    BY <1>3
  <1> QED BY <1>1, <1>2, <1>3 DEF relocate_one

LEMMA RelocatedRow ==
    ASSUME NEW fs \in SUBSET Row, NEW b, NEW from, NEW to, NEW f \in relocate_file_row(fs, b, from, to)
    PROVE  \E e \in fs : /\ f.book = e.book /\ f.stat = e.stat
                         /\ f.key = IF e.book = b /\ e.key = from THEN to ELSE e.key
  <1>1. PICK e \in fs : f = IF e.book = b /\ e.key = from THEN [e EXCEPT !.key = to] ELSE e
    BY DEF relocate_file_row
  <1> QED BY <1>1 DEF Row

LEMMA MoveKeyed ==
    ASSUME NEW T, Keyed(T), NEW m, m.to \in Paths, NEW U, U = relocate_one(T, m)
    PROVE  /\ Keyed(U) /\ Spare(T) \subseteq Spare(U)
           /\ \A b \in Id : Stands(U, b) <=> Stands(T, b)
  <1>1. T \in Db /\ U \in Db /\ (U = T \/ MovesBook(T, U, m) \/ MovesAttached(T, U, m))
    BY RelocateDoes DEF Keyed
  <1>2. ASSUME MovesBook(T, U, m) \/ MovesAttached(T, U, m)
        PROVE  /\ \A b \in Id : Stands(U, b) <=> Stands(T, b)
               /\ \A f \in U.files : \E e \in T.files : f.book = e.book
    <2>1. \A b \in Id : Stands(U, b) <=> Stands(T, b)
      BY <1>2 DEF MovesBook, MovesAttached, Stands
    <2>2. PICK b, from : U.files = relocate_file_row(T.files, b, from, m.to)
      BY <1>2 DEF MovesBook, MovesAttached
    <2>3. T.files \in SUBSET Row
      BY <1>1 DEF Db
    <2> QED BY <2>1, <2>2, <2>3, RelocatedRow
  <1>3. ASSUME MovesBook(T, U, m) \/ MovesAttached(T, U, m)
        PROVE  \A f \in U.files : Stands(U, f.book)
    <2>1. \A e \in T.files : e.book \in Id /\ Stands(T, e.book)
      BY <1>1 DEF Keyed, Db, Row
    <2> QED BY <1>2, <1>3, <2>1
  <1>4. \A a \in T.ledger : a.book \in Id /\ Stands(T, a.book)
    BY <1>1 DEF Keyed, Db, Attachment
  <1>5. CASE U = T
    BY <1>5
  <1>6. CASE MovesBook(T, U, m)
    <2>1. \A a \in U.ledger : Stands(U, a.book)
      BY <1>2, <1>4, <1>6 DEF MovesBook
    <2>2. ASSUME NEW b \in Id, NEW c \in Id, Stands(U, b), Stands(U, c), U.books[b].key = U.books[c].key
          PROVE  b = c
      BY <1>2, <1>6, <2>2 DEF MovesBook, Keyed
    <2>3. BooksOf(U) = BooksOf(T) /\ U.ledger = T.ledger
      BY <1>1, <1>2, <1>6, StandsIs DEF MovesBook, BooksOf, Stands
    <2>4. Spare(T) \subseteq Spare(U)
      BY <2>3, SparedIs
    <2>5. \A a, c \in U.ledger : a.uuid = c.uuid => a = c
      BY <2>3 DEF Keyed
    <2> QED BY <1>1, <1>2, <1>3, <1>6, <2>1, <2>2, <2>4, <2>5 DEF Keyed
  <1>7. CASE MovesAttached(T, U, m)
    <2>1. PICK a \in T.ledger :
            /\ a.uuid = m.uuid /\ U.books = T.books
            /\ U.ledger = (T.ledger \ {a}) \cup {Entry(a.uuid, a.book, a.format, m.to)}
      BY <1>7 DEF MovesAttached
    <2>2. \A c \in U.ledger : \E d \in T.ledger : d.book = c.book /\ d.uuid = c.uuid
      BY <2>1 DEF Entry
    <2>3. \A c \in U.ledger : Stands(U, c.book)
      BY <1>2, <1>4, <1>7, <2>2
    <2>4. \A c, d \in U.ledger : c.uuid = d.uuid => c = d
      <3>1. \A c, d \in T.ledger : c.uuid = d.uuid => c = d
        BY DEF Keyed
      <3> QED BY <2>1, <3>1 DEF Entry
    <2>5. BooksOf(U) = BooksOf(T)
      BY <2>1 DEF BooksOf
    <2>6. Spare(T) \subseteq Spare(U)
      BY <2>2, <2>5, SparedIs
    <2>7. \A b, c \in Id : Stands(U, b) /\ Stands(U, c) /\ U.books[b].key = U.books[c].key => b = c
      BY <2>1 DEF Keyed, Stands
    <2> QED BY <1>1, <1>2, <1>3, <1>7, <2>3, <2>4, <2>6, <2>7 DEF Keyed
  <1> QED BY <1>1, <1>5, <1>6, <1>7

(* The stage of the moved files, one after another. *)
MovedStage(T0, g) ==
    /\ g[0] = T0
    /\ \A n \in Paths : \/ g[n] = g[n - 1] /\ ~\E m \in pass.moved : m.to = n
                        \/ \E m \in pass.moved : m.to = n /\ g[n] = relocate_one(g[n - 1], m)

LEMMA MovedStages ==
    ASSUME NEW T0
    PROVE  \E g : MovedStage(T0, g) /\ g[LastPath] = sync_moved(T0, pass.moved)
  <1>1. PICK g : /\ g[0] = T0 /\ g[LastPath] = sync_moved(T0, pass.moved)
                 /\ \A n \in Paths : g[n] = StageAt("moved", T0, g[n - 1], n)
    BY MovedPasses DEF Passes
  <1>2. ASSUME NEW n \in Paths
        PROVE  \/ g[n] = g[n - 1] /\ ~\E m \in pass.moved : m.to = n
               \/ \E m \in pass.moved : m.to = n /\ g[n] = relocate_one(g[n - 1], m)
    <2>1. CASE \E m \in pass.moved : m.to = n
      <3>1. PICK m : m = CHOOSE x \in pass.moved : x.to = n
        OBVIOUS
      <3>2. m \in pass.moved /\ m.to = n
        BY <2>1, <3>1
      <3>3. g[n] = relocate_one(g[n - 1], m)
        BY <1>1, <2>1, <3>1 DEF StageAt
      <3> QED BY <3>2, <3>3
    <2>2. CASE ~\E m \in pass.moved : m.to = n
      BY <1>1, <2>2 DEF StageAt
    <2> QED BY <2>1, <2>2
  <1> QED BY <1>1, <1>2 DEF MovedStage

LEMMA MovedKeeps ==
    ASSUME NEW T0, Keyed(T0), NEW g, MovedStage(T0, g)
    PROVE  \A n \in 0 .. LastPath :
              /\ Keyed(g[n]) /\ Spare(T0) \subseteq Spare(g[n])
              /\ \A b \in Id : Stands(g[n], b) <=> Stands(T0, b)
  <1> DEFINE S == {n \in 0 .. LastPath :
                     /\ Keyed(g[n]) /\ Spare(T0) \subseteq Spare(g[n])
                     /\ \A b \in Id : Stands(g[n], b) <=> Stands(T0, b)}
  <1>1. 0 \in S
    BY Bounds DEF MovedStage
  <1>2. ASSUME NEW n \in Paths, n - 1 \in S
        PROVE  n \in S
    <2>1. PICK T, U : T = g[n - 1] /\ U = g[n]
      OBVIOUS
    <2>2. /\ Keyed(T) /\ Spare(T0) \subseteq Spare(T) /\ n \in 0 .. LastPath
          /\ \A b \in Id : Stands(T, b) <=> Stands(T0, b)
      BY <1>2, <2>1 DEF Paths
    <2>3. CASE U = T
      BY <2>1, <2>2, <2>3
    <2>4. CASE \E m \in pass.moved : m.to = n /\ U = relocate_one(T, m)
      <3>1. PICK m : m.to = n /\ U = relocate_one(T, m)
        BY <2>4
      <3>2. /\ Keyed(U) /\ Spare(T) \subseteq Spare(U)
            /\ \A b \in Id : Stands(U, b) <=> Stands(T, b)
        BY <2>2, <3>1, MoveKeyed
      <3> QED BY <2>1, <2>2, <3>2
    <2> QED BY <2>1, <2>3, <2>4 DEF MovedStage
  <1> HIDE DEF S
  <1>3. \A n \in 0 .. LastPath : n \in S
    BY <1>1, <1>2, UpToEach
  <1> QED BY <1>3 DEF S

-----------------------------------------------------------------------------
(* The whole transaction.                                                  *)

NativeRow == [uuid : Id, key : Paths, stat : Nat, has_file : BOOLEAN]

Seen(seen) == DOMAIN seen \subseteq Paths /\ \A p \in DOMAIN seen : seen[p] \in Stat

(* What a scan holds, by how far it is. *)
PlanTyped ==
    /\ Seen(pass.seen)
    /\ pass.new \subseteq DOMAIN pass.seen /\ pass.changed \subseteq DOMAIN pass.seen
    /\ pass.new \cap pass.changed = {}
    /\ pass.moved \subseteq [uuid : Int, to : Paths] /\ pass.removed \subseteq Int

PassTyped ==
    /\ step = "walk" => pass.was \in [Paths -> File \cup {None}]
    /\ step = "read" => Seen(pass.seen) /\ pass.native \subseteq NativeRow
    /\ step = "sync" => PlanTyped

Typed == TypeOK /\ PassTyped

LEMMA TablesKeyed ==
    ASSUME TypeOK
    PROVE  Keyed(Tables) /\ Reads
  <1>1. Tables \in Db
    BY DEF TypeOK, Tables, Db
  <1>2. \A b \in Id : b \in live <=> Stands(Tables, b)
    BY DEF live, Tables, Stands
  <1>3. \A f \in files : f.book \in live
    BY DEF TypeOK
  <1>4. \A m \in ledger : m.book \in live
    BY DEF TypeOK
  <1>5. live \subseteq Id
    BY DEF live
  <1>6. \A f \in Tables.files : Stands(Tables, f.book)
    BY <1>2, <1>3, <1>5 DEF Tables
  <1>7. \A m \in Tables.ledger : Stands(Tables, m.book)
    BY <1>2, <1>4, <1>5 DEF Tables
  <1>8. \A m, n \in Tables.ledger : m.uuid = n.uuid => m = n
    BY DEF TypeOK, Tables
  <1>9. \A b, c \in Id : Stands(Tables, b) /\ Stands(Tables, c)
                         /\ Tables.books[b].key = Tables.books[c].key => b = c
    <2>1. \A b, c \in live : books[b].key = books[c].key => b = c
      BY DEF TypeOK
    <2>2. Tables.books = books
      BY DEF Tables
    <2> QED BY <1>2, <2>1, <2>2
  <1>10. Reads
    BY DEF TypeOK, Reads
  <1> QED BY <1>1, <1>6, <1>7, <1>8, <1>9, <1>10 DEF Keyed

(* The tables an action leaves are typed, and keep their keys. *)
TablesTyped ==
    /\ books \in [Id -> Book \cup {None}]
    /\ files \subseteq Row /\ ledger \subseteq Attachment
    /\ {f.book : f \in files} \cup {m.book : m \in ledger} \subseteq live
    /\ \A m, n \in ledger : m.uuid = n.uuid => m = n
    /\ \A b, c \in live : books[b].key = books[c].key => b = c

LEMMA KeyedTyped ==
    ASSUME NEW T, Keyed(T), SetTables(T)
    PROVE  TablesTyped'
  <1>1. books' = T.books /\ files' = T.files /\ ledger' = T.ledger /\ T \in Db
    BY DEF SetTables, Keyed
  <1>2. \A b : b \in live' <=> b \in Id /\ Stands(T, b)
    BY <1>1 DEF live, Stands
  <1>3. \A f \in T.files : f.book \in live'
    BY <1>1, <1>2 DEF Keyed, Db, Row
  <1>4. \A m \in T.ledger : m.book \in live'
    BY <1>1, <1>2 DEF Keyed, Db, Attachment
  <1>5. \A b, c \in live' : books'[b].key = books'[c].key => b = c
    BY <1>1, <1>2 DEF Keyed
  <1>6. /\ books' \in [Id -> Book \cup {None}]
        /\ files' \subseteq Row /\ ledger' \subseteq Attachment
    BY <1>1 DEF Db
  <1>7. \A m, n \in ledger' : m.uuid = n.uuid => m = n
    BY <1>1 DEF Keyed
  <1>8. {f.book : f \in files'} \cup {m.book : m \in ledger'} \subseteq live'
    BY <1>1, <1>3, <1>4
  <1> QED BY <1>5, <1>6, <1>7, <1>8 DEF TablesTyped

(* The tables as they are after each stage. *)
AfterRemoved == remove_attached_files(sync_removed(Tables, pass.removed), pass.removed)
AfterMoved == sync_moved(AfterRemoved, pass.moved)
AfterChanged == sync_changed(AfterMoved, pass.changed)
AfterNew == sync_new(AfterChanged, pass.new, pass.removed)

LEMMA FirstStage ==
    ASSUME TypeOK
    PROVE  /\ Keyed(AfterRemoved) /\ SameBooks(Tables, AfterRemoved)
           /\ Spare(Tables) \subseteq Spare(AfterRemoved)
           /\ AfterRemoved.ledger = {m \in ledger : m.uuid \notin pass.removed}
           /\ AfterRemoved.files =
                {f \in files : /\ f.book \in pass.removed \cap live => Backed(Tables, f)
                               /\ ~\E m \in ledger :
                                     m.uuid \in pass.removed /\ m.book = f.book /\ m.key = f.key}
  <1>1. Keyed(Tables) /\ Tables \in Db
    BY TablesKeyed DEF Keyed
  <1>2. PICK V : V = sync_removed(Tables, pass.removed)
    OBVIOUS
  <1>3. /\ V \in Db /\ SameBooks(Tables, V) /\ V.ledger = Tables.ledger
        /\ V.files = {f \in Tables.files : f.book \in pass.removed \cap BooksOf(Tables)
                                             => Backed(Tables, f)}
    BY <1>1, <1>2, RemovedDoes
  <1>4. PICK U : U = AfterRemoved
    OBVIOUS
  <1>5. U = remove_attached_files(V, pass.removed)
    BY <1>2, <1>4 DEF AfterRemoved
  <1>6. /\ U \in Db /\ U.books = V.books
        /\ U.files = {f \in V.files : ~\E m \in V.ledger :
                          m.uuid \in pass.removed /\ m.book = f.book /\ m.key = f.key}
        /\ U.ledger = {m \in V.ledger : m.uuid \notin pass.removed}
    BY <1>3, <1>5, DetachedDoes
  <1>7. Tables.ledger = ledger /\ Tables.files = files /\ BooksOf(Tables) = live
    BY DEF Tables, BooksOf, live
  <1>8. SameBooks(Tables, U)
    BY <1>3, <1>6 DEF SameBooks, Stands
  <1>9. Keyed(U) /\ Spare(Tables) \subseteq Spare(U)
    <2>1. U.files \subseteq Tables.files /\ U.ledger \subseteq Tables.ledger
      BY <1>3, <1>6
    <2> QED BY <1>1, <1>6, <1>8, <2>1, FewerRows
  <1>10. U.ledger = {m \in ledger : m.uuid \notin pass.removed}
    BY <1>3, <1>6, <1>7
  <1>11. U.files = {f \in files : /\ f.book \in pass.removed \cap live => Backed(Tables, f)
                                  /\ ~\E m \in ledger :
                                        m.uuid \in pass.removed /\ m.book = f.book /\ m.key = f.key}
    BY <1>3, <1>6, <1>7
  <1> QED BY <1>4, <1>8, <1>9, <1>10, <1>11

(* How the three stages that follow go, from one table to the next. *)
Course(g, h, k) ==
    /\ MovedStage(AfterRemoved, g) /\ g[LastPath] = AfterMoved
    /\ Bucket(AfterMoved, h, pass.changed) /\ h[LastPath] = AfterChanged
    /\ Bucket(AfterChanged, k, pass.new) /\ k[LastPath] = AfterNew
    /\ \A n \in 0 .. LastPath :
          /\ Keyed(g[n])
          /\ \A b \in Id : Stands(g[n], b) <=> Stands(AfterRemoved, b)
          /\ Keyed(h[n]) /\ Grown(AfterMoved, h[n], n) /\ Spare(h[n]) \in SUBSET Id
          /\ Cardinality(Later(pass.changed, pass.new, n)) <= Cardinality(Spare(h[n]))
          /\ Keyed(k[n]) /\ Grown(AfterChanged, k[n], n)
          /\ Cardinality(Later(pass.new, {}, n)) <= Cardinality(Spare(k[n]))

LEMMA FewerIn ==
    ASSUME NEW A \in SUBSET Id, NEW B \in SUBSET A
    PROVE  Cardinality(B) <= Cardinality(A)
  <1>1. 1 \in Int /\ MaxBooks \in Int
    BY Bounds
  <1>2. IsFiniteSet(Id)
    BY <1>1, FS_Interval DEF Id
  <1> QED BY <1>2, FS_Subset

LEMMA EveryCourse ==
    ASSUME TypeOK, PlanTyped, Cardinality(pass.changed \cup pass.new) <= Cardinality(Spare(Tables))
    PROVE  \E g, h, k : Course(g, h, k)
  <1>1. PICK A, M, C, N : A = AfterRemoved /\ M = AfterMoved /\ C = AfterChanged /\ N = AfterNew
    OBVIOUS
  <1>2. /\ pass.changed \in SUBSET Paths /\ pass.new \in SUBSET Paths
        /\ \A p \in pass.changed \cup pass.new : pass.seen[p] \in Stat
    BY DEF PlanTyped, Seen
  <1>3. LastPath \in 0 .. LastPath /\ 0 \in 0 .. LastPath /\ Reads
    BY Bounds, TablesKeyed
  <1>4. Keyed(A) /\ Spare(Tables) \subseteq Spare(A)
    BY <1>1, FirstStage
  <1>5. PICK g : MovedStage(A, g) /\ g[LastPath] = M
    BY <1>1, MovedStages DEF AfterMoved
  <1>6. \A n \in 0 .. LastPath :
           /\ Keyed(g[n]) /\ Spare(A) \subseteq Spare(g[n])
           /\ \A b \in Id : Stands(g[n], b) <=> Stands(A, b)
    BY <1>4, <1>5, MovedKeeps
  <1>7. Keyed(M) /\ Cardinality(pass.changed \cup pass.new) <= Cardinality(Spare(M))
    <2>1. Spare(Tables) \subseteq Spare(M) /\ Spare(M) \in SUBSET Id
      BY <1>3, <1>4, <1>5, <1>6 DEF Spare
    <2>2. Cardinality(Spare(Tables)) <= Cardinality(Spare(M))
      BY <2>1, FewerIn
    <2>3. /\ Cardinality(Spare(Tables)) \in Int /\ Cardinality(Spare(M)) \in Int
          /\ Cardinality(pass.changed \cup pass.new) \in Int
      <3>1. 1 \in Int /\ MaxBooks \in Int /\ LastPath \in Int
        BY Bounds
      <3>2. IsFiniteSet(Id) /\ IsFiniteSet(Paths)
        BY <3>1, FS_Interval DEF Id, Paths
      <3>3. /\ IsFiniteSet(Spare(Tables)) /\ IsFiniteSet(Spare(M))
            /\ IsFiniteSet(pass.changed \cup pass.new)
        <4>1. Spare(Tables) \subseteq Id /\ Spare(M) \subseteq Id
          BY <2>1
        <4>2. pass.changed \cup pass.new \subseteq Paths
          BY <1>2
        <4> QED BY <3>2, <4>1, <4>2, FS_Subset
      <3> QED BY <3>3, FS_CardinalityType
    <2> QED BY <1>3, <1>5, <1>6, <2>2, <2>3
  <1>8. PICK h : Bucket(M, h, pass.changed) /\ h[LastPath] = C
    BY <1>1, ChangedBucket DEF AfterChanged
  <1>9. \A n \in 0 .. LastPath : Kept(M, h[n], pass.changed, pass.new, n)
    <2>1. pass.changed \cap pass.new = {}
      BY DEF PlanTyped
    <2> QED BY <1>2, <1>3, <1>7, <1>8, <2>1, BucketKeeps
  <1>10. Keyed(C) /\ Cardinality(pass.new \cup {}) <= Cardinality(Spare(C))
    <2>1. Kept(M, C, pass.changed, pass.new, LastPath)
      BY <1>3, <1>8, <1>9
    <2>2. \A p \in pass.changed : ~(p > LastPath)
      <3>1. \A p \in pass.changed : p \in 1 .. LastPath
        BY <1>2 DEF Paths
      <3> QED BY <3>1, Bounds
    <2>3. Later(pass.changed, pass.new, LastPath) = pass.new \cup {}
      BY <2>2 DEF Later
    <2> QED BY <2>1, <2>3 DEF Kept
  <1>11. PICK k : Bucket(C, k, pass.new) /\ k[LastPath] = N
    BY <1>1, NewBucket DEF AfterNew
  <1>12. \A n \in 0 .. LastPath : Kept(C, k[n], pass.new, {}, n)
    <2>1. {} \in SUBSET Paths /\ pass.new \cap {} = {}
      OBVIOUS
    <2> QED BY <1>2, <1>3, <1>10, <1>11, <2>1, BucketKeeps
  <1>13. \A n \in 0 .. LastPath : Spare(h[n]) \in SUBSET Id
    BY DEF Spare
  <1> QED BY <1>1, <1>5, <1>6, <1>8, <1>9, <1>11, <1>12, <1>13 DEF Course, Kept

(* The transaction of a scan leaves tables of the right type, with their   *)
(* keys.                                                                   *)
LEMMA TransactionKeyed ==
    ASSUME TypeOK, PlanTyped, Cardinality(pass.changed \cup pass.new) <= Cardinality(Spare(Tables))
    PROVE  Keyed(sync_books(Tables, pass))
  <1>1. PICK g, h, k : Course(g, h, k)
    BY EveryCourse
  <1>2. sync_books(Tables, pass) = AfterNew
    BY DEF sync_books, AfterRemoved, AfterMoved, AfterChanged, AfterNew
  <1>3. LastPath \in 0 .. LastPath
    BY Bounds
  <1> QED BY <1>1, <1>2, <1>3 DEF Course

-----------------------------------------------------------------------------
(* Types, through every action.                                            *)

RestTyped ==
    /\ disk \in [Paths -> File \cup {None}]
    /\ step \in {"idle", "walk", "read", "sync", "gc", "purge"}
    /\ doomed \subseteq Paths
    /\ owner \in [Paths -> Id \cup {None}]
    /\ troubled \subseteq Troubles
    /\ ops \in 0 .. MaxOps /\ faults \in 0 .. MaxFaults /\ calm \in -1 .. 2

LEMMA TypeParts == TypeOK <=> TablesTyped /\ RestTyped
  BY DEF TypeOK, TablesTyped, RestTyped

LEMMA SameTables ==
    ASSUME TypeOK, UNCHANGED tables
    PROVE  TablesTyped'
  BY DEF TypeOK, TablesTyped, tables, live

(* Books whose paths stay as they are. *)
LEMMA SamePaths ==
    ASSUME TypeOK, UNCHANGED <<files, ledger>>, books' \in [Id -> Book \cup {None}],
           \A b \in Id : /\ books'[b] # None <=> books[b] # None
                         /\ books[b] # None => books'[b].key = books[b].key
    PROVE  TablesTyped'
  <1>1. live' = live
    BY DEF live
  <1>2. \A b, c \in live : books'[b].key = books'[c].key => b = c
    BY DEF TypeOK, live
  <1> QED BY <1>1, <1>2 DEF TypeOK, TablesTyped

(* Books dropped with everything of theirs. *)
LEMMA DroppedKeyed ==
    ASSUME NEW T, Keyed(T), NEW gone
    PROVE  Keyed(Dropped(T, gone))
  <1>1. PICK U : U = Dropped(T, gone)
    OBVIOUS
  <1>2. /\ U.books = [b \in Id |-> IF b \in gone THEN None ELSE T.books[b]]
        /\ U.files = {f \in T.files : f.book \notin gone}
        /\ U.ledger = {m \in T.ledger : m.book \notin gone}
        /\ U = [books |-> U.books, files |-> U.files, ledger |-> U.ledger]
    BY <1>1 DEF Dropped
  <1>3. T \in Db
    BY DEF Keyed
  <1>4. U \in Db
    <2>1. U.books \in [Id -> Book \cup {None}]
      BY <1>2, <1>3 DEF Db
    <2> QED BY <1>2, <1>3, <2>1 DEF Db
  <1>5. \A b \in Id : Stands(U, b) <=> Stands(T, b) /\ b \notin gone
    BY <1>2 DEF Stands
  <1>6. \A b \in Id : Stands(U, b) => U.books[b] = T.books[b]
    BY <1>2, <1>5
  <1>7. \A f \in U.files : Stands(U, f.book)
    BY <1>2, <1>3, <1>5 DEF Keyed, Db, Row
  <1>8. \A m \in U.ledger : Stands(U, m.book)
    BY <1>2, <1>3, <1>5 DEF Keyed, Db, Attachment
  <1>9. \A m, n \in U.ledger : m.uuid = n.uuid => m = n
    BY <1>2 DEF Keyed
  <1>10. \A b, c \in Id : Stands(U, b) /\ Stands(U, c) /\ U.books[b].key = U.books[c].key => b = c
    BY <1>5, <1>6 DEF Keyed
  <1> QED BY <1>1, <1>4, <1>7, <1>8, <1>9, <1>10 DEF Keyed

LEMMA OpTyped == RestTyped /\ Op => ops' \in 0 .. MaxOps
  BY Bounds DEF RestTyped, Op

LEMMA SamePass == PassTyped /\ UNCHANGED <<step, pass>> => PassTyped'
  BY DEF PassTyped, PlanTyped

LEMMA InitTyped == Init => Typed
  <1>1. SUFFICES ASSUME Init PROVE Typed
    OBVIOUS
  <1>2. disk \in [Paths -> File \cup {None}]
    <2>1. PICK l \in Library0 :
            disk = [p \in Paths |-> IF l[p] = None THEN None ELSE [work |-> l[p], stat |-> p]]
      BY <1>1 DEF Init
    <2>2. l \in [Paths -> Works \cup {None}]
      BY LibraryConstants, Zenon
    <2>3. Paths \subseteq Stat
      BY Bounds DEF Paths, Stat
    <2>4. \A p \in Paths : l[p] # None => [work |-> l[p], stat |-> p] \in File
      BY <2>2, <2>3 DEF File
    <2> QED BY <2>1, <2>4
  <1>3. TablesTyped
    <2>1. books = [b \in Id |-> None] /\ files = {} /\ ledger = {}
      BY <1>1 DEF Init
    <2>2. live = {}
      BY <2>1 DEF live
    <2> QED BY <2>1, <2>2 DEF TablesTyped
  <1>4. RestTyped
    BY <1>1, <1>2, Bounds DEF Init, RestTyped
  <1>5. PassTyped
    BY <1>1 DEF Init, PassTyped
  <1> QED BY <1>3, <1>4, <1>5, TypeParts DEF Typed

(* The disk and its histories. *)
LEMMA FreshIs ==
    ASSUME FreshStats # {}
    PROVE  Min(FreshStats) \in Stat
  <1>1. FreshStats \in SUBSET Nat /\ FreshStats \subseteq Stat
    BY DEF FreshStats, Stat
  <1> QED BY <1>1, MinIsOne

LEMMA DiskTyped ==
    ASSUME Typed, NEW p \in Paths, NEW q \in Paths, NEW w \in Works,
           AddFile(p, w) \/ EditFile(p, w) \/ MoveFile(p, q) \/ CopyFile(p, q) \/ RemoveFile(p)
    PROVE  Typed'
  <1>1. /\ TypeOK /\ PassTyped /\ RestTyped /\ Op
        /\ UNCHANGED <<tables, step, pass, doomed, troubled, faults>> /\ calm' \in -1 .. 2
    BY TypeParts DEF Typed, AddFile, EditFile, MoveFile, CopyFile, RemoveFile, Touched, Disturbed
  <1>2. disk' \in [Paths -> File \cup {None}]
    <2>1. \A x \in Paths : x \in OnDisk => disk[x] \in File
      BY <1>1 DEF RestTyped, OnDisk
    <2>2. CASE AddFile(p, w) \/ EditFile(p, w)
      <3>1. PICK e : e = [work |-> w, stat |-> Min(FreshStats)]
        OBVIOUS
      <3>2. e \in File /\ disk' = [disk EXCEPT ![p] = e]
        BY <2>2, <3>1, FreshIs DEF AddFile, EditFile, File
      <3> QED BY <1>1, <3>2 DEF RestTyped
    <2>3. CASE MoveFile(p, q) \/ CopyFile(p, q) \/ RemoveFile(p)
      BY <1>1, <2>1, <2>3 DEF MoveFile, CopyFile, RemoveFile, RestTyped
    <2> QED BY <2>2, <2>3
  <1>3. owner' \in [Paths -> Id \cup {None}]
    <2>1. owner \in [Paths -> Id \cup {None}]
      BY <1>1 DEF RestTyped
    <2>2. CASE AddFile(p, w) \/ CopyFile(p, q)
      BY <2>1, <2>2 DEF AddFile, CopyFile, Lands
    <2>3. CASE EditFile(p, w)
      BY <2>1, <2>3 DEF EditFile
    <2>4. CASE MoveFile(p, q)
      BY <2>1, <2>4 DEF MoveFile
    <2>5. CASE RemoveFile(p)
      BY <2>1, <2>5 DEF RemoveFile
    <2> QED BY <2>2, <2>3, <2>4, <2>5
  <1>4. TablesTyped'
    BY <1>1, SameTables
  <1>5. RestTyped'
    BY <1>1, <1>2, <1>3, OpTyped DEF RestTyped
  <1>6. PassTyped'
    BY <1>1, SamePass
  <1>7. TypeOK'
    BY <1>4, <1>5 DEF TypeOK, TablesTyped, RestTyped
  <1> QED BY <1>6, <1>7 DEF Typed

LEMMA UnlinkTyped ==
    ASSUME Typed, NEW p \in Paths, Unlink(p)
    PROVE  Typed'
  <1>1. TypeOK /\ PassTyped /\ RestTyped /\ UNCHANGED <<tables, step, pass, troubled, ops, faults>>
    BY TypeParts DEF Typed, Unlink
  <1>2. /\ disk' \in [Paths -> File \cup {None}] /\ owner' \in [Paths -> Id \cup {None}]
        /\ doomed' \subseteq Paths /\ calm' \in -1 .. 2
    <2>1. CASE UNCHANGED <<disk, owner, calm>>
      BY <1>1, <2>1 DEF Unlink, RestTyped
    <2>2. CASE /\ disk' = [disk EXCEPT ![p] = None]
               /\ owner' = [q \in Paths |-> IF p \in OnDisk /\ q \in Alike(p) THEN None ELSE owner[q]]
               /\ Disturbed
      <3>1. calm' \in -1 .. 2
        BY <2>2 DEF Disturbed
      <3> QED BY <1>1, <2>2, <3>1 DEF Unlink, RestTyped
    <2> QED BY <2>1, <2>2 DEF Unlink
  <1>3. TablesTyped' /\ PassTyped'
    BY <1>1, SameTables, SamePass
  <1>4. RestTyped'
    BY <1>1, <1>2 DEF RestTyped
  <1> QED BY <1>3, <1>4 DEF Typed, TypeOK, TablesTyped, RestTyped

(* Steps that leave the tables and the disk, and hold a new thing or none. *)
LEMMA StepTyped ==
    ASSUME Typed, UNCHANGED <<disk, tables, doomed, owner, troubled>>,
           step' \in {"idle", "walk", "read", "sync", "gc", "purge"},
           ops' \in 0 .. MaxOps, faults' \in 0 .. MaxFaults, calm' \in -1 .. 2, PassTyped'
    PROVE  Typed'
  <1>1. TypeOK /\ RestTyped
    BY TypeParts DEF Typed
  <1>2. TablesTyped'
    BY <1>1, SameTables
  <1>3. RestTyped'
    BY <1>1 DEF RestTyped
  <1> QED BY <1>2, <1>3 DEF Typed, TypeOK, TablesTyped, RestTyped

LEMMA NativeTyped ==
    ASSUME TypeOK
    PROVE  native_rows \subseteq NativeRow
  <1>1. files \subseteq Row /\ books \in [Id -> Book \cup {None}] /\ live \subseteq Id
    BY DEF TypeOK, live
  <1>2. \A f \in files :
          [uuid |-> f.book, key |-> f.key, stat |-> f.stat, has_file |-> TRUE] \in NativeRow
    <2>1. \A f \in files : f.book \in Id /\ f.key \in Paths /\ f.stat \in Nat
      BY <1>1 DEF Row, Stat
    <2> QED BY <2>1 DEF NativeRow
  <1>3. \A b \in live :
          [uuid |-> b, key |-> books[b].key, stat |-> 0, has_file |-> FALSE] \in NativeRow
    <2>1. \A b \in live : b \in Id /\ books[b].key \in Paths
      BY <1>1 DEF live, Book
    <2> QED BY <2>1 DEF NativeRow
  <1> QED BY <1>2, <1>3 DEF native_rows

MergedRow == [uuid : Int, key : Paths, stat : Nat, has_file : BOOLEAN]

LEMMA MergedTyped ==
    ASSUME TypeOK
    PROVE  merged_rows \subseteq MergedRow
  <1>1. \A f \in files : f.stat \in Nat
    BY DEF TypeOK, Row, Stat
  <1>2. \A m \in ledger : m.uuid \in Int /\ m.key \in Paths
    BY DEF TypeOK, Attachment
  <1>3. ASSUME NEW r \in merged_rows
        PROVE  r \in MergedRow
    <2>1. PICK mf \in ledger \X files :
            r = [uuid |-> mf[1].uuid, key |-> mf[1].key, stat |-> mf[2].stat, has_file |-> TRUE]
      BY DEF merged_rows
    <2>2. mf[1] \in ledger /\ mf[2] \in files
      BY <2>1
    <2> QED BY <1>1, <1>2, <2>1, <2>2 DEF MergedRow
  <1> QED BY <1>3

LEMMA WalkedTyped ==
    ASSUME Typed, NEW late \in SUBSET Paths, NEW lost, NEW incomplete,
           step = "walk", Walked(late, lost, incomplete)
    PROVE  step' = "read" /\ PassTyped'
  <1>1. TypeOK /\ pass.was \in [Paths -> File \cup {None}]
    BY DEF Typed, PassTyped
  <1>2. \A p \in Paths : disk[p] \in File \cup {None} /\ pass.was[p] \in File \cup {None}
    BY <1>1 DEF TypeOK
  <1>3. PICK file : file = [p \in Paths |-> IF p \in late THEN disk[p] ELSE pass.was[p]]
    OBVIOUS
  <1>4. PICK seen : seen = [p \in {q \in Paths \ lost : file[q] # None} |-> file[p].stat]
    OBVIOUS
  <1>5. Seen(seen)
    <2>1. \A p \in Paths : file[p] \in File \cup {None}
      BY <1>2, <1>3
    <2>2. \A p \in DOMAIN seen : p \in Paths /\ file[p] \in File /\ seen[p] = file[p].stat
      BY <1>4, <2>1
    <2>3. \A e \in File : e.stat \in Stat
      BY DEF File
    <2> QED BY <2>2, <2>3 DEF Seen
  <1>6. step' = "read" /\ pass'.seen = seen /\ pass'.native = native_rows
    <2>1. seen = [p \in {q \in Paths \ lost : (IF q \in late THEN disk[q] ELSE pass.was[q]) # None}
                    |-> (IF p \in late THEN disk[p] ELSE pass.was[p]).stat]
      BY <1>3, <1>4
    <2>2. /\ step' = "read"
          /\ pass' = [seen |-> seen, incomplete |-> incomplete, native |-> native_rows]
      BY <2>1 DEF Walked
    <2> QED BY <2>2
  <1> QED BY <1>1, <1>5, <1>6, NativeTyped DEF PassTyped, Seen

(* The plan of a scan, whatever the walk saw. *)
LEMMA PlanIsTyped ==
    ASSUME NEW seen, Seen(seen), NEW native \in SUBSET MergedRow, NEW merged \in SUBSET MergedRow,
           NEW trustworthy, NEW plan, plan = diff_library(seen, native, merged, trustworthy)
    PROVE  /\ plan.seen = seen
           /\ plan.new \subseteq DOMAIN seen /\ plan.changed \subseteq DOMAIN seen
           /\ plan.new \cap plan.changed = {}
           /\ plan.moved \subseteq [uuid : Int, to : Paths] /\ plan.removed \subseteq Int
  <1>1. PICK db, known, arrivals, departures, pairs :
          /\ db = native \cup merged /\ known = {r.key : r \in db} /\ arrivals = DOMAIN seen \ known
          /\ departures = IF trustworthy
                          THEN {r \in FileBacked(db) : r.key \notin DOMAIN seen} ELSE {}
          /\ pairs = match_moved_files(departures, arrivals, seen)
    OBVIOUS
  <1>2. /\ plan.seen = seen
        /\ plan.changed \subseteq DOMAIN seen \cap known
        /\ plan.new = arrivals \ {da[2] : da \in pairs}
        /\ plan.moved = {[uuid |-> da[1].uuid, to |-> da[2]] : da \in pairs}
        /\ plan.removed = {r.uuid : r \in departures \ {da[1] : da \in pairs}}
    BY <1>1 DEF diff_library
  <1>3. \A d \in departures : d.uuid \in Int
    BY <1>1 DEF FileBacked, MergedRow
  <1>4. \A da \in pairs : da[1] \in departures /\ da[2] \in arrivals
    BY <1>1 DEF match_moved_files
  <1>5. arrivals \subseteq Paths
    BY <1>1 DEF Seen
  <1>6. plan.moved \subseteq [uuid : Int, to : Paths]
    BY <1>2, <1>3, <1>4, <1>5
  <1>7. plan.removed \subseteq Int
    BY <1>2, <1>3
  <1>8. plan.new \subseteq DOMAIN seen /\ plan.new \cap known = {}
    BY <1>1, <1>2
  <1> QED BY <1>2, <1>6, <1>7, <1>8

LEMMA DiffIs ==
    ASSUME Diff
    PROVE  \E trustworthy, plan :
              /\ trustworthy \in BOOLEAN
              /\ plan = diff_library(pass.seen, pass.native, merged_rows, trustworthy)
              /\ \/ /\ step' = "sync" /\ pass' = plan
                    /\ calm' = (IF trustworthy THEN calm ELSE -1)
                 \/ step' = "idle" /\ pass' = None /\ calm' = 0
  <1>1. PICK other_files \in BOOLEAN :
          LET db == pass.native \cup merged_rows
              trustworthy == enumeration_is_trustworthy(
                  pass.incomplete, pass.seen # <<>> \/ other_files, FileBacked(db) # {})
              plan == diff_library(pass.seen, pass.native, merged_rows, trustworthy)
          IN  IF check_mass_missing(plan.removed, db)
              THEN /\ step' = "sync" /\ pass' = plan
                   /\ calm' = (IF trustworthy THEN calm ELSE -1)
              ELSE /\ step' = "idle" /\ pass' = None /\ calm' = 0
    BY DEF Diff
  <1>2. PICK trustworthy \in BOOLEAN :
          trustworthy = enumeration_is_trustworthy(pass.incomplete,
                            pass.seen # <<>> \/ other_files, FileBacked(pass.native \cup merged_rows) # {})
    BY DEF enumeration_is_trustworthy
  <1>3. PICK plan : plan = diff_library(pass.seen, pass.native, merged_rows, trustworthy)
    OBVIOUS
  <1>4. \/ step' = "sync" /\ pass' = plan /\ calm' = (IF trustworthy THEN calm ELSE -1)
        \/ step' = "idle" /\ pass' = None /\ calm' = 0
    BY <1>1, <1>2, <1>3
  <1> QED BY <1>3, <1>4

LEMMA DiffTyped == Typed /\ Diff => Typed'
  <1>1. SUFFICES ASSUME Typed, Diff PROVE Typed'
    OBVIOUS
  <1>2. TypeOK /\ Seen(pass.seen) /\ pass.native \subseteq NativeRow /\ step = "read"
    BY <1>1 DEF Typed, PassTyped, Diff
  <1>3. PICK trustworthy, plan :
          /\ trustworthy \in BOOLEAN
          /\ plan = diff_library(pass.seen, pass.native, merged_rows, trustworthy)
          /\ \/ step' = "sync" /\ pass' = plan /\ calm' \in {calm, -1}
             \/ step' = "idle" /\ pass' = None /\ calm' = 0
    BY <1>1, DiffIs
  <1>4. \/ step' = "sync" /\ pass' = plan /\ calm' \in {calm, -1}
        \/ step' = "idle" /\ pass' = None /\ calm' = 0
    BY <1>3
  <1>5. PassTyped'
    <2>1. NativeRow \subseteq MergedRow
      BY DEF NativeRow, MergedRow, Id
    <2>2. pass.native \in SUBSET MergedRow /\ merged_rows \in SUBSET MergedRow
      BY <1>2, <2>1, MergedTyped
    <2>3. /\ plan.seen = pass.seen
          /\ plan.new \subseteq DOMAIN pass.seen /\ plan.changed \subseteq DOMAIN pass.seen
          /\ plan.new \cap plan.changed = {}
          /\ plan.moved \subseteq [uuid : Int, to : Paths] /\ plan.removed \subseteq Int
      <3>1. PICK seen, native, merged :
              seen = pass.seen /\ native = pass.native /\ merged = merged_rows
        OBVIOUS
      <3>2. plan = diff_library(seen, native, merged, trustworthy)
        BY <1>3, <3>1
      <3>3. Seen(seen) /\ native \in SUBSET MergedRow /\ merged \in SUBSET MergedRow
        BY <1>2, <2>2, <3>1
      <3> HIDE <3>1
      <3>4. /\ plan.seen = seen
            /\ plan.new \subseteq DOMAIN seen /\ plan.changed \subseteq DOMAIN seen
            /\ plan.new \cap plan.changed = {}
            /\ plan.moved \subseteq [uuid : Int, to : Paths] /\ plan.removed \subseteq Int
        BY <3>2, <3>3, PlanIsTyped
      <3> QED BY <3>1, <3>4
    <2>4. CASE step' = "sync" /\ pass' = plan
      BY <1>2, <2>3, <2>4 DEF PassTyped, PlanTyped, Seen
    <2>5. CASE step' = "idle"
      BY <2>5 DEF PassTyped
    <2> QED BY <1>4, <2>4, <2>5
  <1>6. UNCHANGED <<disk, tables, doomed, owner, troubled, ops, faults>> /\ RestTyped
    BY <1>1, <1>2, TypeParts DEF Diff
  <1>7. /\ step' \in {"idle", "walk", "read", "sync", "gc", "purge"}
        /\ ops' \in 0 .. MaxOps /\ faults' \in 0 .. MaxFaults /\ calm' \in -1 .. 2
    BY <1>4, <1>6 DEF RestTyped
  <1> QED BY <1>1, <1>5, <1>6, <1>7, StepTyped

LEMMA WalksTyped ==
    ASSUME Typed, StartScan \/ Walk \/ WalkMisses \/ GcSelect \/ ScanFails
    PROVE  Typed'
  <1>1. RestTyped /\ TypeOK
    BY TypeParts DEF Typed
  <1>2. UNCHANGED <<disk, tables, doomed, owner, troubled, ops>>
    BY DEF StartScan, Walk, WalkMisses, GcSelect, ScanFails
  <1>3. /\ step' \in {"idle", "walk", "read", "sync", "gc", "purge"}
        /\ ops' \in 0 .. MaxOps /\ faults' \in 0 .. MaxFaults /\ calm' \in -1 .. 2
    <2>1. faults' = faults \/ (faults < MaxFaults /\ faults' = faults + 1)
      BY DEF StartScan, Walk, WalkMisses, GcSelect, ScanFails
    <2>2. faults' \in 0 .. MaxFaults
      BY <1>1, <2>1, Bounds DEF RestTyped
    <2>3. step' \in {"idle", "walk", "read", "sync", "gc", "purge"}
      BY DEF StartScan, Walk, WalkMisses, GcSelect, ScanFails, Walked
    <2>4. calm' \in {calm, -1, 0}
      BY DEF StartScan, Walk, WalkMisses, GcSelect, ScanFails
    <2> QED BY <1>1, <1>2, <2>2, <2>3, <2>4 DEF RestTyped
  <1>4. PassTyped'
    <2>1. CASE StartScan
      BY <1>1, <2>1 DEF StartScan, PassTyped, RestTyped
    <2>2. CASE Walk
      <3>1. PICK late \in SUBSET {p \in Paths : disk[p] # pass.was[p]} : Walked(late, {}, FALSE)
        BY <2>2 DEF Walk
      <3>2. late \in SUBSET Paths /\ step = "walk"
        BY <2>2 DEF Walk
      <3> QED BY <3>1, <3>2, WalkedTyped
    <2>3. CASE WalkMisses
      <3>1. PICK lost, incomplete : Walked(Paths, lost, incomplete)
        BY <2>3 DEF WalkMisses
      <3>2. Paths \in SUBSET Paths /\ step = "walk"
        BY <2>3 DEF WalkMisses
      <3> QED BY <3>1, <3>2, WalkedTyped
    <2>4. CASE GcSelect \/ ScanFails
      BY <2>4 DEF GcSelect, ScanFails, PassTyped
    <2> QED BY <2>1, <2>2, <2>3, <2>4
  <1> QED BY <1>2, <1>3, <1>4, StepTyped

(* What a scan adds to the troubles there have been. *)
LEMMA SyncTroubles ==
    ASSUME Sync
    PROVE  /\ troubled \subseteq troubled' /\ troubled' \subseteq troubled \cup Troubles
           /\ troubled' = {} => /\ ~TwinsReturn /\ ~HandleReused
                               /\ ~KeyTakenOver /\ ~UnreadAttachment
  <1>1. troubled' = troubled \cup
           (IF TwinsReturn THEN {"twins return"} ELSE {}) \cup
           (IF HandleReused THEN {"path reused"} ELSE {}) \cup
           (IF KeyTakenOver THEN {"key taken over"} ELSE {}) \cup
           (IF UnreadAttachment THEN {"unread attachment"} ELSE {})
    BY DEF Sync
  <1> QED BY <1>1 DEF Troubles

LEMMA SyncTyped ==
    ASSUME Typed, Sync
    PROVE  Typed'
  <1>1. TypeOK /\ RestTyped /\ PlanTyped
    BY TypeParts DEF Typed, PassTyped, Sync
  <1>2. PICK T : T = sync_books(Tables, pass)
    OBVIOUS
  <1>3. Keyed(T)
    BY <1>1, <1>2, TransactionKeyed DEF Sync
  <1>4. TablesTyped'
    <2>1. SetTables(T)
      BY <1>2 DEF Sync
    <2> QED BY <1>3, <2>1, KeyedTyped
  <1>5. calm' \in -1 .. 2
    <2>1. PICK landed : calm' = IF calm < 0 \/ ~landed THEN 0 ELSE IF calm = 2 THEN 2 ELSE calm + 1
      BY DEF Sync
    <2>2. calm \in -1 .. 2
      BY <1>1 DEF RestTyped
    <2> QED BY <2>1, <2>2
  <1>6. owner' \in [Paths -> Id \cup {None}]
    <2>1. owner \in [Paths -> Id \cup {None}]
      BY <1>1 DEF RestTyped
    <2>2. \A p \in Paths : (\E f \in T.files : f.key = p)
             => (CHOOSE f \in T.files : f.key = p).book \in Id
      <3>1. T.files \subseteq Row
        BY <1>3 DEF Keyed, Db
      <3>2. ASSUME NEW p \in Paths, \E f \in T.files : f.key = p
            PROVE  (CHOOSE f \in T.files : f.key = p) \in Row
        BY <3>1, <3>2
      <3> QED BY <3>2 DEF Row
    <2>3. PICK landed : owner' = [p \in Paths |->
             IF /\ disk[p] # None /\ owner[p] # None
                /\ calm >= 0 \/ Backs(T, owner[p], p)
             THEN owner[p]
             ELSE IF /\ disk[p] # None /\ owner[p] = None
                     /\ calm >= 0 /\ landed /\ \E f \in T.files : f.key = p
                  THEN (CHOOSE f \in T.files : f.key = p).book ELSE None]
      BY <1>2 DEF Sync
    <2>4. ASSUME NEW p \in Paths PROVE owner'[p] \in Id \cup {None}
      BY <2>1, <2>2, <2>3
    <2> QED BY <2>3, <2>4
  <1>7. PassTyped' /\ step' = "gc" /\ UNCHANGED <<disk, doomed, ops, faults>>
    BY DEF Sync, PassTyped
  <1>8. troubled' \subseteq Troubles
    BY <1>1, SyncTroubles DEF RestTyped
  <1>9. RestTyped'
    BY <1>1, <1>5, <1>6, <1>7, <1>8 DEF RestTyped
  <1> QED BY <1>4, <1>7, <1>9 DEF Typed, TypeOK, TablesTyped, RestTyped

LEMMA PurgeTyped ==
    ASSUME Typed, GcDelete
    PROVE  Typed'
  <1>1. TypeOK /\ RestTyped /\ Keyed(Tables)
    BY TypeParts, TablesKeyed DEF Typed
  <1>2. TablesTyped'
    <2>1. PICK T : T = Dropped(Tables, pass)
      OBVIOUS
    <2>2. Keyed(T) /\ SetTables(T)
      BY <1>1, <2>1, DroppedKeyed DEF GcDelete
    <2> QED BY <2>2, KeyedTyped
  <1>3. RestTyped' /\ PassTyped'
    BY <1>1 DEF GcDelete, Disowned, RestTyped, PassTyped
  <1> QED BY <1>2, <1>3 DEF Typed, TypeOK, TablesTyped, RestTyped

LEMMA FlagsTyped ==
    ASSUME Typed, NEW b, Read(b) \/ RetentionPasses(b) \/ Restart
    PROVE  Typed'
  <1>1. TypeOK /\ RestTyped /\ PassTyped /\ Op
    BY TypeParts DEF Typed, Read, RetentionPasses, Restart
  <1>2. /\ books' \in [Id -> Book \cup {None}]
        /\ \A c \in Id : /\ books'[c] # None <=> books[c] # None
                         /\ books[c] # None => books'[c].key = books[c].key
    <2>1. books \in [Id -> Book \cup {None}]
      BY <1>1 DEF TypeOK
    <2>2. \A r \in Book : /\ [r EXCEPT !.read = TRUE] \in Book /\ [r EXCEPT !.read = TRUE].key = r.key
                          /\ [r EXCEPT !.missing = "old"] \in Book
                          /\ [r EXCEPT !.missing = "old"].key = r.key
                          /\ [r EXCEPT !.missing = "recent"] \in Book
                          /\ [r EXCEPT !.missing = "recent"].key = r.key
      BY DEF Book
    <2>3. \A c \in live : c \in Id /\ books[c] \in Book
      BY <2>1 DEF live
    <2>4. CASE Read(b) \/ RetentionPasses(b)
      <3>1. PICK r \in Book : r.key = books[b].key /\ books' = [books EXCEPT ![b] = r]
        <4>1. CASE Read(b)
          <5>1. books' = [books EXCEPT ![b] = [books[b] EXCEPT !.read = TRUE]] /\ b \in live
            BY <4>1 DEF Read
          <5> QED BY <2>2, <2>3, <5>1
        <4>2. CASE RetentionPasses(b)
          <5>1. books' = [books EXCEPT ![b] = [books[b] EXCEPT !.missing = "old"]] /\ b \in live
            BY <4>2 DEF RetentionPasses
          <5> QED BY <2>2, <2>3, <5>1
        <4> QED BY <2>4, <4>1, <4>2
      <3>2. books[b] # None
        BY <2>4 DEF Read, RetentionPasses, live
      <3> QED BY <2>1, <3>1, <3>2, Nulls
    <2>5. CASE Restart
      <3>1. \A c \in Id : books'[c] = books[c]
                          \/ (c \in live /\ books'[c] = [books[c] EXCEPT !.missing = "recent"])
        BY <2>5 DEF Restart
      <3>2. \A c \in Id : /\ books'[c] \in Book \cup {None}
                          /\ books'[c] # None <=> books[c] # None
                          /\ books[c] # None => books'[c].key = books[c].key
        <4>1. ASSUME NEW c \in Id
              PROVE  /\ books'[c] \in Book \cup {None}
                     /\ books'[c] # None <=> books[c] # None
                     /\ books[c] # None => books'[c].key = books[c].key
          <5>1. CASE books'[c] = books[c]
            BY <2>1, <5>1
          <5>2. CASE c \in live /\ books'[c] = [books[c] EXCEPT !.missing = "recent"]
            <6>1. books[c] \in Book
              BY <2>3, <5>2
            <6>2. PICK r : r = [books[c] EXCEPT !.missing = "recent"]
              OBVIOUS
            <6>3. r \in Book /\ r.key = books[c].key
              BY <2>2, <6>1, <6>2
            <6> QED BY <5>2, <6>1, <6>2, <6>3, Nulls
          <5> QED BY <3>1, <5>1, <5>2
        <4> QED BY <4>1
      <3> QED BY <2>5, <3>2 DEF Restart
    <2> QED BY <2>4, <2>5
  <1>3. TablesTyped'
    <2>1. UNCHANGED <<files, ledger>>
      BY DEF Read, RetentionPasses, Restart
    <2> QED BY <1>1, <1>2, <2>1, SamePaths
  <1>4. RestTyped'
    BY <1>1, OpTyped DEF RestTyped, Read, RetentionPasses, Restart
  <1>5. PassTyped'
    <2>1. CASE Restart
      BY <2>1 DEF Restart, PassTyped
    <2>2. CASE UNCHANGED <<step, pass>>
      BY <1>1, <2>2, SamePass
    <2> QED BY <2>1, <2>2 DEF Read, RetentionPasses
  <1> QED BY <1>3, <1>4, <1>5 DEF Typed, TypeOK, TablesTyped, RestTyped

(* The tables of two books merged: the rows of s become rows of t, and an  *)
(* entry may be added under the handle s.                                  *)
Merged(s, t) ==
    LET native == FormatsOf(Tables, s) \ {m.format : m \in {n \in ledger : n.book = s}}
        guard == {[uuid |-> s, book |-> t, format |-> x, key |-> books[s].key] : x \in native}
        moved == {IF f.book = s THEN [f EXCEPT !.book = t] ELSE f : f \in files}
        rewired == {IF m.book = s THEN [m EXCEPT !.book = t] ELSE m : m \in ledger}
    IN  {[books |-> books, files |-> moved,
          ledger |-> {m \in rewired : kept = {} \/ m.uuid # s} \cup kept] :
            kept \in (IF guard = {} THEN {{}} ELSE {{g} : g \in guard})}

Rehomed(m, s, t) == IF m.book = s THEN [m EXCEPT !.book = t] ELSE m

LEMMA MergedIs ==
    ASSUME NEW s, NEW t, NEW M \in Merged(s, t)
    PROVE  /\ M = [books |-> books, files |-> M.files, ledger |-> M.ledger]
           /\ M.files = {Rehomed(f, s, t) : f \in files}
           /\ \/ /\ M.ledger = {Rehomed(m, s, t) : m \in ledger}
                 /\ FormatsOf(Tables, s) \subseteq {m.format : m \in {n \in ledger : n.book = s}}
              \/ \E x \in FormatsOf(Tables, s) :
                    /\ ~\E m \in ledger : m.book = s /\ m.format = x
                    /\ M.ledger = {m \in {Rehomed(n, s, t) : n \in ledger} : m.uuid # s}
                                  \cup {Entry(s, t, x, books[s].key)}
  <1>1. PICK native, guard, moved, rewired :
          /\ native = FormatsOf(Tables, s) \ {m.format : m \in {n \in ledger : n.book = s}}
          /\ guard = {[uuid |-> s, book |-> t, format |-> x, key |-> books[s].key] : x \in native}
          /\ moved = {Rehomed(f, s, t) : f \in files}
          /\ rewired = {Rehomed(m, s, t) : m \in ledger}
    OBVIOUS
  <1>2. Merged(s, t) = {[books |-> books, files |-> moved,
                         ledger |-> {m \in rewired : kept = {} \/ m.uuid # s} \cup kept] :
                           kept \in (IF guard = {} THEN {{}} ELSE {{g} : g \in guard})}
    BY <1>1 DEF Merged, Rehomed
  <1>3. PICK kept \in (IF guard = {} THEN {{}} ELSE {{g} : g \in guard}) :
          M = [books |-> books, files |-> moved,
               ledger |-> {m \in rewired : kept = {} \/ m.uuid # s} \cup kept]
    BY <1>2
  <1>4. /\ M = [books |-> books, files |-> M.files, ledger |-> M.ledger]
        /\ M.files = moved
        /\ M.ledger = {m \in rewired : kept = {} \/ m.uuid # s} \cup kept
    BY <1>3
  <1>5. CASE guard = {}
    <2>1. kept = {}
      BY <1>5, <1>3
    <2>2. M.ledger = rewired
      BY <1>4, <2>1
    <2>3. native = {}
      BY <1>1, <1>5
    <2> QED BY <1>1, <1>4, <2>2, <2>3
  <1>6. CASE guard # {}
    <2>1. PICK g \in guard : kept = {g}
      BY <1>3, <1>6
    <2>2. PICK x \in native : g = Entry(s, t, x, books[s].key)
      BY <1>1, <2>1 DEF Entry
    <2>3. M.ledger = {m \in rewired : m.uuid # s} \cup {Entry(s, t, x, books[s].key)}
      BY <1>4, <2>1, <2>2
    <2>4. x \in FormatsOf(Tables, s) /\ ~\E m \in ledger : m.book = s /\ m.format = x
      BY <1>1, <2>2
    <2> QED BY <1>1, <1>4, <2>3, <2>4
  <1> QED BY <1>5, <1>6

OwnersMerged(s, t) ==
    [p \in Paths |->
        IF owner[p] # s THEN owner[p]
        ELSE IF books[s].key = p /\ \A f \in FilesOf(Tables, s) : f.key # p THEN None ELSE t]

(* What a merge reads and writes. *)
LEMMA MergeIs ==
    ASSUME NEW s, NEW t, merge_books(s, t)
    PROVE  /\ s \in live /\ t \in live /\ s # t /\ Op /\ Disturbed
           /\ \E M \in Merged(s, t) : SetTables(Dropped(M, {s}))
           /\ owner' = OwnersMerged(s, t)
           /\ UNCHANGED <<disk, step, pass, doomed, faults>>
           /\ troubled \subseteq troubled' /\ troubled' \subseteq troubled \cup Troubles
           /\ troubled' = {} => Shapes(s) \cap Shapes(t) = {} /\ ~GuardLost(s)
  <1>1. PICK native, guard, moved, rewired :
          /\ native = FormatsOf(Tables, s) \ {m.format : m \in {n \in ledger : n.book = s}}
          /\ guard = {[uuid |-> s, book |-> t, format |-> x, key |-> books[s].key] : x \in native}
          /\ moved = {IF f.book = s THEN [f EXCEPT !.book = t] ELSE f : f \in files}
          /\ rewired = {IF m.book = s THEN [m EXCEPT !.book = t] ELSE m : m \in ledger}
    OBVIOUS
  <1>2. PICK kept \in (IF guard = {} THEN {{}} ELSE {{g} : g \in guard}) :
          SetTables(Dropped([books |-> books, files |-> moved,
                  ledger |-> {m \in rewired : kept = {} \/ m.uuid # s} \cup kept], {s}))
    BY <1>1 DEF merge_books
  <1>3. PICK M : M = [books |-> books, files |-> moved,
                      ledger |-> {m \in rewired : kept = {} \/ m.uuid # s} \cup kept]
    OBVIOUS
  <1>4. M \in Merged(s, t)
    BY <1>1, <1>2, <1>3 DEF Merged
  <1>5. \E V \in Merged(s, t) : SetTables(Dropped(V, {s}))
    BY <1>2, <1>3, <1>4
  <1>6. owner' = OwnersMerged(s, t)
    BY DEF merge_books, OwnersMerged
  <1>7. troubled' = troubled \cup
           (IF Shapes(s) \cap Shapes(t) # {} THEN {"same format merged"} ELSE {}) \cup
           (IF GuardLost(s) THEN {"guard lost"} ELSE {})
    BY DEF merge_books
  <1>8. /\ troubled \subseteq troubled' /\ troubled' \subseteq troubled \cup Troubles
        /\ troubled' = {} => Shapes(s) \cap Shapes(t) = {} /\ ~GuardLost(s)
    BY <1>7 DEF Troubles
  <1> QED BY <1>5, <1>6, <1>8 DEF merge_books

LEMMA RehomedIs ==
    ASSUME NEW m \in Row \cup Attachment, NEW s, NEW t \in Id
    PROVE  /\ m \in Row => /\ Rehomed(m, s, t) \in Row
                           /\ Rehomed(m, s, t).stat = m.stat
           /\ m \in Attachment => /\ Rehomed(m, s, t) \in Attachment
                                  /\ Rehomed(m, s, t).uuid = m.uuid
                                  /\ Rehomed(m, s, t).format = m.format
           /\ Rehomed(m, s, t).key = m.key
           /\ Rehomed(m, s, t).book = IF m.book = s THEN t ELSE m.book
  <1>1. CASE m \in Row
    <2>1. PICK r : r = [m EXCEPT !.book = t]
      OBVIOUS
    <2>2. r \in Row /\ r.stat = m.stat /\ r.key = m.key /\ r.book = t
      BY <1>1, <2>1 DEF Row
    <2>3. m \notin Attachment
      <3>1. DOMAIN m = {"book", "key", "stat"}
        BY <1>1 DEF Row
      <3> QED BY <3>1 DEF Attachment
    <2> QED BY <1>1, <2>1, <2>2, <2>3 DEF Rehomed
  <1>2. CASE m \in Attachment
    <2>1. PICK r : r = [m EXCEPT !.book = t]
      OBVIOUS
    <2>2. r \in Attachment /\ r.uuid = m.uuid /\ r.format = m.format /\ r.key = m.key /\ r.book = t
      BY <1>2, <2>1 DEF Attachment
    <2>3. m \notin Row
      <3>1. DOMAIN m = {"uuid", "book", "format", "key"}
        BY <1>2 DEF Attachment
      <3> QED BY <3>1 DEF Row
    <2> QED BY <1>2, <2>1, <2>2, <2>3 DEF Rehomed
  <1> QED BY <1>1, <1>2

LEMMA MergedKeyed ==
    ASSUME TypeOK, NEW s \in live, NEW t \in live, NEW M \in Merged(s, t)
    PROVE  Keyed(M)
  <1>1. /\ books \in [Id -> Book \cup {None}] /\ files \subseteq Row /\ ledger \subseteq Attachment
        /\ s \in Id /\ t \in Id /\ books[s] \in Book
    BY DEF TypeOK, live
  <1>2. /\ Keyed(Tables) /\ Tables.books = books /\ Tables.files = files /\ Tables.ledger = ledger
    BY TablesKeyed DEF Tables
  <1>3. /\ M = [books |-> books, files |-> M.files, ledger |-> M.ledger]
        /\ M.files = {Rehomed(f, s, t) : f \in files}
    BY MergedIs
  <1>4. M.books = books
    BY <1>3
  <1>5. \A b \in Id : Stands(M, b) <=> Stands(Tables, b)
    BY <1>2, <1>4 DEF Stands
  <1>6. Stands(M, t) /\ Stands(M, s)
    BY <1>4 DEF Stands, live
  <1>7. ASSUME NEW f \in M.files PROVE f \in Row /\ Stands(M, f.book)
    <2>1. PICK e \in files : f = Rehomed(e, s, t)
      BY <1>3
    <2>2. e \in Row
      BY <1>1
    <2>3. f \in Row /\ f.book = IF e.book = s THEN t ELSE e.book
      BY <1>1, <2>1, <2>2, RehomedIs
    <2>4. e.book \in Id /\ Stands(Tables, e.book)
      BY <1>2, <2>2 DEF Keyed, Row
    <2> QED BY <1>5, <1>6, <2>3, <2>4
  <1>8. \A m \in {Rehomed(n, s, t) : n \in ledger} :
          /\ m \in Attachment /\ Stands(M, m.book)
          /\ \E n \in ledger : m = Rehomed(n, s, t) /\ m.uuid = n.uuid
    <2>1. SUFFICES ASSUME NEW n \in ledger
                   PROVE  /\ Rehomed(n, s, t) \in Attachment /\ Stands(M, Rehomed(n, s, t).book)
                          /\ Rehomed(n, s, t).uuid = n.uuid
      OBVIOUS
    <2>2. n \in Attachment
      BY <1>1
    <2>3. /\ Rehomed(n, s, t) \in Attachment /\ Rehomed(n, s, t).uuid = n.uuid
          /\ Rehomed(n, s, t).book = IF n.book = s THEN t ELSE n.book
      BY <1>1, <2>2, RehomedIs
    <2>4. n.book \in Id /\ Stands(Tables, n.book)
      BY <1>2, <2>2 DEF Keyed, Attachment
    <2> QED BY <1>5, <1>6, <2>3, <2>4
  <1>9. \A m, n \in {Rehomed(a, s, t) : a \in ledger} : m.uuid = n.uuid => m = n
    BY <1>2, <1>8 DEF Keyed
  <1>10. /\ M.ledger \subseteq Attachment /\ \A m \in M.ledger : Stands(M, m.book)
         /\ \A m, n \in M.ledger : m.uuid = n.uuid => m = n
    <2>1. CASE M.ledger = {Rehomed(m, s, t) : m \in ledger}
      BY <1>8, <1>9, <2>1
    <2>2. CASE \E x \in FormatsOf(Tables, s) :
                  M.ledger = {m \in {Rehomed(n, s, t) : n \in ledger} : m.uuid # s}
                             \cup {Entry(s, t, x, books[s].key)}
      <3>1. PICK x \in FormatsOf(Tables, s) :
                  M.ledger = {m \in {Rehomed(n, s, t) : n \in ledger} : m.uuid # s}
                             \cup {Entry(s, t, x, books[s].key)}
        BY <2>2
      <3>2. x \in Range(FormatOf)
        BY <1>1, <1>2, Nulls DEF FormatsOf, FilesOf, Row
      <3>3. s \in Int /\ books[s].key \in Paths
        BY <1>1 DEF Id, Book
      <3>4. PICK e : e = Entry(s, t, x, books[s].key)
        OBVIOUS
      <3>5. e \in Attachment /\ e.uuid = s /\ e.book = t
        BY <1>1, <3>2, <3>3, <3>4 DEF Entry, Attachment
      <3> QED BY <1>6, <1>8, <1>9, <3>1, <3>4, <3>5
    <2> QED BY <2>1, <2>2, MergedIs
  <1>11. M \in Db
    BY <1>1, <1>3, <1>4, <1>7, <1>10 DEF Db
  <1>12. \A b, c \in Id : Stands(M, b) /\ Stands(M, c) /\ M.books[b].key = M.books[c].key => b = c
    BY <1>2, <1>4, <1>5 DEF Keyed
  <1> QED BY <1>7, <1>10, <1>11, <1>12 DEF Keyed

LEMMA MergeTyped ==
    ASSUME Typed, NEW s \in Id, NEW t \in Id, merge_books(s, t)
    PROVE  Typed'
  <1>1. /\ TypeOK /\ RestTyped /\ PassTyped
    BY TypeParts DEF Typed
  <1>2. /\ s \in live /\ t \in live /\ Op /\ Disturbed
        /\ owner' = OwnersMerged(s, t)
        /\ UNCHANGED <<disk, step, pass, doomed, faults>>
        /\ troubled' \subseteq troubled \cup Troubles
    BY MergeIs
  <1>3. PICK M \in Merged(s, t) : SetTables(Dropped(M, {s}))
    BY MergeIs
  <1>4. TablesTyped'
    <2>1. PICK T : T = Dropped(M, {s})
      OBVIOUS
    <2>2. Keyed(M)
      BY <1>1, <1>2, MergedKeyed
    <2>3. Keyed(T) /\ SetTables(T)
      BY <1>3, <2>1, <2>2, DroppedKeyed
    <2> QED BY <2>3, KeyedTyped
  <1>5. RestTyped'
    <2>1. owner' \in [Paths -> Id \cup {None}]
      BY <1>1, <1>2 DEF RestTyped, OwnersMerged
    <2>2. calm' \in -1 .. 2
      BY <1>2 DEF Disturbed
    <2> QED BY <1>1, <1>2, <2>1, <2>2, OpTyped DEF RestTyped
  <1>6. PassTyped'
    BY <1>1, <1>2, SamePass
  <1> QED BY <1>4, <1>5, <1>6 DEF Typed, TypeOK, TablesTyped, RestTyped

(* What a deletion leaves, before the book goes with the last of its files. *)
Thinned(b, chosen) ==
    [books |-> books, files |-> files \ chosen,
     ledger |-> {m \in ledger : ~(m.book = b /\ m.key \in {f.key : f \in chosen})}]

LEMMA DeleteIs ==
    ASSUME NEW b, NEW chosen \in SUBSET FilesOf(Tables, b), delete_book_items(b, chosen)
    PROVE  /\ Op /\ b \in live /\ Disturbed
           /\ chosen # {} \/ chosen = FilesOf(Tables, b)
           /\ SetTables(Dropped(Thinned(b, chosen), IF chosen = FilesOf(Tables, b) THEN {b} ELSE {}))
           /\ doomed' = doomed \cup {f.key : f \in chosen}
           /\ owner' = [p \in Paths |->
                  IF owner[p] = b /\ (chosen = FilesOf(Tables, b) \/ chosen \cap IndexedAs(p) # {})
                  THEN None ELSE owner[p]]
           /\ UNCHANGED <<disk, step, pass, troubled, faults>>
  BY DEF delete_book_items, Thinned

LEMMA ThinnedKeyed ==
    ASSUME TypeOK, NEW b, NEW chosen
    PROVE  Keyed(Thinned(b, chosen))
  <1>1. PICK U : U = Thinned(b, chosen)
    OBVIOUS
  <1>2. /\ U.books = books /\ U.files = files \ chosen /\ U.ledger \subseteq ledger
        /\ U = [books |-> U.books, files |-> U.files, ledger |-> U.ledger]
    BY <1>1 DEF Thinned
  <1>3. Tables.books = books /\ Tables.files = files /\ Tables.ledger = ledger /\ Keyed(Tables)
    BY TablesKeyed DEF Tables
  <1>4. U \in Db
    BY <1>2, <1>3 DEF Db, Keyed
  <1>5. SameBooks(Tables, U)
    BY <1>2, <1>3 DEF SameBooks, Stands
  <1>6. U.files \subseteq Tables.files /\ U.ledger \subseteq Tables.ledger
    BY <1>2, <1>3
  <1> QED BY <1>1, <1>3, <1>4, <1>5, <1>6, FewerRows

LEMMA DeleteTyped ==
    ASSUME Typed, NEW b \in Id, NEW chosen \in SUBSET FilesOf(Tables, b), delete_book_items(b, chosen)
    PROVE  Typed'
  <1>1. /\ TypeOK /\ RestTyped /\ PassTyped
    BY TypeParts DEF Typed
  <1>2. TablesTyped'
    <2>1. PICK T : T = Dropped(Thinned(b, chosen), IF chosen = FilesOf(Tables, b) THEN {b} ELSE {})
      OBVIOUS
    <2>2. Keyed(T) /\ SetTables(T)
      BY <1>1, <2>1, ThinnedKeyed, DroppedKeyed, DeleteIs
    <2> QED BY <2>2, KeyedTyped
  <1>3. RestTyped'
    <2>1. owner' \in [Paths -> Id \cup {None}]
      BY <1>1, DeleteIs DEF RestTyped
    <2>2. calm' \in -1 .. 2
      <3>1. Disturbed
        BY DeleteIs
      <3> QED BY <3>1 DEF Disturbed
    <2>3. doomed' \subseteq Paths
      <3>1. \A f \in chosen : f.key \in Paths
        BY <1>1 DEF FilesOf, Tables, TypeOK, Row
      <3>2. doomed' = doomed \cup {f.key : f \in chosen} /\ doomed \subseteq Paths
        BY <1>1, DeleteIs DEF RestTyped
      <3> QED BY <3>1, <3>2
    <2>4. UNCHANGED <<disk, step, troubled, faults>> /\ ops' \in 0 .. MaxOps
      BY <1>1, DeleteIs, OpTyped
    <2> QED BY <1>1, <2>1, <2>2, <2>3, <2>4 DEF RestTyped
  <1>4. PassTyped'
    BY <1>1, DeleteIs, SamePass
  <1> QED BY <1>2, <1>3, <1>4 DEF Typed, TypeOK, TablesTyped, RestTyped

LEMMA NextTyped == Typed /\ [Next]_vars => Typed'
  <1> SUFFICES ASSUME Typed, [Next]_vars PROVE Typed'
    OBVIOUS
  <1>1. CASE StartScan \/ Walk \/ WalkMisses \/ GcSelect \/ ScanFails
    BY <1>1, WalksTyped
  <1>2. CASE Diff
    BY <1>2, DiffTyped
  <1>3. CASE Sync
    BY <1>3, SyncTyped
  <1>4. CASE GcDelete
    BY <1>4, PurgeTyped
  <1>5. CASE \E p \in Paths : \/ \E w \in Works : AddFile(p, w) \/ EditFile(p, w)
                              \/ \E q \in Paths : MoveFile(p, q) \/ CopyFile(p, q)
                              \/ RemoveFile(p) \/ Unlink(p)
    <2>1. PICK p \in Paths : \/ \E w \in Works : AddFile(p, w) \/ EditFile(p, w)
                             \/ \E q \in Paths : MoveFile(p, q) \/ CopyFile(p, q)
                             \/ RemoveFile(p) \/ Unlink(p)
      BY <1>5
    <2>2. ASSUME NEW w \in Works, AddFile(p, w) \/ EditFile(p, w)
          PROVE  Typed'
      BY <2>2, DiskTyped
    <2>3. ASSUME NEW q \in Paths, MoveFile(p, q) \/ CopyFile(p, q) \/ RemoveFile(p)
          PROVE  Typed'
      <3>1. CASE Works = {}
        <4>1. disk[p] \notin File
          BY <3>1 DEF File
        <4>2. p \notin OnDisk
          BY <4>1 DEF OnDisk, Typed, TypeOK
        <4> QED BY <2>3, <4>2 DEF MoveFile, CopyFile, RemoveFile
      <3>2. CASE Works # {}
        BY <2>3, <3>2, DiskTyped
      <3> QED BY <3>1, <3>2
    <2>4. CASE Unlink(p)
      BY <2>4, UnlinkTyped
    <2> QED BY <2>1, <2>2, <2>3, <2>4
  <1>6. CASE \E b \in Id : Read(b) \/ RetentionPasses(b)
    BY <1>6, FlagsTyped
  <1>7. CASE \E b \in Id, t \in Id : merge_books(b, t)
    BY <1>7, MergeTyped
  <1>8. CASE \E b \in Id : \E chosen \in SUBSET FilesOf(Tables, b) : delete_book_items(b, chosen)
    BY <1>8, DeleteTyped
  <1>9. CASE Restart
    BY <1>9, FlagsTyped
  <1>10. CASE UNCHANGED vars
    <2>1. UNCHANGED <<disk, tables, doomed, owner, troubled, step, pass, ops, faults, calm>>
      BY <1>10 DEF vars
    <2>2. RestTyped /\ PassTyped'
      BY <2>1, TypeParts, SamePass DEF Typed
    <2> QED BY <2>1, <2>2, StepTyped DEF RestTyped
  <1> QED BY <1>1, <1>2, <1>3, <1>4, <1>5, <1>6, <1>7, <1>8, <1>9, <1>10 DEF Next

(* Whatever order the steps of scans, purges, merges, deletions and changes *)
(* of the disk come in, the tables keep their types, their foreign keys and *)
(* their unique keys, and what a scan holds has the type of its step.       *)
THEOREM TypeCorrectness == Spec => []TypeOK
  <1>1. Init => Typed
    BY InitTyped
  <1>2. Typed /\ [Next]_vars => Typed'
    BY NextTyped
  <1>3. Typed => TypeOK
    BY DEF Typed
  <1> QED BY <1>1, <1>2, <1>3, PTL DEF Spec

-----------------------------------------------------------------------------
(* One file, one book. What the tables say of paths: every row is at its   *)
(* book's path or at one the ledger has for the book.                      *)
InLedger(T, f) == \E m \in T.ledger : m.book = f.book /\ m.key = f.key

HasHome(T) == \A f \in T.files : T.books[f.book].key = f.key \/ InLedger(T, f)

(* No path is both a book's own and an attached file's. *)
Apart(T) == \A m \in T.ledger, b \in Id : Stands(T, b) => T.books[b].key # m.key

OneEntry(T) == \A m, n \in T.ledger : m.key = n.key => m = n

(* A handle is not the uuid of a book, and the format is the path's.       *)
Handles(T) ==
    \A m \in T.ledger : (m.uuid \in Id => ~Stands(T, m.uuid)) /\ m.format = FormatOf[m.key]

OneSlot(T) == \A f, g \in T.files : f.book = g.book /\ FormatOf[f.key] = FormatOf[g.key] => f = g

(* An attached file that is there is the only one of its format the ledger *)
(* has for its book.                                                       *)
OneBacking(T) ==
    \A f \in T.files, m, n \in T.ledger :
        m.book = f.book /\ m.key = f.key /\ n.book = f.book /\ n.format = m.format => n = m

Placed(T) ==
    HasHome(T) /\ Apart(T) /\ OneEntry(T) /\ Handles(T) /\ OneSlot(T) /\ OneBacking(T)

LEMMA PlacedOnce ==
    ASSUME NEW T, Keyed(T), Placed(T), NEW f \in T.files, NEW g \in T.files, f.key = g.key
    PROVE  f = g
  <1>1. f.book \in Id /\ g.book \in Id /\ Stands(T, f.book) /\ Stands(T, g.book)
    BY DEF Keyed, Db, Row
  <1>2. SUFFICES f.book = g.book
    BY DEF Placed, OneSlot
  <1>3. CASE T.books[f.book].key = f.key /\ T.books[g.book].key = g.key
    BY <1>1, <1>3 DEF Keyed
  <1>4. CASE InLedger(T, f) /\ InLedger(T, g)
    BY <1>4 DEF InLedger, Placed, OneEntry
  <1>5. CASE InLedger(T, f) /\ T.books[g.book].key = g.key
    BY <1>1, <1>5 DEF InLedger, Placed, Apart
  <1>6. CASE InLedger(T, g) /\ T.books[f.book].key = f.key
    BY <1>1, <1>6 DEF InLedger, Placed, Apart
  <1> QED BY <1>3, <1>4, <1>5, <1>6 DEF Placed, HasHome

(* The rows of a table in which b has taken the file p.                    *)
RowsPut(T, U, b, p) ==
    \A f \in U.files : \/ f = NewRow(b, p) /\ f.book = b /\ f.key = p
                       \/ /\ f \in T.files
                          /\ f.book = b => FormatOf[f.key] # FormatOf[p]

LEMMA RowsArePut ==
    ASSUME NEW T, NEW U, NEW b, NEW x, NEW p, Puts(T, U, b, x, p), x = FormatOf[p]
    PROVE  RowsPut(T, U, b, p)
  BY DEF Puts, NewRow, RowsPut

LEMMA SlotPut ==
    ASSUME NEW T, OneSlot(T), NEW U, NEW b, NEW p, Puts(T, U, b, FormatOf[p], p)
    PROVE  OneSlot(U)
  <1>1. \A f \in U.files : \/ f = NewRow(b, p) /\ f.book = b /\ f.key = p
                           \/ /\ f \in T.files
                              /\ f.book = b => FormatOf[f.key] # FormatOf[p]
    <2>1. RowsPut(T, U, b, p)
      BY RowsArePut
    <2> QED BY <2>1 DEF RowsPut
  <1>2. ASSUME NEW f \in U.files, NEW g \in U.files,
               f.book = g.book, FormatOf[f.key] = FormatOf[g.key]
        PROVE  f = g
    <2>1. CASE f = NewRow(b, p) /\ f.book = b /\ f.key = p
      BY <1>1, <1>2, <2>1
    <2>2. CASE g = NewRow(b, p) /\ g.book = b /\ g.key = p
      BY <1>1, <1>2, <2>2
    <2>3. CASE f \in T.files /\ g \in T.files
      BY <1>2, <2>3 DEF OneSlot
    <2> QED BY <1>1, <2>1, <2>2, <2>3
  <1> QED BY <1>2 DEF OneSlot

LEMMA MovesPlaced ==
    ASSUME NEW T, Keyed(T), Placed(T), NEW U, NEW b, NEW p \in Paths, Moves(T, U, b, p),
           \A m \in T.ledger : m.key # p,
           \A f \in T.files : f.book = b /\ FormatOf[f.key] # FormatOf[p] => InLedger(T, f)
    PROVE  Placed(U)
  <1>1. /\ b \in Id /\ Stands(T, b) /\ Puts(T, U, b, FormatOf[p], p) /\ U.ledger = T.ledger
        /\ U.books[b].key = p
    BY DEF Moves
  <1>2. \A c \in Id \ {b} : U.books[c] = T.books[c] /\ (Stands(U, c) <=> Stands(T, c))
    BY <1>1 DEF Puts, Stands
  <1>3. \A f \in U.files : \/ f.book = b /\ f.key = p
                           \/ /\ f \in T.files
                              /\ f.book = b => FormatOf[f.key] # FormatOf[p]
    <2>1. RowsPut(T, U, b, p)
      BY <1>1, RowsArePut
    <2> QED BY <2>1 DEF RowsPut
  <1>4. HasHome(U)
    <2>1. SUFFICES ASSUME NEW f \in U.files
                   PROVE  U.books[f.book].key = f.key \/ InLedger(U, f)
      BY DEF HasHome
    <2>2. CASE f.book = b /\ f.key = p
      BY <1>1, <2>2
    <2>3. CASE f \in T.files /\ f.book = b /\ FormatOf[f.key] # FormatOf[p]
      BY <1>1, <2>3 DEF InLedger
    <2>4. CASE f \in T.files /\ f.book # b
      <3>1. f.book \in Id \ {b}
        BY <2>4 DEF Keyed, Db, Row
      <3>2. T.books[f.book].key = f.key \/ InLedger(T, f)
        BY <2>4 DEF Placed, HasHome
      <3> QED BY <1>1, <1>2, <3>1, <3>2 DEF InLedger
    <2> QED BY <1>3, <2>2, <2>3, <2>4
  <1>5. Apart(U)
    BY <1>1, <1>2 DEF Placed, Apart
  <1>6. OneEntry(U)
    BY <1>1 DEF Placed, OneEntry
  <1>7. Handles(U)
    BY <1>1, <1>2 DEF Placed, Handles
  <1>8. OneSlot(U)
    BY <1>1, SlotPut DEF Placed
  <1>9. OneBacking(U)
    BY <1>1, <1>3 DEF Placed, OneBacking
  <1> QED BY <1>4, <1>5, <1>6, <1>7, <1>8, <1>9 DEF Placed

LEMMA SettlesPlaced ==
    ASSUME NEW T, Keyed(T), Placed(T), NEW U, NEW b, NEW p \in Paths, Settles(T, U, b, p),
           U.ledger = {m \in T.ledger : m.key # p},
           \A f \in T.files : InLedger(T, f) => f.key # p
    PROVE  Placed(U)
  <1>1. /\ b \in Id /\ ~Stands(T, b) /\ Puts(T, U, b, FormatOf[p], p)
        /\ U.books[b].key = p /\ \A m \in U.ledger : m.uuid # b
    BY DEF Settles
  <1>2. \A c \in Id \ {b} : U.books[c] = T.books[c] /\ (Stands(U, c) <=> Stands(T, c))
    BY <1>1 DEF Puts, Stands
  <1>3. \A f \in U.files : \/ f.book = b /\ f.key = p
                           \/ f \in T.files /\ f.book \in Id \ {b}
    <2>1. \A f \in T.files : f.book \in Id /\ Stands(T, f.book)
      BY DEF Keyed, Db, Row
    <2>2. RowsPut(T, U, b, p)
      BY <1>1, RowsArePut
    <2>3. \A f \in U.files : (f.book = b /\ f.key = p) \/ f \in T.files
      BY <2>2 DEF RowsPut
    <2> QED BY <1>1, <2>1, <2>3
  <1>4. HasHome(U)
    <2>1. SUFFICES ASSUME NEW f \in U.files
                   PROVE  U.books[f.book].key = f.key \/ InLedger(U, f)
      BY DEF HasHome
    <2>2. CASE f.book = b /\ f.key = p
      BY <1>1, <2>2
    <2>3. CASE f \in T.files /\ f.book \in Id \ {b}
      <3>1. T.books[f.book].key = f.key \/ InLedger(T, f)
        BY <2>3 DEF Placed, HasHome
      <3>2. InLedger(T, f) => InLedger(U, f)
        BY <2>3 DEF InLedger
      <3> QED BY <1>2, <2>3, <3>1, <3>2
    <2> QED BY <1>3, <2>2, <2>3
  <1>5. Apart(U)
    BY <1>1, <1>2 DEF Placed, Apart
  <1>6. OneEntry(U)
    BY DEF Placed, OneEntry
  <1>7. Handles(U)
    BY <1>1, <1>2 DEF Placed, Handles
  <1>8. OneSlot(U)
    BY <1>1, SlotPut DEF Placed
  <1>9. OneBacking(U)
    BY <1>3 DEF Placed, OneBacking
  <1> QED BY <1>4, <1>5, <1>6, <1>7, <1>8, <1>9 DEF Placed

(* The file p may be attached to b under the handle v: no book stands      *)
(* there, and the ledger has the file for b, under v, or not at all.       *)
Suits(T, b, v, p) ==
    /\ ~slot_held_by_other(T, b, FormatOf[p], p)
    /\ \A c \in Id : Stands(T, c) => T.books[c].key # p
    /\ \A m \in T.ledger : m.uuid = v <=> m.key = p
    /\ \A m \in T.ledger : m.key = p => m.book = b
    /\ v \in Id => ~Stands(T, v)

LEMMA AttachesPlaced ==
    ASSUME NEW T, Keyed(T), Placed(T), NEW U, NEW b, NEW v, NEW p \in Paths,
           Attaches(T, U, b, FormatOf[p], v, p), Suits(T, b, v, p)
    PROVE  Placed(U)
  <1>1. /\ b \in Id /\ Stands(T, b) /\ Puts(T, U, b, FormatOf[p], p)
        /\ U.books[b].key = T.books[b].key
        /\ U.ledger = {m \in T.ledger : m.key # p} \cup {Entry(v, b, FormatOf[p], p)}
    BY DEF Attaches, Suits
  <1>2. \A c \in Id : U.books[c].key = T.books[c].key /\ (Stands(U, c) <=> Stands(T, c))
    <2>1. \A c \in Id \ {b} : U.books[c] = T.books[c] /\ (Stands(U, c) <=> Stands(T, c))
      BY <1>1 DEF Puts, Stands
    <2>2. Stands(U, b)
      BY <1>1, StandsIs DEF Puts
    <2> QED BY <1>1, <2>1, <2>2
  <1>3. \A f \in U.files : \/ f.book = b /\ f.key = p
                           \/ /\ f \in T.files
                              /\ f.book = b => FormatOf[f.key] # FormatOf[p]
    <2>1. RowsPut(T, U, b, p)
      BY <1>1, RowsArePut
    <2> QED BY <2>1 DEF RowsPut
  <1>4. PICK e : e = Entry(v, b, FormatOf[p], p)
    OBVIOUS
  <1>5. /\ e.uuid = v /\ e.book = b /\ e.format = FormatOf[p] /\ e.key = p /\ e \in U.ledger
        /\ \A m \in U.ledger : m = e \/ (m \in T.ledger /\ m.key # p)
    BY <1>1, <1>4 DEF Entry
  <1>6. HasHome(U)
    <2>1. SUFFICES ASSUME NEW f \in U.files
                   PROVE  U.books[f.book].key = f.key \/ InLedger(U, f)
      BY DEF HasHome
    <2>2. CASE f.book = b /\ f.key = p
      BY <1>5, <2>2 DEF InLedger
    <2>3. CASE f \in T.files
      <3>1. T.books[f.book].key = f.key \/ InLedger(T, f)
        BY <2>3 DEF Placed, HasHome
      <3>2. f.book \in Id
        BY <2>3 DEF Keyed, Db, Row
      <3>3. ASSUME NEW m \in T.ledger, m.book = f.book, m.key = f.key
            PROVE  InLedger(U, f)
        BY <1>1, <1>5, <3>3 DEF InLedger, Suits
      <3> QED BY <1>2, <3>1, <3>2, <3>3 DEF InLedger
    <2> QED BY <1>3, <2>2, <2>3
  <1>7. Apart(U)
    BY <1>2, <1>5 DEF Placed, Apart, Suits
  <1>8. OneEntry(U)
    BY <1>5 DEF Placed, OneEntry
  <1>9. Handles(U)
    BY <1>2, <1>5 DEF Placed, Handles, Suits
  <1>10. OneSlot(U)
    BY <1>1, SlotPut DEF Placed
  <1>11. OneBacking(U)
    <2>1. SUFFICES ASSUME NEW f \in U.files, NEW m \in U.ledger, NEW n \in U.ledger,
                          m.book = f.book, m.key = f.key, n.book = f.book, n.format = m.format
                   PROVE  n = m
      BY DEF OneBacking
    <2>2. \A a \in T.ledger : a.book = b /\ a.format = FormatOf[p] => a.key = p
      BY DEF slot_held_by_other, Suits
    <2>3. CASE m = e \/ n = e
      BY <1>5, <2>1, <2>2, <2>3
    <2>4. CASE m # e /\ n # e
      <3>1. m \in T.ledger /\ n \in T.ledger /\ m.key # p
        BY <1>5, <2>4
      <3>2. f \in T.files
        BY <1>3, <2>1, <3>1
      <3> QED BY <2>1, <3>1, <3>2 DEF Placed, OneBacking
    <2> QED BY <2>3, <2>4
  <1> QED BY <1>6, <1>7, <1>8, <1>9, <1>10, <1>11 DEF Placed

-----------------------------------------------------------------------------
(* One file, one book, through a bucket.                                   *)

(* A book the plan calls removed: as the bucket found it, with no row but  *)
(* those the ledger has; or joined again by a new file of its work.        *)
Untouched(T, b) ==
    /\ T.books[b].key \notin DOMAIN pass.seen /\ T.books[b].work = books[b].work
    /\ \A f \in T.files : f.book = b => InLedger(T, f)

Rejoined(T, b, todo) ==
    /\ T.books[b].work = books[b].work
    /\ \E q \in todo \cap pass.new :
          Parsed(q).work = books[b].work /\ SlotOf(T, b, FormatOf[q]) # {}

KeepsPaths(T0, T) ==
    \A b \in Id \ pass.removed : Stands(T0, b) => T.books[b].key = T0.books[b].key

RemovedStand(T, todo) ==
    \A b \in Id \cap pass.removed :
        Stands(T, b) => Stands(Tables, b) /\ (Untouched(T, b) \/ Rejoined(T, b, todo))

(* The handle of a new file's path is that path's, if the ledger has it.   *)
HandlesNew(T) == \A m \in T.ledger, q \in pass.new \cap Paths : m.uuid = stable_uuid(q) => m.key = q

(* What the ledger has for a new file that waits, it had before.           *)
Waiting(T, ahead) == \A m \in T.ledger : m.key \in pass.new \cap ahead => m \in ledger

Follows(T0, T, todo, ahead) ==
    /\ Placed(T) /\ KeepsPaths(T0, T) /\ RemovedStand(T, todo)
    /\ HandlesNew(T) /\ Waiting(T, ahead)

(* A removed book is not where a file was seen, when a bucket begins.      *)
Ready(T0) ==
    \A b \in Id \cap pass.removed : Stands(T0, b) => T0.books[b].key \notin DOMAIN pass.seen

LEMMA RemovedOn ==
    ASSUME NEW T, NEW U, NEW b \in Id, NEW p, Puts(T, U, b, FormatOf[p], p), NEW todo,
           RemovedStand(T, todo),
           \A f \in T.files : InLedger(T, f) /\ f.book # b => InLedger(U, f),
           b \in pass.removed =>
              Stands(Tables, b) /\ (Untouched(U, b) \/ Rejoined(U, b, todo))
    PROVE  RemovedStand(U, todo)
  <1>1. SUFFICES ASSUME NEW c \in Id \cap pass.removed, c # b, Stands(U, c)
                 PROVE  Stands(Tables, c) /\ (Untouched(U, c) \/ Rejoined(U, c, todo))
    BY DEF RemovedStand
  <1>2. U.books[c] = T.books[c] /\ Stands(T, c)
    BY <1>1 DEF Puts, Stands
  <1>3. \A f : f.book = c => (f \in U.files <=> f \in T.files)
    BY <1>1 DEF Puts, NewRow
  <1>4. Stands(Tables, c) /\ (Untouched(T, c) \/ Rejoined(T, c, todo))
    BY <1>2 DEF RemovedStand
  <1>5. CASE Untouched(T, c)
    BY <1>1, <1>2, <1>3, <1>4, <1>5 DEF Untouched
  <1>6. CASE Rejoined(T, c, todo)
    <2>1. \A x : SlotOf(U, c, x) = SlotOf(T, c, x)
      BY <1>3 DEF SlotOf, FilesOf
    <2> QED BY <1>2, <1>4, <1>6, <2>1 DEF Rejoined
  <1> QED BY <1>4, <1>5, <1>6

(* A book that is written where it stands. *)
LEMMA ReturnsOn ==
    ASSUME NEW T0, NEW T, Keyed(T), NEW todo, NEW ahead, Follows(T0, T, todo, ahead),
           NEW p \in Paths, NEW U, NEW b, Moves(T, U, b, p), b \notin pass.removed, T.books[b].key = p
    PROVE  Follows(T0, U, todo, ahead)
  <1>1. /\ b \in Id /\ Stands(T, b) /\ Puts(T, U, b, FormatOf[p], p) /\ U.ledger = T.ledger
        /\ U.books[b].key = p
    BY DEF Moves
  <1>2. Placed(T)
    BY DEF Follows
  <1>3. Placed(U)
    <2>1. \A m \in T.ledger : m.key # p
      BY <1>1, <1>2 DEF Placed, Apart
    <2>2. \A f \in T.files : f.book = b /\ FormatOf[f.key] # FormatOf[p] => InLedger(T, f)
      BY <1>2 DEF Placed, HasHome
    <2> QED BY <1>2, <2>1, <2>2, MovesPlaced
  <1>4. KeepsPaths(T0, U)
    BY <1>1 DEF Follows, KeepsPaths, Puts
  <1>5. RemovedStand(U, todo)
    <2>1. \A f \in T.files : InLedger(T, f) => InLedger(U, f)
      BY <1>1 DEF InLedger
    <2>2. RemovedStand(T, todo)
      BY DEF Follows
    <2> QED BY <1>1, <2>1, <2>2, RemovedOn
  <1>6. HandlesNew(U) /\ Waiting(U, ahead)
    BY <1>1 DEF Follows, HandlesNew, Waiting
  <1> QED BY <1>3, <1>4, <1>5, <1>6 DEF Follows

(* A removed book joined by a new file of its work, the only one.          *)
LEMMA JoinedOn ==
    ASSUME NEW T0, NEW T, Keyed(T), NEW todo, NEW ahead, Follows(T0, T, todo, ahead),
           NEW p \in todo \cap pass.new, p \in Paths, NEW U, NEW b, Moves(T, U, b, p),
           b \in pass.removed, T.books[b].work = Parsed(p).work, SlotOf(T, b, FormatOf[p]) = {},
           AttachmentsAt(T, p) = {}, ~TwinsReturn
    PROVE  Follows(T0, U, todo, ahead)
  <1>1. /\ b \in Id /\ Stands(T, b) /\ Puts(T, U, b, FormatOf[p], p) /\ U.ledger = T.ledger
        /\ U.books[b].key = p /\ U.books[b].work = Parsed(p).work
    BY DEF Moves
  <1>2. Placed(T) /\ RemovedStand(T, todo)
    BY DEF Follows
  <1>3. b \in live /\ (Untouched(T, b) \/ Rejoined(T, b, todo))
    <2>1. Stands(Tables, b) /\ (Untouched(T, b) \/ Rejoined(T, b, todo))
      BY <1>1, <1>2 DEF RemovedStand
    <2>2. Stands(Tables, b) => b \in live
      BY <1>1 DEF Stands, Tables, live
    <2> QED BY <2>1, <2>2
  <1>4. ~Rejoined(T, b, todo)
    <2>1. SUFFICES ASSUME Rejoined(T, b, todo) PROVE FALSE
      OBVIOUS
    <2>2. PICK q \in pass.new : Parsed(q).work = books[b].work /\ SlotOf(T, b, FormatOf[q]) # {}
      BY <2>1 DEF Rejoined
    <2>3. Parsed(p).work = books[b].work
      BY <2>1 DEF Rejoined
    <2>4. FormatOf[p] # FormatOf[q]
      BY <2>2
    <2>5. {Parsed(p).work, Parsed(q).work} = {books[b].work}
      BY <2>2, <2>3
    <2> QED BY <1>3, <2>2, <2>4, <2>5 DEF TwinsReturn
  <1>5. Untouched(T, b)
    BY <1>3, <1>4
  <1>6. Placed(U)
    <2>1. \A m \in T.ledger : m.key # p
      BY DEF AttachmentsAt
    <2>2. \A f \in T.files : f.book = b /\ FormatOf[f.key] # FormatOf[p] => InLedger(T, f)
      BY <1>5 DEF Untouched
    <2> QED BY <1>2, <2>1, <2>2, MovesPlaced
  <1>7. KeepsPaths(T0, U)
    BY <1>1 DEF Follows, KeepsPaths, Puts
  <1>8. RemovedStand(U, todo)
    <2>1. \A f \in T.files : InLedger(T, f) => InLedger(U, f)
      BY <1>1 DEF InLedger
    <2>2. Rejoined(U, b, todo)
      <3>1. U.books[b].work = books[b].work /\ Parsed(p).work = books[b].work
        BY <1>1, <1>5 DEF Untouched
      <3>2. NewRow(b, p) \in SlotOf(U, b, FormatOf[p])
        BY <1>1 DEF Puts, NewRow, SlotOf, FilesOf
      <3> QED BY <3>1, <3>2 DEF Rejoined
    <2>3. Stands(Tables, b)
      BY <1>3 DEF live, Stands, Tables
    <2> QED BY <1>1, <1>2, <2>1, <2>2, <2>3, RemovedOn
  <1>9. HandlesNew(U) /\ Waiting(U, ahead)
    BY <1>1 DEF Follows, HandlesNew, Waiting
  <1> QED BY <1>6, <1>7, <1>8, <1>9 DEF Follows

(* A file that becomes a book. *)
LEMMA SettlesOn ==
    ASSUME NEW T0, NEW T, \A c \in Id : Stands(T0, c) => Stands(T, c), step = "sync",
           Keyed(T), NEW todo, NEW ahead, Follows(T0, T, todo, ahead),
           NEW p \in Paths, NEW U, NEW b, Settles(T, U, b, p),
           U.ledger = {m \in T.ledger : m.key # p},
           \A f \in T.files : InLedger(T, f) => f.key # p
    PROVE  Follows(T0, U, todo, ahead)
  <1>1. /\ b \in Id /\ ~Stands(T, b) /\ Puts(T, U, b, FormatOf[p], p) /\ b \notin pass.removed
    BY DEF Settles
  <1>2. Placed(U)
    BY SettlesPlaced DEF Follows
  <1>3. KeepsPaths(T0, U)
    BY <1>1 DEF Follows, KeepsPaths, Puts
  <1>4. RemovedStand(U, todo)
    <2>1. \A f \in T.files : InLedger(T, f) => InLedger(U, f)
      BY <1>1 DEF InLedger
    <2>2. RemovedStand(T, todo)
      BY DEF Follows
    <2> QED BY <1>1, <2>1, <2>2, RemovedOn
  <1>5. HandlesNew(U) /\ Waiting(U, ahead)
    BY DEF Follows, HandlesNew, Waiting
  <1> QED BY <1>2, <1>3, <1>4, <1>5 DEF Follows

(* A file attached to a book, under a handle of its path. *)
LEMMA AttachesOn ==
    ASSUME NEW T0, NEW T, Keyed(T), NEW todo, NEW ahead, Follows(T0, T, todo, ahead),
           NEW p \in Paths, NEW U, NEW b, NEW v, Attaches(T, U, b, FormatOf[p], v, p),
           Suits(T, b, v, p), \A q \in pass.new \cap Paths : v = stable_uuid(q) => q = p
    PROVE  Follows(T0, U, todo, ahead \ {p})
  <1>1. /\ b \in Id /\ Stands(T, b) /\ Puts(T, U, b, FormatOf[p], p)
        /\ U.books[b].key = T.books[b].key /\ U.books[b].work = T.books[b].work
        /\ U.ledger = {m \in T.ledger : m.key # p} \cup {Entry(v, b, FormatOf[p], p)}
    BY DEF Attaches, Suits
  <1>2. Placed(U)
    <2>1. Placed(T)
      BY DEF Follows
    <2> QED BY <2>1, AttachesPlaced
  <1>3. KeepsPaths(T0, U)
    BY <1>1 DEF Follows, KeepsPaths, Puts
  <1>4. PICK e : e = Entry(v, b, FormatOf[p], p)
    OBVIOUS
  <1>5. /\ e.uuid = v /\ e.book = b /\ e.key = p /\ e \in U.ledger
        /\ \A m \in U.ledger : m = e \/ (m \in T.ledger /\ m.key # p)
    BY <1>1, <1>4 DEF Entry
  <1>6. \A f \in T.files : InLedger(T, f) => InLedger(U, f)
    <2>1. SUFFICES ASSUME NEW f \in T.files, NEW m \in T.ledger, m.book = f.book, m.key = f.key
                   PROVE  InLedger(U, f)
      BY DEF InLedger
    <2> QED BY <1>1, <1>5, <2>1 DEF InLedger, Suits
  <1>7. RemovedStand(U, todo)
    <2>1. ASSUME b \in pass.removed
          PROVE  Stands(Tables, b) /\ (Untouched(U, b) \/ Rejoined(U, b, todo))
      <3>1. Stands(Tables, b) /\ (Untouched(T, b) \/ Rejoined(T, b, todo))
        BY <1>1, <2>1 DEF Follows, RemovedStand
      <3>2. CASE Untouched(T, b)
        <4>1. ASSUME NEW f \in U.files, f.book = b PROVE InLedger(U, f)
          <5>1. CASE f.key = p
            BY <1>5, <4>1, <5>1 DEF InLedger
          <5>2. CASE f \in T.files
            BY <1>6, <3>2, <4>1, <5>2 DEF Untouched
          <5> QED BY <1>1, <5>1, <5>2 DEF Puts, NewRow
        <4> QED BY <1>1, <3>1, <3>2, <4>1 DEF Untouched
      <3>3. CASE Rejoined(T, b, todo)
        <4>1. PICK q \in todo \cap pass.new :
                Parsed(q).work = books[b].work /\ SlotOf(T, b, FormatOf[q]) # {}
          BY <3>3 DEF Rejoined
        <4>2. PICK f \in SlotOf(T, b, FormatOf[q]) : TRUE
          BY <4>1
        <4>3. SlotOf(U, b, FormatOf[q]) # {}
          <5>1. CASE FormatOf[q] = FormatOf[p]
            <6>1. NewRow(b, p) \in SlotOf(U, b, FormatOf[q])
              BY <1>1, <5>1 DEF Puts, NewRow, SlotOf, FilesOf
            <6> QED BY <6>1
          <5>2. CASE FormatOf[q] # FormatOf[p]
            <6>1. f \in SlotOf(U, b, FormatOf[q])
              BY <1>1, <4>2, <5>2 DEF Puts, SlotOf, FilesOf
            <6> QED BY <6>1
          <5> QED BY <5>1, <5>2
        <4> QED BY <1>1, <3>1, <3>3, <4>1, <4>3 DEF Rejoined
      <3> QED BY <3>1, <3>2, <3>3
    <2>2. RemovedStand(T, todo)
      BY DEF Follows
    <2> QED BY <1>1, <1>6, <2>1, <2>2, RemovedOn
  <1>8. HandlesNew(U)
    BY <1>5 DEF Follows, HandlesNew
  <1>9. Waiting(U, ahead \ {p})
    BY <1>5 DEF Follows, Waiting
  <1> QED BY <1>2, <1>3, <1>7, <1>8, <1>9 DEF Follows

(* A file written, whatever becomes of it.                                 *)
LEMMA WriteFollows ==
    ASSUME step = "sync", Reads, ~TwinsReturn, ~UnreadAttachment,
           NEW T0, Keyed(T0), Ready(T0), NEW T, Keyed(T), NEW todo, NEW ahead,
           Follows(T0, T, todo, ahead), NEW p \in Paths, p \in todo, p \in ahead,
           Grown(T0, T, p - 1), p \in DOMAIN pass.seen, pass.seen[p] \in Stat, Spare(T) # {},
           NEW U, Writes(T0, T, U, p)
    PROVE  Follows(T0, U, todo, ahead \ {p})
  <1>1. T \in Db /\ T0 \in Db /\ \A c \in Id : Stands(T0, c) => Stands(T, c)
    BY DEF Keyed, Grown
  <1>2. SUFFICES Follows(T0, U, todo, ahead) \/ Follows(T0, U, todo, ahead \ {p})
    <2>1. Waiting(U, ahead) => Waiting(U, ahead \ {p})
      BY DEF Waiting
    <2> QED BY <1>2, <2>1 DEF Follows
  <1>3. /\ HasHome(T) /\ Apart(T) /\ OneEntry(T) /\ Handles(T) /\ OneSlot(T) /\ OneBacking(T)
        /\ KeepsPaths(T0, T) /\ HandlesNew(T) /\ Waiting(T, ahead)
    BY DEF Follows, Placed
  <1>4. \A m, n \in T.ledger : m.uuid = n.uuid => m = n
    BY DEF Keyed
  <1>5. CASE Returns(T0, T, U, p)
    <2>1. PICK b \in HolderOf(T0, p) : U = rewrite_book_in_place(T, b, Parsed(p))
      BY <1>5 DEF Returns
    <2>2. b \in Id /\ Stands(T0, b) /\ T0.books[b].key = p /\ Stands(T, b)
      BY <1>1, StillOne
    <2>3. b \notin pass.removed
      BY <2>2 DEF Ready
    <2>4. T.books[b].key = p
      BY <1>3, <2>2, <2>3 DEF KeepsPaths
    <2>5. Moves(T, U, b, p)
      BY <1>1, <2>1, <2>2, RewriteMoves
    <2> QED BY <2>3, <2>4, <2>5, ReturnsOn
  <1>6. CASE HolderOf(T0, p) = {} /\ Reattaches(T, U, p)
    <2>1. PICK m \in AttachmentsAt(T, p) :
            IF slot_held_by_other(T, m.book, m.format, p)
            THEN U = insert_book_row(forget_attachment(T, p), Parsed(p))
            ELSE U = attach_ebook_file(T, m.book, m.format, m.uuid, Parsed(p))
      BY <1>6 DEF Reattaches
    <2>2. m \in T.ledger /\ m.key = p /\ \A n \in T.ledger : n.key = p => n = m
      BY <1>3 DEF AttachmentsAt, OneEntry
    <2>3. m.format = FormatOf[p] /\ m.book \in Id /\ m.uuid \in Int /\ (m.uuid \in Id => ~Stands(T, m.uuid))
      BY <1>1, <1>3, <2>2 DEF Handles, Db, Attachment
    <2>4. CASE slot_held_by_other(T, m.book, FormatOf[p], p)
      <3>1. U = insert_book_row(forget_attachment(T, p), Parsed(p))
        BY <2>1, <2>3, <2>4
      <3>2. PICK b \in Id : Settles(T, U, b, p) /\ U.ledger = {n \in T.ledger : n.key # p}
        BY <1>1, <3>1, ForgetSettles
      <3>3. ASSUME NEW f \in T.files, InLedger(T, f), f.key = p
            PROVE  FALSE
        <4>1. f.book = m.book
          BY <2>2, <3>3 DEF InLedger
        <4>2. CASE \E n \in T.ledger : n.book = m.book /\ n.format = FormatOf[p] /\ n.key # p
          BY <1>3, <2>2, <2>3, <3>3, <4>1, <4>2 DEF OneBacking
        <4>3. CASE \E g \in SlotOf(T, m.book, FormatOf[p]) : g.key # p
          BY <1>3, <3>3, <4>1, <4>3 DEF OneSlot, SlotOf, FilesOf
        <4> QED BY <2>4, <4>2, <4>3 DEF slot_held_by_other
      <3> QED BY <1>1, <3>2, <3>3, SettlesOn
    <2>5. CASE ~slot_held_by_other(T, m.book, FormatOf[p], p)
      <3>1. U = attach_ebook_file(T, m.book, FormatOf[p], m.uuid, Parsed(p))
        BY <2>1, <2>3, <2>5
      <3>2. FormatOf[p] \in Range(FormatOf) /\ Stands(T, m.book)
        BY <2>2, Nulls DEF Keyed
      <3>3. PICK v \in Int : /\ Attaches(T, U, m.book, FormatOf[p], v, p)
                             /\ \E n \in AttachmentsAt(T, p) : v = n.uuid
        BY <1>1, <2>1, <2>3, <3>1, <3>2, AttachAttaches
      <3>4. v = m.uuid
        BY <2>2, <3>3 DEF AttachmentsAt
      <3>5. Suits(T, m.book, v, p)
        <4>1. \A c \in Id : Stands(T, c) => T.books[c].key # p
          BY <1>1, <1>6, StillNone
        <4> QED BY <1>4, <2>2, <2>3, <2>5, <3>4, <4>1 DEF Suits
      <3>6. \A q \in pass.new \cap Paths : v = stable_uuid(q) => q = p
        BY <1>3, <2>2, <3>4 DEF HandlesNew
      <3> QED BY <3>3, <3>5, <3>6, AttachesOn
    <2> QED BY <2>4, <2>5
  <1>7. CASE /\ HolderOf(T0, p) = {}
             /\ AttachmentsAt(T, p) = {} \/ (p \in pass.new /\ Parsed(p).work = None)
             /\ U = insert_book_row(T, Parsed(p)) \/ (p \in pass.new /\ Joins(T, U, p))
    <2>1. AttachmentsAt(T, p) = {}
      <3>1. SUFFICES ASSUME NEW a \in AttachmentsAt(T, p), p \in pass.new, Parsed(p).work = None
                     PROVE  FALSE
        BY <1>7
      <3>2. a \in ledger /\ a.key = p
        BY <1>3, <3>1 DEF AttachmentsAt, Waiting
      <3>3. a \in AttachmentsAt(Tables, p)
        BY <3>2 DEF AttachmentsAt, Tables
      <3> QED BY <3>1, <3>3 DEF UnreadAttachment
    <2>2. \A m \in T.ledger : m.key # p
      BY <2>1 DEF AttachmentsAt
    <2>3. \A c \in Id : Stands(T, c) => T.books[c].key # p
      BY <1>1, <1>7, StillNone
    <2>4. CASE U = insert_book_row(T, Parsed(p))
      <3>1. PICK b \in Spare(T) : Settles(T, U, b, p) /\ U.ledger = T.ledger
        BY <1>1, <2>4, InsertSettles
      <3>2. U.ledger = {m \in T.ledger : m.key # p}
        BY <2>2, <3>1
      <3>3. \A f \in T.files : InLedger(T, f) => f.key # p
        BY <2>2 DEF InLedger
      <3> QED BY <1>1, <3>1, <3>2, <3>3, SettlesOn
    <2>5. CASE p \in pass.new /\ Joins(T, U, p)
      <3>1. PICK b \in find_attach_target(T, Parsed(p).work, FormatOf[p]) :
              IF b \in pass.removed THEN U = rewrite_book_in_place(T, b, Parsed(p))
              ELSE /\ ~slot_held_by_other(T, b, FormatOf[p], p)
                   /\ U = attach_ebook_file(T, b, FormatOf[p], stable_uuid(p), Parsed(p))
        BY <2>5 DEF Joins
      <3>2. /\ b \in Id /\ Stands(T, b) /\ T.books[b].work = Parsed(p).work
            /\ SlotOf(T, b, FormatOf[p]) = {}
        BY <1>1, StandsIs DEF find_attach_target, BooksOf
      <3>3. CASE b \in pass.removed
        <4>1. Moves(T, U, b, p)
          BY <1>1, <3>1, <3>2, <3>3, RewriteMoves
        <4>2. p \in todo \cap pass.new
          BY <2>5
        <4> QED BY <2>1, <3>2, <3>3, <4>1, <4>2, JoinedOn
      <3>4. CASE b \notin pass.removed
        <4>1. /\ ~slot_held_by_other(T, b, FormatOf[p], p)
              /\ U = attach_ebook_file(T, b, FormatOf[p], stable_uuid(p), Parsed(p))
          BY <3>1, <3>4
        <4>2. /\ FormatOf[p] \in Range(FormatOf) /\ stable_uuid(p) \in Int /\ stable_uuid(p) \notin Id
          BY Nulls DEF stable_uuid, Paths, Id
        <4>3. PICK v \in Int : Attaches(T, U, b, FormatOf[p], v, p) /\ v = stable_uuid(p)
          BY <1>1, <2>1, <3>2, <4>1, <4>2, AttachAttaches
        <4>4. Suits(T, b, v, p)
          <5>1. \A m \in T.ledger : m.uuid # v
            BY <1>3, <2>2, <2>5, <4>3 DEF HandlesNew
          <5> QED BY <2>2, <2>3, <4>1, <4>2, <4>3, <5>1 DEF Suits
        <4>5. \A q \in pass.new \cap Paths : v = stable_uuid(q) => q = p
          BY <4>3 DEF stable_uuid, Paths
        <4> QED BY <4>3, <4>4, <4>5, AttachesOn
      <3> QED BY <3>3, <3>4
    <2> QED BY <1>7, <2>4, <2>5
  <1> QED BY <1>5, <1>6, <1>7 DEF Writes

(* A bucket that begins well goes well, and ends so that the next begins so. *)
Begins(T0) ==
    /\ Placed(T0) /\ HandlesNew(T0) /\ Waiting(T0, Paths)
    /\ \A b \in Id \cap pass.removed : Stands(T0, b) => Stands(Tables, b) /\ Untouched(T0, b)

Calmly ==
    /\ step = "sync" /\ TypeOK /\ PlanTyped
    /\ ~TwinsReturn /\ ~HandleReused /\ ~KeyTakenOver /\ ~UnreadAttachment

LEMMA BucketFollows ==
    ASSUME Calmly, NEW T0, Keyed(T0), Begins(T0), NEW todo \in SUBSET DOMAIN pass.seen,
           NEW rest \in SUBSET Paths, NEW g, Bucket(T0, g, todo), todo \cap rest = {},
           \A n \in 0 .. LastPath : /\ Keyed(g[n]) /\ Grown(T0, g[n], n)
                                    /\ Cardinality(Later(todo, rest, n)) <= Cardinality(Spare(g[n]))
    PROVE  \A n \in 0 .. LastPath : Follows(T0, g[n], todo, Later(todo, rest, n))
  <1> DEFINE S == {n \in 0 .. LastPath : Follows(T0, g[n], todo, Later(todo, rest, n))}
  <1>1. Reads /\ \A p \in todo : p \in Paths /\ pass.seen[p] \in Stat
    BY TablesKeyed DEF Calmly, PlanTyped, Seen
  <1>2. 0 \in S
    <2>1. RemovedStand(T0, todo) /\ KeepsPaths(T0, T0) /\ Placed(T0) /\ HandlesNew(T0)
      BY DEF Begins, RemovedStand, KeepsPaths
    <2>2. Waiting(T0, Later(todo, rest, 0))
      <3>1. Later(todo, rest, 0) \subseteq Paths
        BY <1>1 DEF Later
      <3> QED BY <3>1 DEF Begins, Waiting
    <2>3. g[0] = T0 /\ 0 \in 0 .. LastPath
      BY Bounds DEF Bucket
    <2> QED BY <2>1, <2>2, <2>3 DEF Follows
  <1>3. ASSUME NEW n \in Paths, n - 1 \in S
        PROVE  n \in S
    <2>1. PICK T, U : T = g[n - 1] /\ U = g[n]
      OBVIOUS
    <2>2. /\ Keyed(T) /\ Grown(T0, T, n - 1) /\ Follows(T0, T, todo, Later(todo, rest, n - 1))
          /\ Cardinality(Later(todo, rest, n - 1)) <= Cardinality(Spare(T))
          /\ n - 1 \in 0 .. LastPath /\ n \in 0 .. LastPath
      BY <1>3, <2>1 DEF Paths
    <2>3. CASE n \in todo
      <3>1. Later(todo, rest, n) = Later(todo, rest, n - 1) \ {n} /\ n \in Later(todo, rest, n - 1)
        <4>1. \A p \in todo : (p > n - 1) <=> (p > n \/ p = n)
          <5>1. n \in Int /\ \A p \in todo : p \in Int
            BY <1>1 DEF Paths
          <5> QED BY <5>1
        <4>2. ~(n > n) /\ n \notin rest
          BY <2>3 DEF Paths
        <4> QED BY <2>3, <4>1, <4>2 DEF Later
      <3>2. Later(todo, rest, n - 1) \in SUBSET Paths /\ Spare(T) \in SUBSET Id
        BY <1>1 DEF Later, Spare
      <3>3. Spare(T) # {}
        BY <2>2, <3>1, <3>2, OneLeft
      <3>4. Writes(T0, T, U, n)
        BY <2>1, <2>3 DEF Bucket
      <3>5. step = "sync" /\ ~TwinsReturn /\ ~UnreadAttachment /\ Ready(T0)
        BY DEF Calmly, Begins, Untouched, Ready
      <3>6. PICK ahead : ahead = Later(todo, rest, n - 1)
        OBVIOUS
      <3>7. Follows(T0, U, todo, ahead \ {n})
        <4>1. /\ Follows(T0, T, todo, ahead) /\ n \in ahead /\ n \in DOMAIN pass.seen
              /\ pass.seen[n] \in Stat
          BY <1>1, <2>2, <2>3, <3>1, <3>6
        <4> QED BY <1>1, <2>2, <2>3, <3>3, <3>4, <3>5, <4>1, WriteFollows
      <3> QED BY <2>1, <2>2, <3>1, <3>6, <3>7
    <2>4. CASE n \notin todo
      <3>1. U = T
        BY <2>1, <2>4 DEF Bucket
      <3>2. Later(todo, rest, n) = Later(todo, rest, n - 1)
        <4>1. \A p \in todo : p > n - 1 <=> p > n
          BY <1>1, <2>4 DEF Paths
        <4> QED BY <4>1 DEF Later
      <3> QED BY <2>1, <2>2, <3>1, <3>2
    <2> QED BY <2>3, <2>4
  <1> HIDE DEF S
  <1>4. \A n \in 0 .. LastPath : n \in S
    BY <1>2, <1>3, UpToEach
  <1> QED BY <1>4 DEF S

LEMMA NothingLater ==
    ASSUME NEW todo \in SUBSET Paths, NEW rest
    PROVE  Later(todo, rest, LastPath) = rest
  <1>1. \A p \in todo : ~(p > LastPath)
    <2>1. \A p \in todo : p \in 1 .. LastPath
      BY DEF Paths
    <2> QED BY <2>1, Bounds
  <1> QED BY <1>1 DEF Later

LEMMA BucketsPlace ==
    ASSUME Calmly, NEW g, NEW h, NEW k, Course(g, h, k), Begins(AfterMoved)
    PROVE  /\ \A n \in 0 .. LastPath : Placed(h[n]) /\ Placed(k[n])
           /\ KeepsPaths(AfterMoved, AfterChanged) /\ KeepsPaths(AfterChanged, AfterNew)
  <1>1. PICK M, C, N : M = AfterMoved /\ C = AfterChanged /\ N = AfterNew
    OBVIOUS
  <1>2. /\ Bucket(M, h, pass.changed) /\ h[LastPath] = C
        /\ Bucket(C, k, pass.new) /\ k[LastPath] = N
        /\ \A n \in 0 .. LastPath :
              /\ Keyed(h[n]) /\ Grown(M, h[n], n)
              /\ Cardinality(Later(pass.changed, pass.new, n)) <= Cardinality(Spare(h[n]))
              /\ Keyed(k[n]) /\ Grown(C, k[n], n)
              /\ Cardinality(Later(pass.new, {}, n)) <= Cardinality(Spare(k[n]))
    BY <1>1 DEF Course
  <1>3. /\ pass.changed \in SUBSET DOMAIN pass.seen /\ pass.new \in SUBSET DOMAIN pass.seen
        /\ pass.changed \in SUBSET Paths /\ pass.new \in SUBSET Paths
        /\ pass.changed \cap pass.new = {}
    BY DEF Calmly, PlanTyped, Seen
  <1>4. Keyed(M) /\ Keyed(C)
    <2>1. h[0] = M /\ 0 \in 0 .. LastPath /\ LastPath \in 0 .. LastPath
      BY <1>2, Bounds DEF Bucket
    <2> QED BY <1>2, <2>1
  <1>5. /\ Follows(M, C, pass.changed, pass.new)
        /\ \A n \in 0 .. LastPath : Placed(h[n])
    <2>1. Begins(M)
      BY <1>1
    <2>2. \A n \in 0 .. LastPath : Follows(M, h[n], pass.changed, Later(pass.changed, pass.new, n))
      BY <1>2, <1>3, <1>4, <2>1, BucketFollows
    <2>3. LastPath \in 0 .. LastPath
      BY Bounds
    <2>4. \A n \in 0 .. LastPath : Placed(h[n])
      BY <2>2 DEF Follows
    <2> QED BY <1>2, <1>3, <2>2, <2>3, <2>4, NothingLater
  <1>6. Begins(C)
    <2>1. Placed(C) /\ HandlesNew(C)
      BY <1>5 DEF Follows
    <2>2. Waiting(C, Paths)
      BY <1>5 DEF Follows, Waiting
    <2>3. ASSUME NEW b \in Id \cap pass.removed, Stands(C, b)
          PROVE  Stands(Tables, b) /\ Untouched(C, b)
      <3>1. Stands(Tables, b) /\ (Untouched(C, b) \/ Rejoined(C, b, pass.changed))
        BY <1>5, <2>3 DEF Follows, RemovedStand
      <3>2. ~Rejoined(C, b, pass.changed)
        BY <1>3 DEF Rejoined
      <3> QED BY <3>1, <3>2
    <2> QED BY <2>1, <2>2, <2>3 DEF Begins
  <1>7. \A n \in 0 .. LastPath : Follows(C, k[n], pass.new, Later(pass.new, {}, n))
    <2>1. {} \in SUBSET Paths /\ pass.new \cap {} = {}
      OBVIOUS
    <2> QED BY <1>2, <1>3, <1>4, <1>6, <2>1, BucketFollows
  <1>8. KeepsPaths(M, C) /\ KeepsPaths(C, N)
    <2>1. LastPath \in 0 .. LastPath
      BY Bounds
    <2> QED BY <1>2, <1>5, <1>7, <2>1 DEF Follows
  <1> QED BY <1>1, <1>5, <1>7, <1>8 DEF Follows

-----------------------------------------------------------------------------
(* One file, one book, through the moves.                                  *)

(* What a plan keeps true until it is written: a removed book is not where *)
(* a file was seen, nor is the old path of a moved one, and a file moves   *)
(* to a path of its format that no bucket writes.                          *)
PlanWell ==
    /\ \A b \in live \cap pass.removed : books[b].key \notin DOMAIN pass.seen
    /\ \A m \in pass.moved : m.to \in DOMAIN pass.seen /\ m.to \notin pass.new \cup pass.changed
    /\ \A m \in pass.moved :
          m.uuid \in live => /\ m.uuid \notin pass.removed
                             /\ books[m.uuid].key \notin DOMAIN pass.seen
                             /\ FormatOf[books[m.uuid].key] = FormatOf[m.to]
    /\ \A m \in pass.moved, a \in ledger :
          a.uuid = m.uuid => a.key \notin DOMAIN pass.seen /\ FormatOf[a.key] = FormatOf[m.to]

(* Where the moves up to the path n have taken a key.                      *)
Went(uuid, from, to, n) == to = from \/ \E m \in pass.moved : m.uuid = uuid /\ m.to = to /\ to <= n

BooksWent(T, n) ==
    \A b \in Id : /\ Stands(T, b) <=> b \in live
                  /\ Stands(T, b) => /\ T.books[b].work = books[b].work
                                     /\ Went(b, books[b].key, T.books[b].key, n)

LedgerWent(T, n) ==
    \A a \in T.ledger : \E c \in ledger :
        /\ c.uuid = a.uuid /\ c.book = a.book /\ c.format = a.format
        /\ Went(a.uuid, c.key, a.key, n)

RemovedBacked(T) == \A f \in T.files : f.book \in pass.removed => InLedger(T, f)

Moving(T, n) == Placed(T) /\ BooksWent(T, n) /\ LedgerWent(T, n) /\ RemovedBacked(T)

LEMMA WentOn ==
    ASSUME NEW uuid, NEW from, NEW to \in Int, NEW n \in Paths, Went(uuid, from, to, n - 1)
    PROVE  Went(uuid, from, to, n) /\ (to = from \/ to # n)
  <1>1. n \in Int
    BY DEF Paths
  <1>2. CASE to = from
    BY <1>2 DEF Went
  <1>3. CASE \E m \in pass.moved : m.uuid = uuid /\ m.to = to /\ to <= n - 1
    <2>1. to <= n /\ to # n
      BY <1>1, <1>3
    <2> QED BY <1>3, <2>1 DEF Went
  <1> QED BY <1>2, <1>3 DEF Went

(* The rows a move finds and those it leaves. *)
Relocates(T, U, b, from, to) ==
    \A f \in U.files : \E e \in T.files :
        /\ f = IF e.book = b /\ e.key = from THEN [e EXCEPT !.key = to] ELSE e
        /\ f.book = e.book
        /\ f.key = IF e.book = b /\ e.key = from THEN to ELSE e.key

LEMMA RowsRelocated ==
    ASSUME NEW T \in Db, NEW U, NEW b, NEW from, NEW to,
           U.files = relocate_file_row(T.files, b, from, to)
    PROVE  Relocates(T, U, b, from, to)
  <1>1. SUFFICES ASSUME NEW f \in U.files
                 PROVE  \E e \in T.files :
                          /\ f = IF e.book = b /\ e.key = from THEN [e EXCEPT !.key = to] ELSE e
                          /\ f.book = e.book
                          /\ f.key = IF e.book = b /\ e.key = from THEN to ELSE e.key
    BY DEF Relocates
  <1>2. PICK e \in T.files : f = IF e.book = b /\ e.key = from THEN [e EXCEPT !.key = to] ELSE e
    BY <1>1 DEF relocate_file_row
  <1> QED BY <1>2 DEF Db, Row

LEMMA SlotsRelocated ==
    ASSUME NEW T \in Db, OneSlot(T), NEW U, NEW b, NEW from, NEW to,
           U.files = relocate_file_row(T.files, b, from, to), FormatOf[from] = FormatOf[to]
    PROVE  OneSlot(U)
  <1>1. Relocates(T, U, b, from, to)
    BY RowsRelocated
  <1>2. ASSUME NEW f \in U.files, NEW g \in U.files,
               f.book = g.book, FormatOf[f.key] = FormatOf[g.key]
        PROVE  f = g
    <2>1. PICK d \in T.files : /\ f = IF d.book = b /\ d.key = from THEN [d EXCEPT !.key = to] ELSE d
                               /\ f.book = d.book
                               /\ f.key = IF d.book = b /\ d.key = from THEN to ELSE d.key
      BY <1>1 DEF Relocates
    <2>2. PICK e \in T.files : /\ g = IF e.book = b /\ e.key = from THEN [e EXCEPT !.key = to] ELSE e
                               /\ g.book = e.book
                               /\ g.key = IF e.book = b /\ e.key = from THEN to ELSE e.key
      BY <1>1 DEF Relocates
    <2>3. FormatOf[d.key] = FormatOf[f.key] /\ FormatOf[e.key] = FormatOf[g.key]
      BY <2>1, <2>2
    <2>4. d = e
      BY <1>2, <2>1, <2>2, <2>3 DEF OneSlot
    <2> QED BY <2>1, <2>2, <2>4
  <1> QED BY <1>2 DEF OneSlot

(* A book moves with its own file.                                         *)
LEMMA MovesBookOn ==
    ASSUME PlanWell, ~KeyTakenOver, NEW T, Keyed(T), NEW n \in Paths, Moving(T, n - 1),
           NEW m \in pass.moved, m.to = n, NEW U, U \in Db, MovesBook(T, U, m)
    PROVE  Moving(U, n)
  <1>1. PICK u, k : u = m.uuid /\ k = T.books[u].key
    OBVIOUS
  <1>2. /\ u \in Id /\ Stands(T, u) /\ Stands(U, u)
        /\ \A c \in Id \ {u} : U.books[c] = T.books[c]
        /\ U.books[u].key = n /\ U.books[u].work = T.books[u].work
        /\ U.files = relocate_file_row(T.files, u, k, n)
        /\ U.ledger = T.ledger
    BY <1>1 DEF MovesBook
  <1>3. /\ HasHome(T) /\ Apart(T) /\ OneEntry(T) /\ Handles(T) /\ OneSlot(T) /\ OneBacking(T)
        /\ BooksWent(T, n - 1) /\ LedgerWent(T, n - 1) /\ RemovedBacked(T) /\ T \in Db
    BY DEF Moving, Placed, Keyed
  <1>4. \A c \in Id : Stands(U, c) <=> Stands(T, c)
    BY <1>2 DEF Stands
  <1>5. /\ u \in live /\ u \notin pass.removed /\ FormatOf[k] = FormatOf[n]
    <2>1. u \in live /\ Went(u, books[u].key, k, n - 1)
      BY <1>1, <1>2, <1>3 DEF BooksWent
    <2>2. \A x \in pass.moved : x.uuid = u => FormatOf[books[u].key] = FormatOf[x.to]
      BY <2>1 DEF PlanWell
    <2>3. FormatOf[k] = FormatOf[books[u].key]
      BY <2>1, <2>2 DEF Went
    <2> QED BY <1>1, <2>1, <2>2, <2>3 DEF PlanWell
  <1>6. \A a \in T.ledger : a.key # n
    <2>1. SUFFICES ASSUME NEW a \in T.ledger, a.key = n PROVE FALSE
      OBVIOUS
    <2>2. PICK c \in ledger : Went(a.uuid, c.key, a.key, n - 1)
      BY <1>3 DEF LedgerWent
    <2>3. n \in Int
      BY DEF Paths
    <2>4. c.key = n
      BY <2>1, <2>2, <2>3, WentOn
    <2> QED BY <1>1, <1>5, <2>4 DEF KeyTakenOver
  <1>7. \A f \in U.files : \E e \in T.files :
            /\ f.book = e.book /\ f.key = IF e.book = u /\ e.key = k THEN n ELSE e.key
            /\ (e.book = u /\ e.key = k) \/ f = e
    <2>1. Relocates(T, U, u, k, n)
      BY <1>2, <1>3, RowsRelocated
    <2> QED BY <2>1 DEF Relocates
  <1>8. HasHome(U)
    <2>1. SUFFICES ASSUME NEW f \in U.files
                   PROVE  U.books[f.book].key = f.key \/ InLedger(U, f)
      BY DEF HasHome
    <2>2. PICK e \in T.files :
            /\ f.book = e.book /\ f.key = IF e.book = u /\ e.key = k THEN n ELSE e.key
            /\ (e.book = u /\ e.key = k) \/ f = e
      BY <1>7
    <2>3. T.books[e.book].key = e.key \/ InLedger(T, e)
      BY <1>3 DEF HasHome
    <2>4. e.book \in Id
      BY <1>3 DEF Db, Row
    <2>5. CASE e.book = u /\ e.key = k
      BY <1>2, <2>2, <2>5
    <2>6. CASE ~(e.book = u /\ e.key = k)
      <3>1. f = e
        BY <2>2, <2>6
      <3>2. CASE InLedger(T, e)
        BY <1>2, <3>1, <3>2 DEF InLedger
      <3>3. CASE T.books[e.book].key = e.key
        BY <1>1, <1>2, <2>4, <2>6, <3>1, <3>3
      <3> QED BY <2>3, <3>2, <3>3
    <2> QED BY <2>5, <2>6
  <1>9. Apart(U)
    BY <1>2, <1>3, <1>4, <1>6 DEF Apart
  <1>10. OneEntry(U) /\ Handles(U)
    BY <1>2, <1>3, <1>4 DEF OneEntry, Handles
  <1>11. OneSlot(U)
    BY <1>2, <1>3, <1>5, SlotsRelocated
  <1>12. OneBacking(U)
    <2>1. SUFFICES ASSUME NEW f \in U.files, NEW a \in T.ledger, NEW c \in T.ledger,
                          a.book = f.book, a.key = f.key, c.book = f.book, c.format = a.format
                   PROVE  c = a
      BY <1>2 DEF OneBacking
    <2>2. f \in T.files
      BY <1>6, <1>7, <2>1
    <2> QED BY <1>3, <2>1, <2>2 DEF OneBacking
  <1>13. BooksWent(U, n)
    <2>1. SUFFICES ASSUME NEW c \in Id
                   PROVE  /\ Stands(U, c) <=> c \in live
                          /\ Stands(U, c) => /\ U.books[c].work = books[c].work
                                             /\ Went(c, books[c].key, U.books[c].key, n)
      BY DEF BooksWent
    <2>2. /\ Stands(T, c) <=> c \in live
          /\ Stands(T, c) => /\ T.books[c].work = books[c].work
                             /\ Went(c, books[c].key, T.books[c].key, n - 1)
      BY <1>3 DEF BooksWent
    <2>3. CASE c = u
      <3>1. n <= n
        BY DEF Paths
      <3>2. Went(u, books[u].key, n, n)
        BY <1>1, <3>1 DEF Went
      <3> QED BY <1>2, <1>4, <2>2, <2>3, <3>2
    <2>4. CASE c # u
      <3>1. Stands(T, c) => T.books[c].key \in Int
        BY <1>3, StandsIs DEF Paths
      <3> QED BY <1>2, <1>4, <2>2, <2>4, <3>1, WentOn
    <2> QED BY <2>3, <2>4
  <1>14. LedgerWent(U, n)
    <2>1. \A a \in T.ledger : a.key \in Int
      BY <1>3 DEF Db, Attachment, Paths
    <2> QED BY <1>2, <1>3, <2>1, WentOn DEF LedgerWent
  <1>15. RemovedBacked(U)
    <2>1. SUFFICES ASSUME NEW f \in U.files, f.book \in pass.removed PROVE InLedger(T, f)
      BY <1>2 DEF RemovedBacked, InLedger
    <2>2. f \in T.files
      BY <1>5, <1>7, <2>1
    <2> QED BY <1>3, <2>1, <2>2 DEF RemovedBacked
  <1> QED BY <1>8, <1>9, <1>10, <1>11, <1>12, <1>13, <1>14, <1>15 DEF Moving, Placed

(* An attached file moves with its ledger row.                             *)
LEMMA MovesAttachedOn ==
    ASSUME PlanWell, ~KeyTakenOver, NEW T, Keyed(T), NEW n \in Paths, Moving(T, n - 1),
           NEW m \in pass.moved, m.to = n, NEW U, U \in Db, MovesAttached(T, U, m)
    PROVE  Moving(U, n)
  <1>1. PICK a \in T.ledger :
          /\ a.uuid = m.uuid /\ m.uuid \notin BooksOf(T)
          /\ \A c \in T.ledger : c.key = m.to => c.uuid = a.uuid
          /\ U.books = T.books
          /\ U.files = relocate_file_row(T.files, a.book, a.key, m.to)
          /\ U.ledger = (T.ledger \ {a}) \cup {Entry(a.uuid, a.book, a.format, m.to)}
    BY DEF MovesAttached
  <1>2. /\ HasHome(T) /\ Apart(T) /\ OneEntry(T) /\ Handles(T) /\ OneSlot(T) /\ OneBacking(T)
        /\ BooksWent(T, n - 1) /\ LedgerWent(T, n - 1) /\ RemovedBacked(T) /\ T \in Db
        /\ \A c, d \in T.ledger : c.uuid = d.uuid => c = d
    BY DEF Moving, Placed, Keyed
  <1>3. PICK e : e = Entry(a.uuid, a.book, a.format, n)
    OBVIOUS
  <1>4. /\ e.uuid = a.uuid /\ e.book = a.book /\ e.format = a.format /\ e.key = n
        /\ e \in U.ledger
        /\ \A c \in U.ledger : c = e \/ (c \in T.ledger /\ c # a /\ c.key # n)
        /\ \A c \in T.ledger : c # a => c \in U.ledger
    <2>1. e.uuid = a.uuid /\ e.book = a.book /\ e.format = a.format /\ e.key = n
      BY <1>3 DEF Entry
    <2>2. \A c \in T.ledger : c.key = n => c = a
      BY <1>1, <1>2
    <2> QED BY <1>1, <1>3, <2>1, <2>2
  <1>5. \A b \in Id : Stands(U, b) <=> Stands(T, b)
    BY <1>1 DEF Stands
  <1>6. PICK c0 \in ledger : /\ c0.uuid = a.uuid /\ c0.book = a.book /\ c0.format = a.format
                             /\ Went(a.uuid, c0.key, a.key, n - 1)
    BY <1>2 DEF LedgerWent
  <1>7. \A b \in Id : Stands(T, b) => T.books[b].key # n
    <2>1. SUFFICES ASSUME NEW b \in Id, Stands(T, b), T.books[b].key = n PROVE FALSE
      OBVIOUS
    <2>2. b \in live /\ Went(b, books[b].key, n, n - 1)
      BY <1>2, <2>1 DEF BooksWent
    <2>3. n \in Int
      BY DEF Paths
    <2>4. books[b].key = n
      BY <2>2, <2>3, WentOn
    <2> QED BY <1>1, <1>6, <2>2, <2>4 DEF KeyTakenOver
  <1>8. FormatOf[a.key] = FormatOf[n] /\ a.format = FormatOf[n]
    <2>1. \A x \in pass.moved : x.uuid = a.uuid => FormatOf[c0.key] = FormatOf[x.to]
      BY <1>6 DEF PlanWell
    <2>2. FormatOf[a.key] = FormatOf[c0.key]
      BY <1>6, <2>1 DEF Went
    <2>3. FormatOf[a.key] = FormatOf[n]
      BY <1>1, <2>1, <2>2
    <2> QED BY <1>2, <2>3 DEF Handles
  <1>9. \A f \in U.files : \E d \in T.files :
            /\ f.book = d.book
            /\ \/ d.book = a.book /\ d.key = a.key /\ f.key = n
               \/ ~(d.book = a.book /\ d.key = a.key) /\ f = d
    <2>1. Relocates(T, U, a.book, a.key, n)
      BY <1>1, <1>2, RowsRelocated
    <2> QED BY <2>1 DEF Relocates
  <1>10. \A f \in U.files, d \in T.files :
            /\ f.book = d.book
            /\ \/ d.book = a.book /\ d.key = a.key /\ f.key = n
               \/ ~(d.book = a.book /\ d.key = a.key) /\ f = d
            /\ InLedger(T, d)
            => InLedger(U, f)
    BY <1>4 DEF InLedger
  <1>11. HasHome(U)
    <2>1. SUFFICES ASSUME NEW f \in U.files
                   PROVE  U.books[f.book].key = f.key \/ InLedger(U, f)
      BY DEF HasHome
    <2>2. PICK d \in T.files :
            /\ f.book = d.book
            /\ \/ d.book = a.book /\ d.key = a.key /\ f.key = n
               \/ ~(d.book = a.book /\ d.key = a.key) /\ f = d
      BY <1>9
    <2>3. CASE d.book = a.book /\ d.key = a.key /\ f.key = n
      BY <1>4, <2>2, <2>3 DEF InLedger
    <2>4. CASE f = d
      <3>1. T.books[d.book].key = d.key \/ InLedger(T, d)
        BY <1>2 DEF HasHome
      <3>2. InLedger(T, d) => InLedger(U, f)
        BY <1>10, <2>2
      <3> QED BY <1>1, <2>4, <3>1, <3>2
    <2> QED BY <2>2, <2>3, <2>4
  <1>12. Apart(U)
    BY <1>1, <1>2, <1>4, <1>5, <1>7 DEF Apart
  <1>13. OneEntry(U)
    BY <1>2, <1>4 DEF OneEntry
  <1>14. Handles(U)
    <2>1. m.uuid \in Id => ~Stands(T, m.uuid)
      BY <1>1, <1>2, StandsIs
    <2> QED BY <1>1, <1>2, <1>4, <1>5, <1>8, <2>1 DEF Handles
  <1>15. OneSlot(U)
    <2>1. PICK b, from : b = a.book /\ from = a.key
      OBVIOUS
    <2>2. U.files = relocate_file_row(T.files, b, from, n)
      BY <1>1, <2>1
    <2>3. FormatOf[from] = FormatOf[n]
      BY <1>8, <2>1
    <2> QED BY <1>2, <2>2, <2>3, SlotsRelocated
  <1>16. OneBacking(U)
    <2>1. SUFFICES ASSUME NEW f \in U.files, NEW x \in U.ledger, NEW y \in U.ledger,
                          x.book = f.book, x.key = f.key, y.book = f.book, y.format = x.format
                   PROVE  y = x
      BY DEF OneBacking
    <2>2. PICK d \in T.files :
            /\ f.book = d.book
            /\ \/ d.book = a.book /\ d.key = a.key /\ f.key = n
               \/ ~(d.book = a.book /\ d.key = a.key) /\ f = d
      BY <1>9
    <2>3. CASE x = e
      <3>1. d.book = a.book /\ d.key = a.key
        <4>1. SUFFICES ASSUME f = d, d.key = n PROVE d.key = a.key
          BY <1>4, <2>1, <2>2, <2>3
        <4>2. d.book \in Id /\ Stands(T, d.book)
          BY DEF Keyed, Db, Row
        <4>3. InLedger(T, d)
          BY <1>2, <1>7, <4>1, <4>2 DEF HasHome
        <4> QED BY <1>1, <1>2, <4>1, <4>3 DEF InLedger
      <3>2. CASE y # e
        <4>1. y \in T.ledger /\ y # a
          BY <1>4, <3>2
        <4> QED BY <1>2, <1>4, <2>1, <2>3, <3>1, <4>1 DEF OneBacking
      <3> QED BY <2>3, <3>2
    <2>4. CASE x # e
      <3>1. x \in T.ledger /\ x # a /\ x.key # n
        BY <1>4, <2>4
      <3>2. f = d
        BY <2>1, <2>2, <3>1
      <3>3. CASE y = e
        <4>1. a = x
          BY <1>2, <1>4, <2>1, <3>1, <3>2, <3>3 DEF OneBacking
        <4> QED BY <3>1, <4>1
      <3>4. CASE y # e
        <4>1. y \in T.ledger
          BY <1>4, <3>4
        <4> QED BY <1>2, <2>1, <3>1, <3>2, <4>1 DEF OneBacking
      <3> QED BY <3>3, <3>4
    <2> QED BY <2>3, <2>4
  <1>17. BooksWent(U, n)
    <2>1. SUFFICES ASSUME NEW b \in Id
                   PROVE  /\ Stands(U, b) <=> b \in live
                          /\ Stands(U, b) => /\ U.books[b].work = books[b].work
                                             /\ Went(b, books[b].key, U.books[b].key, n)
      BY DEF BooksWent
    <2>2. Stands(T, b) => T.books[b].key \in Int
      BY <1>2, StandsIs DEF Paths
    <2> QED BY <1>1, <1>2, <1>5, <2>2, WentOn DEF BooksWent
  <1>18. LedgerWent(U, n)
    <2>1. SUFFICES ASSUME NEW x \in U.ledger
                   PROVE  \E c \in ledger : /\ c.uuid = x.uuid /\ c.book = x.book /\ c.format = x.format
                                            /\ Went(x.uuid, c.key, x.key, n)
      BY DEF LedgerWent
    <2>2. CASE x = e
      <3>1. n <= n
        BY DEF Paths
      <3>2. Went(a.uuid, c0.key, n, n)
        BY <1>1, <3>1 DEF Went
      <3> QED BY <1>4, <1>6, <2>2, <3>2
    <2>3. CASE x # e
      <3>1. x \in T.ledger /\ x.key \in Int
        BY <1>2, <1>4, <2>3 DEF Db, Attachment, Paths
      <3>2. PICK c \in ledger : /\ c.uuid = x.uuid /\ c.book = x.book /\ c.format = x.format
                                /\ Went(x.uuid, c.key, x.key, n - 1)
        BY <1>2, <3>1 DEF LedgerWent
      <3> QED BY <3>1, <3>2, WentOn
    <2> QED BY <2>2, <2>3
  <1>19. RemovedBacked(U)
    <2>1. SUFFICES ASSUME NEW f \in U.files, f.book \in pass.removed PROVE InLedger(U, f)
      BY DEF RemovedBacked
    <2>2. PICK d \in T.files :
            /\ f.book = d.book
            /\ \/ d.book = a.book /\ d.key = a.key /\ f.key = n
               \/ ~(d.book = a.book /\ d.key = a.key) /\ f = d
      BY <1>9
    <2>3. InLedger(T, d)
      BY <1>2, <2>1, <2>2 DEF RemovedBacked
    <2> QED BY <1>10, <2>2, <2>3
  <1> QED BY <1>11, <1>12, <1>13, <1>14, <1>15, <1>16, <1>17, <1>18, <1>19 DEF Moving, Placed

(* Fewer rows and books, of the same paths, the backing of a row with it.  *)
Fewer(T, U) ==
    /\ U.files \subseteq T.files /\ U.ledger \subseteq T.ledger
    /\ \A b \in Id : Stands(U, b) => Stands(T, b) /\ U.books[b].key = T.books[b].key
    /\ \A f \in U.files : /\ f.book \in Id /\ Stands(U, f.book)
                          /\ InLedger(T, f) => InLedger(U, f)

LEMMA FewerPlaced ==
    ASSUME NEW T, NEW U, Placed(T), Fewer(T, U)
    PROVE  Placed(U)
  <1>1. HasHome(U)
    <2>1. SUFFICES ASSUME NEW f \in U.files
                   PROVE  U.books[f.book].key = f.key \/ InLedger(U, f)
      BY DEF HasHome
    <2>2. T.books[f.book].key = f.key \/ InLedger(T, f)
      BY DEF Fewer, Placed, HasHome
    <2> QED BY <2>2 DEF Fewer
  <1>2. Apart(U)
    BY DEF Fewer, Placed, Apart
  <1>3. OneEntry(U) /\ Handles(U)
    BY DEF Fewer, Placed, OneEntry, Handles
  <1>4. OneSlot(U) /\ OneBacking(U)
    BY DEF Fewer, Placed, OneSlot, OneBacking
  <1> QED BY <1>1, <1>2, <1>3, <1>4 DEF Placed

LEMMA MovingBegins ==
    ASSUME TypeOK, Placed(Tables)
    PROVE  Moving(AfterRemoved, 0)
  <1>1. PICK U : U = AfterRemoved
    OBVIOUS
  <1>2. /\ Keyed(U) /\ U \in Db /\ SameBooks(Tables, U)
        /\ U.ledger = {m \in ledger : m.uuid \notin pass.removed}
        /\ U.files =
             {f \in files : /\ f.book \in pass.removed \cap live => Backed(Tables, f)
                            /\ ~\E m \in ledger :
                                  m.uuid \in pass.removed /\ m.book = f.book /\ m.key = f.key}
    BY <1>1, FirstStage DEF Keyed
  <1>3. Tables.files = files /\ Tables.ledger = ledger /\ Tables.books = books
    BY DEF Tables
  <1>4. \A b \in Id : Stands(Tables, b) <=> b \in live
    BY <1>3 DEF Stands, live
  <1>5. \A f \in U.files, m \in ledger : m.book = f.book /\ m.key = f.key => m \in U.ledger
    BY <1>2
  <1>6. \A f \in U.files : f.book \in Id /\ Stands(U, f.book)
    BY <1>2 DEF Keyed, Db, Row
  <1>7. Placed(U)
    <2>1. \A f \in U.files : InLedger(Tables, f) => InLedger(U, f)
      BY <1>3, <1>5 DEF InLedger
    <2>2. Fewer(Tables, U)
      BY <1>2, <1>3, <1>6, <2>1 DEF Fewer, SameBooks
    <2> QED BY <2>2, FewerPlaced
  <1>8. BooksWent(U, 0)
    <2>1. \A b \in Id : /\ Stands(U, b) <=> b \in live
                        /\ Stands(U, b) => /\ U.books[b].key = books[b].key
                                           /\ U.books[b].work = books[b].work
      BY <1>2, <1>3, <1>4 DEF SameBooks
    <2> QED BY <2>1 DEF BooksWent, Went
  <1>9. LedgerWent(U, 0)
    BY <1>2 DEF LedgerWent, Went
  <1>10. RemovedBacked(U)
    <2>1. SUFFICES ASSUME NEW f \in U.files, f.book \in pass.removed PROVE InLedger(U, f)
      BY DEF RemovedBacked
    <2>2. f.book \in live
      BY <1>2, <1>4, <1>6, <2>1 DEF SameBooks
    <2>3. Backed(Tables, f)
      BY <1>2, <2>1, <2>2
    <2> QED BY <1>3, <1>5, <2>3 DEF Backed, InLedger
  <1> QED BY <1>1, <1>7, <1>8, <1>9, <1>10 DEF Moving

(* A stage that moves nothing to n. *)
LEMMA MovesNoneOn ==
    ASSUME NEW T, Keyed(T), NEW n \in Paths, Moving(T, n - 1)
    PROVE  Moving(T, n)
  <1>1. T \in Db
    BY DEF Keyed
  <1>2. \A a \in T.ledger : a.key \in Int
    BY <1>1 DEF Db, Attachment, Paths
  <1>3. \A b \in Id : Stands(T, b) => T.books[b].key \in Int
    BY <1>1, StandsIs DEF Paths
  <1>4. BooksWent(T, n)
    <2>1. BooksWent(T, n - 1)
      BY DEF Moving
    <2>2. SUFFICES ASSUME NEW b \in Id, Stands(T, b)
                   PROVE  Went(b, books[b].key, T.books[b].key, n)
      BY <2>1 DEF BooksWent
    <2>3. Went(b, books[b].key, T.books[b].key, n - 1)
      BY <2>1, <2>2 DEF BooksWent
    <2> QED BY <1>3, <2>2, <2>3, WentOn
  <1>5. LedgerWent(T, n)
    <2>1. SUFFICES ASSUME NEW a \in T.ledger
                   PROVE  \E c \in ledger : /\ c.uuid = a.uuid /\ c.book = a.book /\ c.format = a.format
                                            /\ Went(a.uuid, c.key, a.key, n)
      BY DEF LedgerWent
    <2>2. PICK c \in ledger : /\ c.uuid = a.uuid /\ c.book = a.book /\ c.format = a.format
                              /\ Went(a.uuid, c.key, a.key, n - 1)
      BY DEF Moving, LedgerWent
    <2> QED BY <1>2, <2>2, WentOn
  <1> QED BY <1>4, <1>5 DEF Moving

LEMMA MovedFollows ==
    ASSUME TypeOK, PlanTyped, PlanWell, ~KeyTakenOver, Placed(Tables),
           NEW g, NEW h, NEW k, Course(g, h, k)
    PROVE  \A n \in 0 .. LastPath : Moving(g[n], n)
  <1> DEFINE S == {n \in 0 .. LastPath : Moving(g[n], n)}
  <1>1. 0 \in S
    <2>1. g[0] = AfterRemoved /\ 0 \in 0 .. LastPath
      BY Bounds DEF Course, MovedStage
    <2> QED BY <2>1, MovingBegins
  <1>2. ASSUME NEW n \in Paths, n - 1 \in S
        PROVE  n \in S
    <2>1. PICK T, U : T = g[n - 1] /\ U = g[n]
      OBVIOUS
    <2>2. n - 1 \in 0 .. LastPath /\ n \in 0 .. LastPath
      BY Bounds DEF Paths
    <2>3. Keyed(T) /\ Keyed(U) /\ T \in Db /\ U \in Db /\ Moving(T, n - 1)
      BY <1>2, <2>1, <2>2 DEF Course, Keyed
    <2>4. CASE U = T
      <3>1. Moving(T, n)
        BY <2>3, MovesNoneOn
      <3> QED BY <2>1, <2>2, <2>4, <3>1
    <2>5. CASE \E m \in pass.moved : m.to = n /\ U = relocate_one(T, m)
      <3>1. PICK m \in pass.moved : m.to = n /\ U = relocate_one(T, m)
        BY <2>5
      <3>2. U = T \/ MovesBook(T, U, m) \/ MovesAttached(T, U, m)
        BY <2>3, <3>1, RelocateDoes
      <3>3. CASE U = T
        BY <2>4, <3>3
      <3>4. CASE MovesBook(T, U, m)
        <4>1. Moving(U, n)
          BY <2>3, <3>1, <3>4, MovesBookOn
        <4> QED BY <2>1, <2>2, <4>1
      <3>5. CASE MovesAttached(T, U, m)
        <4>1. Moving(U, n)
          BY <2>3, <3>1, <3>5, MovesAttachedOn
        <4> QED BY <2>1, <2>2, <4>1
      <3> QED BY <3>2, <3>3, <3>4, <3>5
    <2>6. U = T \/ \E m \in pass.moved : m.to = n /\ U = relocate_one(T, m)
      <3>1. MovedStage(AfterRemoved, g)
        BY DEF Course
      <3> QED BY <2>1, <3>1 DEF MovedStage
    <2> QED BY <2>4, <2>5, <2>6
  <1> HIDE DEF S
  <1>3. \A n \in 0 .. LastPath : n \in S
    BY <1>1, <1>2, UpToEach
  <1> QED BY <1>3 DEF S

LEMMA MovedBegins ==
    ASSUME Calmly, PlanWell, NEW M, Keyed(M), Moving(M, LastPath)
    PROVE  Begins(M)
  <1>1. PlanTyped /\ ~HandleReused /\ M \in Db
    BY DEF Calmly, Keyed
  <1>2. pass.new \subseteq DOMAIN pass.seen
    BY <1>1 DEF PlanTyped
  <1>3. HandlesNew(M)
    <2>1. SUFFICES ASSUME NEW m \in M.ledger, NEW q \in pass.new \cap Paths, m.uuid = stable_uuid(q)
                   PROVE  m.key = q
      BY DEF HandlesNew
    <2>2. PICK c \in ledger : c.uuid = m.uuid /\ Went(m.uuid, c.key, m.key, LastPath)
      BY DEF Moving, LedgerWent
    <2>3. c.key = q
      BY <1>1, <2>1, <2>2 DEF HandleReused
    <2>4. \A x \in pass.moved : x.uuid # c.uuid
      BY <1>2, <2>1, <2>3 DEF PlanWell
    <2> QED BY <2>2, <2>3, <2>4 DEF Went
  <1>4. Waiting(M, Paths)
    <2>1. SUFFICES ASSUME NEW m \in M.ledger, m.key \in pass.new PROVE m \in ledger
      BY DEF Waiting
    <2>2. PICK c \in ledger : /\ c.uuid = m.uuid /\ c.book = m.book /\ c.format = m.format
                              /\ Went(m.uuid, c.key, m.key, LastPath)
      BY DEF Moving, LedgerWent
    <2>3. c.key = m.key
      BY <2>1, <2>2 DEF Went, PlanWell
    <2>4. m \in Attachment /\ c \in Attachment
      BY <1>1 DEF Db, Calmly, TypeOK
    <2>5. m = c
      BY <2>2, <2>3, <2>4 DEF Attachment
    <2> QED BY <2>5
  <1>5. ASSUME NEW b \in Id \cap pass.removed, Stands(M, b)
        PROVE  Stands(Tables, b) /\ Untouched(M, b)
    <2>1. b \in live /\ M.books[b].work = books[b].work /\ Went(b, books[b].key, M.books[b].key, LastPath)
      BY <1>5 DEF Moving, BooksWent
    <2>2. M.books[b].key = books[b].key
      BY <2>1 DEF Went, PlanWell
    <2>3. books[b].key \notin DOMAIN pass.seen
      BY <2>1 DEF PlanWell
    <2>4. \A f \in M.files : f.book = b => InLedger(M, f)
      BY DEF Moving, RemovedBacked
    <2>5. Stands(Tables, b)
      BY <2>1 DEF live, Stands, Tables
    <2> QED BY <2>1, <2>2, <2>3, <2>4, <2>5 DEF Untouched
  <1> QED BY <1>3, <1>4, <1>5 DEF Begins, Moving

(* The transaction of a scan keeps every file in one book.                 *)
LEMMA CoursePlaces ==
    ASSUME Calmly, PlanWell, Placed(Tables), NEW g, NEW h, NEW k, Course(g, h, k)
    PROVE  /\ \A n \in 0 .. LastPath : Moving(g[n], n) /\ Placed(h[n]) /\ Placed(k[n])
           /\ KeepsPaths(AfterMoved, AfterChanged) /\ KeepsPaths(AfterChanged, AfterNew)
  <1>1. TypeOK /\ PlanTyped /\ ~KeyTakenOver
    BY DEF Calmly
  <1>2. \A n \in 0 .. LastPath : Moving(g[n], n)
    BY <1>1, MovedFollows
  <1>3. Begins(AfterMoved)
    <2>1. LastPath \in 0 .. LastPath
      BY Bounds
    <2>2. Keyed(AfterMoved) /\ Moving(AfterMoved, LastPath)
      BY <1>2, <2>1 DEF Course
    <2> QED BY <2>2, MovedBegins
  <1> QED BY <1>2, <1>3, BucketsPlace

LEMMA TransactionPlaces ==
    ASSUME Calmly, PlanWell, Placed(Tables),
           Cardinality(pass.changed \cup pass.new) <= Cardinality(Spare(Tables))
    PROVE  Placed(sync_books(Tables, pass))
  <1>1. TypeOK /\ PlanTyped
    BY DEF Calmly
  <1>2. PICK g, h, k : Course(g, h, k)
    BY <1>1, EveryCourse
  <1>3. Placed(AfterNew)
    <2>1. LastPath \in 0 .. LastPath
      BY Bounds
    <2> QED BY <1>2, <2>1, CoursePlaces DEF Course
  <1>4. sync_books(Tables, pass) = AfterNew
    BY DEF sync_books, AfterRemoved, AfterMoved, AfterChanged, AfterNew
  <1> QED BY <1>3, <1>4

-----------------------------------------------------------------------------
(* One file, one book, when two books become one.                          *)

(* A row of s, or of another book, as the merge leaves it with t. *)
Came(e, f, s, t) ==
    f = Rehomed(e, s, t) /\ f.key = e.key /\ f.book = (IF e.book = s THEN t ELSE e.book)

CameEntry(m, e, s, t) == Came(m, e, s, t) /\ e.uuid = m.uuid /\ e.format = m.format

(* The entry that remembers the own file of s, if the ledger has none of   *)
(* its format for s.                                                       *)
Guard(e, s, t) ==
    /\ e = Entry(s, t, FormatOf[books[s].key], books[s].key)
    /\ ~\E m \in ledger : m.book = s /\ m.format = FormatOf[books[s].key]

MergeLeaves(T, s, t) ==
    /\ \A b \in Id : Stands(T, b) <=> b \in live /\ b # s
    /\ \A b \in Id \ {s} : T.books[b] = books[b]
    /\ \A f \in T.files : \E e \in files : Came(e, f, s, t)
    /\ \A m \in ledger : \E e \in T.ledger : CameEntry(m, e, s, t)
    /\ \A e \in T.ledger : Guard(e, s, t) \/ \E m \in ledger : CameEntry(m, e, s, t)
    /\ \A f \in files : f.book = s /\ f.key = books[s].key
                           => \E e \in T.ledger : e.book = t /\ e.key = f.key

LEMMA MergeDoes ==
    ASSUME TypeOK, Placed(Tables), NEW s \in live, NEW t \in live, s # t, ~GuardLost(s),
           NEW M \in Merged(s, t), NEW T, T = Dropped(M, {s})
    PROVE  MergeLeaves(T, s, t)
  <1>1. /\ files \subseteq Row /\ ledger \subseteq Attachment /\ s \in Id /\ t \in Id
        /\ \A b : b \in live <=> b \in Id /\ books[b] # None
    BY DEF TypeOK, live
  <1>2. Tables.books = books /\ Tables.files = files /\ Tables.ledger = ledger
    BY DEF Tables
  <1>3. /\ HasHome(Tables) /\ Handles(Tables) /\ Stands(Tables, s)
    BY <1>1, <1>2 DEF Placed, Stands
  <1>4. /\ M.books = books /\ M.files = {Rehomed(f, s, t) : f \in files}
        /\ \/ /\ M.ledger = {Rehomed(m, s, t) : m \in ledger}
              /\ FormatsOf(Tables, s) \subseteq {m.format : m \in {n \in ledger : n.book = s}}
           \/ \E x \in FormatsOf(Tables, s) :
                 /\ ~\E m \in ledger : m.book = s /\ m.format = x
                 /\ M.ledger = {m \in {Rehomed(n, s, t) : n \in ledger} : m.uuid # s}
                               \cup {Entry(s, t, x, books[s].key)}
    <2>1. M = [books |-> books, files |-> M.files, ledger |-> M.ledger]
      BY MergedIs
    <2>2. M.books = books
      BY <2>1
    <2> QED BY <2>2, MergedIs
  <1>5. /\ T.books = [b \in Id |-> IF b = s THEN None ELSE books[b]]
        /\ T.files = {f \in M.files : f.book # s}
        /\ T.ledger = {m \in M.ledger : m.book # s}
    BY <1>4 DEF Dropped
  <1>6. \A f \in files : Came(f, Rehomed(f, s, t), s, t)
    BY <1>1, RehomedIs DEF Came
  <1>7. \A m \in ledger : CameEntry(m, Rehomed(m, s, t), s, t)
    BY <1>1, RehomedIs DEF Came, CameEntry
  <1>8. \A m \in ledger : m.uuid # s
    BY <1>1, <1>2, <1>3 DEF Handles
  <1>9. \A b \in Id : Stands(T, b) <=> b \in live /\ b # s
    BY <1>1, <1>5 DEF Stands
  <1>10. \A b \in Id \ {s} : T.books[b] = books[b]
    BY <1>5
  <1>11. \A f \in T.files : \E e \in files : Came(e, f, s, t)
    <2>1. SUFFICES ASSUME NEW f \in T.files PROVE \E e \in files : Came(e, f, s, t)
      OBVIOUS
    <2>2. f \in M.files
      BY <1>5
    <2>3. PICK e \in files : f = Rehomed(e, s, t)
      BY <1>4, <2>2
    <2> QED BY <1>6, <2>3
  <1>12. ASSUME NEW m \in ledger PROVE \E e \in T.ledger : CameEntry(m, e, s, t)
    <2>1. PICK e : e = Rehomed(m, s, t)
      OBVIOUS
    <2>2. CameEntry(m, e, s, t)
      BY <1>7, <2>1
    <2>3. e.uuid # s /\ e.book # s
      BY <1>8, <2>2 DEF CameEntry, Came
    <2>4. e \in M.ledger
      BY <1>4, <2>1, <2>3
    <2> QED BY <1>5, <2>2, <2>3, <2>4
  <1>13. CASE /\ M.ledger = {Rehomed(m, s, t) : m \in ledger}
              /\ FormatsOf(Tables, s) \subseteq {m.format : m \in {n \in ledger : n.book = s}}
    <2>1. ASSUME NEW e \in T.ledger PROVE \E m \in ledger : CameEntry(m, e, s, t)
      <3>1. e \in M.ledger
        BY <1>5
      <3>2. PICK m \in ledger : e = Rehomed(m, s, t)
        BY <1>13, <3>1
      <3> QED BY <1>7, <3>2
    <2>2. ASSUME NEW f \in files, f.book = s
          PROVE  \E e \in T.ledger : e.book = t /\ e.key = f.key
      <3>1. f \in FilesOf(Tables, s) /\ FormatOf[f.key] \in FormatsOf(Tables, s)
        BY <1>2, <2>2 DEF FilesOf, FormatsOf
      <3>2. \E m \in ledger : m.book = s /\ m.format = FormatOf[f.key]
        BY <1>13, <3>1
      <3>3. PICK n \in ledger : n.book = s /\ n.key = f.key
        BY <3>1, <3>2 DEF GuardLost
      <3>4. PICK e \in T.ledger : CameEntry(n, e, s, t)
        BY <1>12
      <3> QED BY <3>3, <3>4 DEF CameEntry, Came
    <2> QED BY <1>9, <1>10, <1>11, <1>12, <2>1, <2>2 DEF MergeLeaves
  <1>14. CASE \E x \in FormatsOf(Tables, s) :
                 /\ ~\E m \in ledger : m.book = s /\ m.format = x
                 /\ M.ledger = {m \in {Rehomed(n, s, t) : n \in ledger} : m.uuid # s}
                               \cup {Entry(s, t, x, books[s].key)}
    <2>1. PICK x \in FormatsOf(Tables, s) :
                 /\ ~\E m \in ledger : m.book = s /\ m.format = x
                 /\ M.ledger = {m \in {Rehomed(n, s, t) : n \in ledger} : m.uuid # s}
                               \cup {Entry(s, t, x, books[s].key)}
      BY <1>14
    <2>2. x = FormatOf[books[s].key]
      <3>1. PICK f \in files : f.book = s /\ x = FormatOf[f.key]
        BY <1>2 DEF FormatsOf, FilesOf
      <3>2. ~InLedger(Tables, f)
        BY <1>2, <1>3, <2>1, <3>1 DEF InLedger, Handles
      <3>3. books[s].key = f.key
        BY <1>2, <1>3, <3>1, <3>2 DEF HasHome
      <3> QED BY <3>1, <3>3
    <2>3. PICK g : g = Entry(s, t, x, books[s].key)
      OBVIOUS
    <2>4. Guard(g, s, t) /\ g.book = t /\ g.key = books[s].key
      BY <2>1, <2>2, <2>3 DEF Guard, Entry
    <2>5. g \in T.ledger
      BY <1>5, <2>1, <2>3, <2>4
    <2>6. \A e \in T.ledger : Guard(e, s, t) \/ \E m \in ledger : CameEntry(m, e, s, t)
      <3>1. \A e \in M.ledger : e = g \/ \E m \in ledger : e = Rehomed(m, s, t)
        BY <2>1, <2>3
      <3> QED BY <1>5, <1>7, <2>4, <3>1
    <2> QED BY <1>9, <1>10, <1>11, <1>12, <2>4, <2>5, <2>6 DEF MergeLeaves
  <1> QED BY <1>4, <1>13, <1>14

LEMMA MergePlaced ==
    ASSUME TypeOK, Placed(Tables), NEW s \in live, NEW t \in live, s # t,
           Shapes(s) \cap Shapes(t) = {}, NEW T, MergeLeaves(T, s, t)
    PROVE  Placed(T)
  <1>1. PICK k, x : k = books[s].key /\ x = FormatOf[k]
    OBVIOUS
  <1>2. /\ \A b \in Id : Stands(T, b) <=> b \in live /\ b # s
        /\ \A b \in Id \ {s} : T.books[b] = books[b]
        /\ \A f \in T.files : \E e \in files : Came(e, f, s, t)
        /\ \A m \in ledger : \E e \in T.ledger : CameEntry(m, e, s, t)
        /\ \A e \in T.ledger : Guard(e, s, t) \/ \E m \in ledger : CameEntry(m, e, s, t)
        /\ \A f \in files : f.book = s /\ f.key = k => \E e \in T.ledger : e.book = t /\ e.key = f.key
    BY <1>1 DEF MergeLeaves
  <1>3. /\ Tables.books = books /\ Tables.files = files /\ Tables.ledger = ledger
        /\ \A b \in Id : Stands(Tables, b) <=> b \in live
        /\ s \in Id /\ t \in Id
    BY DEF Tables, Stands, live
  <1>4. /\ HasHome(Tables) /\ Apart(Tables) /\ OneEntry(Tables) /\ Handles(Tables)
        /\ OneSlot(Tables) /\ OneBacking(Tables)
    BY DEF Placed
  <1>5. /\ \A f \in files : f.book \in Id /\ f.book \in live
        /\ \A m \in ledger : m.book \in Id /\ m.format = FormatOf[m.key]
    BY <1>3, <1>4 DEF TypeOK, Row, Attachment, Handles
  <1>6. ASSUME NEW e, Guard(e, s, t)
        PROVE  /\ e.uuid = s /\ e.book = t /\ e.format = x /\ e.key = k
               /\ \A m \in ledger : m.book = s => m.format # x
               /\ \A c : Guard(c, s, t) => c = e
    BY <1>1, <1>6 DEF Guard, Entry
  <1>7. \A m \in ledger : m.key # k
    BY <1>1, <1>3, <1>4 DEF Apart
  \* the shapes of s and those of t
  <1>8. ASSUME NEW y \in Shapes(s) PROVE y \notin Shapes(t)
    BY <1>8
  <1>9. /\ x \in Shapes(s)
        /\ \A f \in files : f.book \in {s, t} => FormatOf[f.key] \in Shapes(f.book)
        /\ \A m \in ledger : m.book \in {s, t} => m.format \in Shapes(m.book)
    <2>1. x \in Shapes(s)
      BY <1>1 DEF Shapes
    <2>2. \A f \in files : f.book \in {s, t} => FormatOf[f.key] \in Shapes(f.book)
      BY <1>3 DEF Shapes, FormatsOf, FilesOf
    <2>3. \A m \in ledger : m.book \in {s, t} => m.format \in Shapes(m.book)
      BY DEF Shapes
    <2> QED BY <2>1, <2>2, <2>3
  <1>10. HasHome(T)
    <2>1. SUFFICES ASSUME NEW f \in T.files PROVE T.books[f.book].key = f.key \/ InLedger(T, f)
      BY DEF HasHome
    <2>2. PICK e \in files : Came(e, f, s, t)
      BY <1>2
    <2>3. books[e.book].key = e.key \/ InLedger(Tables, e)
      BY <1>3, <1>4 DEF HasHome
    <2>4. CASE InLedger(Tables, e)
      <3>1. PICK m \in ledger : m.book = e.book /\ m.key = e.key
        BY <1>3, <2>4 DEF InLedger
      <3>2. PICK c \in T.ledger : CameEntry(m, c, s, t)
        BY <1>2
      <3> QED BY <2>2, <3>1, <3>2 DEF CameEntry, Came, InLedger
    <2>5. CASE books[e.book].key = e.key /\ e.book # s
      <3>1. f.book = e.book /\ f.key = e.key
        BY <2>2, <2>5 DEF Came
      <3> QED BY <1>2, <1>5, <2>5, <3>1
    <2>6. CASE books[e.book].key = e.key /\ e.book = s
      <3>1. f.book = t /\ f.key = e.key
        BY <2>2, <2>6 DEF Came
      <3> QED BY <1>1, <1>2, <2>6, <3>1 DEF InLedger
    <2> QED BY <2>3, <2>4, <2>5, <2>6
  <1>11. Apart(T)
    <2>1. SUFFICES ASSUME NEW e \in T.ledger, NEW b \in Id, Stands(T, b), T.books[b].key = e.key
                   PROVE  FALSE
      BY DEF Apart
    <2>2. b \in live /\ b # s /\ books[b].key = e.key
      BY <1>2, <2>1
    <2>3. CASE Guard(e, s, t)
      BY <1>1, <1>6, <2>2, <2>3 DEF TypeOK
    <2>4. CASE \E m \in ledger : CameEntry(m, e, s, t)
      BY <1>3, <1>4, <2>2, <2>4 DEF CameEntry, Came, Apart
    <2> QED BY <1>2, <2>3, <2>4
  <1>12. OneEntry(T)
    <2>1. SUFFICES ASSUME NEW d \in T.ledger, NEW e \in T.ledger, d.key = e.key PROVE d = e
      BY DEF OneEntry
    <2>2. ASSUME NEW c, Guard(c, s, t), NEW m \in ledger, NEW a, CameEntry(m, a, s, t)
          PROVE  a.key # c.key
      BY <1>6, <1>7, <2>2 DEF CameEntry, Came
    <2>3. CASE Guard(d, s, t) /\ Guard(e, s, t)
      BY <1>6, <2>3
    <2>4. CASE \E m, n \in ledger : CameEntry(m, d, s, t) /\ CameEntry(n, e, s, t)
      <3>1. PICK m \in ledger, n \in ledger : CameEntry(m, d, s, t) /\ CameEntry(n, e, s, t)
        BY <2>4
      <3>2. m = n
        BY <1>3, <1>4, <2>1, <3>1 DEF CameEntry, Came, OneEntry
      <3> QED BY <3>1, <3>2 DEF CameEntry, Came
    <2> QED BY <1>2, <2>1, <2>2, <2>3, <2>4
  <1>13. Handles(T)
    <2>1. SUFFICES ASSUME NEW e \in T.ledger
                   PROVE  (e.uuid \in Id => ~Stands(T, e.uuid)) /\ e.format = FormatOf[e.key]
      BY DEF Handles
    <2>2. CASE Guard(e, s, t)
      BY <1>1, <1>2, <1>6, <2>2
    <2>3. CASE \E m \in ledger : CameEntry(m, e, s, t)
      BY <1>2, <1>3, <1>4, <2>3 DEF CameEntry, Came, Handles
    <2> QED BY <1>2, <2>2, <2>3
  <1>14. OneSlot(T)
    <2>1. SUFFICES ASSUME NEW f \in T.files, NEW g \in T.files,
                          f.book = g.book, FormatOf[f.key] = FormatOf[g.key]
                   PROVE  f = g
      BY DEF OneSlot
    <2>2. PICK d \in files, e \in files : Came(d, f, s, t) /\ Came(e, g, s, t)
      BY <1>2
    <2>3. FormatOf[d.key] = FormatOf[e.key]
      BY <2>1, <2>2 DEF Came
    <2>4. d.book = e.book
      <3>1. SUFFICES ASSUME d.book # e.book PROVE FALSE
        OBVIOUS
      <3>2. \/ d.book = s /\ e.book = t
            \/ d.book = t /\ e.book = s
        BY <2>1, <2>2, <3>1 DEF Came
      <3> QED BY <1>8, <1>9, <2>3, <3>2
    <2>5. d = e
      BY <1>3, <1>4, <2>3, <2>4 DEF OneSlot
    <2> QED BY <2>2, <2>5 DEF Came
  <1>15. OneBacking(T)
    <2>1. SUFFICES ASSUME NEW f \in T.files, NEW c \in T.ledger, NEW d \in T.ledger,
                          c.book = f.book, c.key = f.key, d.book = f.book, d.format = c.format
                   PROVE  d = c
      BY DEF OneBacking
    <2>2. PICK e \in files : Came(e, f, s, t)
      BY <1>2
    <2>3. c.format = FormatOf[e.key] /\ c.key = e.key
      BY <1>13, <2>1, <2>2 DEF Handles, Came
    <2>4. ASSUME NEW a \in T.ledger, a.book = f.book, a.format = c.format, ~Guard(a, s, t)
          PROVE  \E m \in ledger : CameEntry(m, a, s, t) /\ m.book = e.book
      <3>1. PICK m \in ledger : CameEntry(m, a, s, t)
        BY <1>2, <2>4
      <3>2. m.book = e.book
        <4>1. SUFFICES ASSUME m.book # e.book PROVE FALSE
          OBVIOUS
        <4>2. m.format = FormatOf[e.key]
          BY <2>3, <2>4, <3>1 DEF CameEntry
        <4>3. \/ m.book = s /\ e.book = t
              \/ m.book = t /\ e.book = s
          BY <2>2, <2>4, <3>1, <4>1 DEF CameEntry, Came
        <4> QED BY <1>8, <1>9, <4>2, <4>3
      <3> QED BY <3>1, <3>2
    <2>5. ASSUME NEW a \in T.ledger, a.book = f.book, a.format = c.format, Guard(a, s, t)
          PROVE  e.book = s /\ c.format = x
      <3>1. c.format = x /\ f.book = t /\ FormatOf[e.key] = x
        BY <1>6, <2>3, <2>5
      <3>2. e.book \in {s, t}
        BY <2>2, <3>1 DEF Came
      <3> QED BY <1>8, <1>9, <3>1, <3>2
    <2>6. CASE Guard(c, s, t) /\ Guard(d, s, t)
      BY <1>6, <2>6
    <2>7. CASE ~Guard(c, s, t) /\ ~Guard(d, s, t)
      <3>1. PICK m \in ledger : CameEntry(m, c, s, t) /\ m.book = e.book
        BY <2>1, <2>4, <2>7
      <3>2. PICK n \in ledger : CameEntry(n, d, s, t) /\ n.book = e.book
        BY <2>1, <2>4, <2>7
      <3>3. m.key = e.key /\ n.format = m.format
        BY <2>1, <2>3, <3>1, <3>2 DEF CameEntry, Came
      <3>4. n = m
        BY <1>3, <1>4, <3>1, <3>2, <3>3 DEF OneBacking
      <3> QED BY <3>1, <3>2, <3>4 DEF CameEntry, Came
    <2>8. CASE (Guard(c, s, t) /\ ~Guard(d, s, t)) \/ (Guard(d, s, t) /\ ~Guard(c, s, t))
      <3>1. PICK a \in T.ledger, g \in T.ledger :
              /\ a.book = f.book /\ a.format = c.format /\ ~Guard(a, s, t)
              /\ g.book = f.book /\ g.format = c.format /\ Guard(g, s, t)
        BY <2>1, <2>8
      <3>2. e.book = s /\ c.format = x
        BY <2>5, <3>1
      <3>3. PICK m \in ledger : CameEntry(m, a, s, t) /\ m.book = e.book
        BY <2>4, <3>1
      <3>4. m.format = x
        BY <3>1, <3>2, <3>3 DEF CameEntry
      <3> QED BY <1>6, <3>1, <3>2, <3>3, <3>4
    <2> QED BY <2>6, <2>7, <2>8
  <1> QED BY <1>10, <1>11, <1>12, <1>13, <1>14, <1>15 DEF Placed

-----------------------------------------------------------------------------
(* One file, one book, through every action.                               *)

LEMMA DroppedPlaced ==
    ASSUME NEW T, Keyed(T), Placed(T), NEW gone
    PROVE  Placed(Dropped(T, gone))
  <1>1. PICK U : U = Dropped(T, gone)
    OBVIOUS
  <1>2. /\ U.books = [b \in Id |-> IF b \in gone THEN None ELSE T.books[b]]
        /\ U.files = {f \in T.files : f.book \notin gone}
        /\ U.ledger = {m \in T.ledger : m.book \notin gone}
    BY <1>1 DEF Dropped
  <1>3. Keyed(U)
    BY <1>1, DroppedKeyed
  <1>4. \A b \in Id : Stands(U, b) => Stands(T, b) /\ U.books[b].key = T.books[b].key
    BY <1>2 DEF Stands
  <1>5. \A f \in U.files : /\ f.book \in Id /\ Stands(U, f.book)
                           /\ InLedger(T, f) => InLedger(U, f)
    BY <1>2, <1>3 DEF Keyed, Db, Row, InLedger
  <1>6. Fewer(T, U)
    BY <1>2, <1>4, <1>5 DEF Fewer
  <1> QED BY <1>1, <1>6, FewerPlaced

LEMMA ThinnedPlaced ==
    ASSUME TypeOK, Placed(Tables), NEW b, NEW chosen \in SUBSET FilesOf(Tables, b)
    PROVE  Placed(Thinned(b, chosen))
  <1>1. PICK U : U = Thinned(b, chosen)
    OBVIOUS
  <1>2. /\ U.books = books /\ U.files = files \ chosen
        /\ U.ledger = {m \in ledger : ~(m.book = b /\ m.key \in {f.key : f \in chosen})}
    BY <1>1 DEF Thinned
  <1>3. /\ Tables.books = books /\ Tables.files = files /\ Tables.ledger = ledger
        /\ \A f \in chosen : f \in files /\ f.book = b
    BY DEF Tables, FilesOf
  <1>4. Keyed(U)
    BY <1>1, ThinnedKeyed
  <1>5. ASSUME NEW f \in U.files, InLedger(Tables, f)
        PROVE  InLedger(U, f)
    <2>1. PICK m \in ledger : m.book = f.book /\ m.key = f.key
      BY <1>3, <1>5 DEF InLedger
    <2>2. ~(m.book = b /\ \E g \in chosen : g.key = m.key)
      <3>1. SUFFICES ASSUME m.book = b, NEW g \in chosen, g.key = m.key PROVE FALSE
        OBVIOUS
      <3>2. g \in files /\ f \in files /\ f.book = g.book /\ f.key = g.key
        BY <1>2, <1>3, <2>1, <3>1
      <3>3. f = g
        BY <1>3, <3>2 DEF Placed, OneSlot
      <3> QED BY <1>2, <3>3
    <2>3. m \in U.ledger
      BY <1>2, <2>2
    <2> QED BY <2>1, <2>3 DEF InLedger
  <1>6. \A f \in U.files : f.book \in Id /\ Stands(U, f.book)
    BY <1>4 DEF Keyed, Db, Row
  <1>7. Fewer(Tables, U)
    BY <1>2, <1>3, <1>5, <1>6 DEF Fewer, Stands
  <1> QED BY <1>1, <1>7, FewerPlaced

(* What a scan has read stays true until the difference is drawn: a book   *)
(* is still where it was, or what it was goes by its uuid in the ledger.   *)
ReadWell ==
    /\ \A r \in pass.native : r.uuid \in live => books[r.uuid].key = r.key
    /\ \A r \in pass.native, a \in ledger : a.uuid = r.uuid => a.key = r.key
    /\ \A r, q \in pass.native : r.uuid = q.uuid => r = q

Held == (step = "read" => ReadWell) /\ (step = "sync" => PlanWell)

(* The inductive invariant, with the types.                                *)
Agreed == Placed(Tables) /\ Held

(* A table a step leaves is that of the next state. *)
LEMMA PlacedNext ==
    ASSUME NEW T, Keyed(T), Placed(T), SetTables(T)
    PROVE  Placed(Tables)'
  <1>1. /\ T = [books |-> T.books, files |-> T.files, ledger |-> T.ledger]
        /\ books' = T.books /\ files' = T.files /\ ledger' = T.ledger
    BY DEF SetTables, Keyed, Db
  <1>2. Tables' = T
    BY <1>1 DEF Tables
  <1> QED BY <1>2 DEF Placed, HasHome, Apart, OneEntry, Handles, OneSlot, OneBacking, InLedger, Stands

LEMMA PlacedSame ==
    ASSUME TypeOK, Placed(Tables), UNCHANGED <<files, ledger>>, books' \in [Id -> Book \cup {None}],
           \A b \in Id : /\ books'[b] # None <=> books[b] # None
                         /\ books[b] # None => books'[b].key = books[b].key
    PROVE  Placed(Tables)'
  <1>1. Keyed(Tables)
    BY TablesKeyed
  <1>2. PICK U : U = [books |-> books', files |-> files, ledger |-> ledger]
    OBVIOUS
  <1>3. /\ Tables.books = books /\ Tables.files = files /\ Tables.ledger = ledger
        /\ U.books = books' /\ U.files = files /\ U.ledger = ledger /\ Tables' = U
    BY <1>2 DEF Tables
  <1>4. \A f \in files : f.book \in Id /\ Stands(Tables, f.book)
    BY <1>1, <1>3 DEF Keyed, Db, Row
  <1>5. Fewer(Tables, U)
    BY <1>3, <1>4 DEF Fewer, Stands, InLedger
  <1>6. Placed(U)
    BY <1>5, FewerPlaced
  <1> QED BY <1>3, <1>6 DEF Placed, HasHome, Apart, OneEntry, Handles, OneSlot, OneBacking, InLedger, Stands

(* Books go, none comes or moves, and the ledger has, for what is new in   *)
(* it, the uuid and the path of a book.                                    *)
Onward ==
    /\ \A b \in Id : books'[b] # None => books[b] # None /\ books'[b].key = books[b].key
    /\ \A a \in ledger' : \/ \E c \in ledger : c.uuid = a.uuid /\ c.key = a.key
                          \/ a.uuid \in live /\ a.key = books[a.uuid].key

LEMMA HeldOn ==
    ASSUME Held, Onward, UNCHANGED <<step, pass>>
    PROVE  Held'
  <1>1. \A b \in live' : b \in live /\ books'[b].key = books[b].key
    BY DEF Onward, live
  <1>2. CASE step = "read"
    <2>1. ReadWell
      BY <1>2 DEF Held
    <2>2. \A r \in pass.native, a \in ledger' : a.uuid = r.uuid => a.key = r.key
      BY <2>1 DEF Onward, ReadWell
    <2>3. ReadWell'
      BY <1>1, <2>1, <2>2 DEF ReadWell
    <2> QED BY <1>2, <2>3 DEF Held
  <1>3. CASE step = "sync"
    <2>1. PlanWell
      BY <1>3 DEF Held
    <2>2. \A m \in pass.moved, a \in ledger' :
             a.uuid = m.uuid => a.key \notin DOMAIN pass.seen /\ FormatOf[a.key] = FormatOf[m.to]
      BY <2>1 DEF Onward, PlanWell
    <2>3. PlanWell'
      BY <1>1, <2>1, <2>2 DEF PlanWell
    <2> QED BY <1>3, <2>3 DEF Held
  <1> QED BY <1>2, <1>3 DEF Held

LEMMA HeldIdle ==
    ASSUME step' \notin {"read", "sync"}
    PROVE  Held'
  BY DEF Held

(* The books with their own files, or none, as the walk leaves them. *)
LEMMA NativeWell ==
    ASSUME TypeOK, Placed(Tables)
    PROVE  /\ \A r \in native_rows : r.uuid \in live /\ books[r.uuid].key = r.key
           /\ \A r, q \in native_rows : r.uuid = q.uuid => r = q
  <1>1. Tables.files = files /\ \A f \in files : f.book \in live
    BY DEF Tables, TypeOK
  <1>2. ASSUME NEW r \in native_rows
        PROVE  \/ \E f \in files : /\ books[f.book].key = f.key
                                   /\ r = [uuid |-> f.book, key |-> f.key, stat |-> f.stat, has_file |-> TRUE]
               \/ \E b \in live : /\ FilesOf(Tables, b) = {}
                                  /\ r = [uuid |-> b, key |-> books[b].key, stat |-> 0, has_file |-> FALSE]
    BY <1>2 DEF native_rows
  <1>3. \A r \in native_rows : r.uuid \in live /\ books[r.uuid].key = r.key
    BY <1>1, <1>2
  <1>4. ASSUME NEW r \in native_rows, NEW q \in native_rows, r.uuid = q.uuid
        PROVE  r = q
    <2>1. CASE \E f, g \in files :
                 /\ books[f.book].key = f.key /\ books[g.book].key = g.key
                 /\ r = [uuid |-> f.book, key |-> f.key, stat |-> f.stat, has_file |-> TRUE]
                 /\ q = [uuid |-> g.book, key |-> g.key, stat |-> g.stat, has_file |-> TRUE]
      <3>1. PICK f \in files, g \in files :
                 /\ books[f.book].key = f.key /\ books[g.book].key = g.key
                 /\ r = [uuid |-> f.book, key |-> f.key, stat |-> f.stat, has_file |-> TRUE]
                 /\ q = [uuid |-> g.book, key |-> g.key, stat |-> g.stat, has_file |-> TRUE]
        BY <2>1
      <3>2. f.book = g.book /\ f.key = g.key
        BY <1>4, <3>1
      <3>3. f = g
        BY <1>1, <3>2 DEF Placed, OneSlot
      <3> QED BY <3>1, <3>3
    <2>2. \A f \in files : FilesOf(Tables, f.book) # {}
      BY <1>1 DEF FilesOf
    <2>3. ASSUME NEW x \in native_rows, NEW f \in files, x.uuid = f.book
          PROVE  \E g \in files : /\ books[g.book].key = g.key
                                  /\ x = [uuid |-> g.book, key |-> g.key, stat |-> g.stat, has_file |-> TRUE]
      <3>1. SUFFICES ASSUME NEW b \in live, FilesOf(Tables, b) = {}, x.uuid = b PROVE FALSE
        BY <1>2
      <3> QED BY <2>2, <2>3, <3>1
    <2>4. CASE \E f \in files : r.uuid = f.book
      BY <1>4, <2>1, <2>3, <2>4
    <2>5. CASE ~\E f \in files : r.uuid = f.book
      <3>1. PICK b \in live : r = [uuid |-> b, key |-> books[b].key, stat |-> 0, has_file |-> FALSE]
        BY <1>2, <2>5
      <3>2. PICK c \in live : q = [uuid |-> c, key |-> books[c].key, stat |-> 0, has_file |-> FALSE]
        BY <1>2, <1>4, <2>5
      <3> QED BY <1>4, <3>1, <3>2
    <2> QED BY <2>4, <2>5
  <1> QED BY <1>3, <1>4

(* Who a plan calls removed, and what it moves. *)
Drawn(plan, seen, db, left) ==
    /\ plan.removed = {r.uuid : r \in left} /\ left \subseteq db
    /\ \A r \in left : r.key \notin DOMAIN seen
    /\ \A m \in plan.moved : \E d \in db \ left :
          /\ d.uuid = m.uuid /\ d.key \notin DOMAIN seen /\ FormatOf[d.key] = FormatOf[m.to]
          /\ m.to \in DOMAIN seen /\ m.to \notin plan.new \cup plan.changed

LEMMA PlanIsDrawn ==
    ASSUME NEW seen, NEW native, NEW merged, NEW trustworthy, NEW plan,
           plan = diff_library(seen, native, merged, trustworthy)
    PROVE  \E left : Drawn(plan, seen, native \cup merged, left)
  <1>1. PICK db, known, arrivals, departures, pairs :
          /\ db = native \cup merged /\ known = {r.key : r \in db} /\ arrivals = DOMAIN seen \ known
          /\ departures = IF trustworthy
                          THEN {r \in FileBacked(db) : r.key \notin DOMAIN seen} ELSE {}
          /\ pairs = match_moved_files(departures, arrivals, seen)
    OBVIOUS
  <1>2. /\ plan.changed \subseteq DOMAIN seen \cap known
        /\ plan.new = arrivals \ {da[2] : da \in pairs}
        /\ plan.moved = {[uuid |-> da[1].uuid, to |-> da[2]] : da \in pairs}
        /\ plan.removed = {r.uuid : r \in departures \ {da[1] : da \in pairs}}
    BY <1>1 DEF diff_library
  <1>3. PICK left : left = departures \ {da[1] : da \in pairs}
    OBVIOUS
  <1>4. \A d \in departures : d \in db /\ d.key \notin DOMAIN seen
    BY <1>1 DEF FileBacked
  <1>5. \A da \in pairs : /\ da[1] \in departures /\ da[2] \in arrivals
                          /\ FormatOf[da[2]] = FormatOf[da[1].key]
    BY <1>1 DEF match_moved_files
  <1>6. ASSUME NEW m \in plan.moved
        PROVE  \E d \in db \ left :
                  /\ d.uuid = m.uuid /\ d.key \notin DOMAIN seen /\ FormatOf[d.key] = FormatOf[m.to]
                  /\ m.to \in DOMAIN seen /\ m.to \notin plan.new \cup plan.changed
    <2>1. PICK da \in pairs : m = [uuid |-> da[1].uuid, to |-> da[2]]
      BY <1>2
    <2>2. PICK d, a : d = da[1] /\ a = da[2]
      OBVIOUS
    <2>3. m.uuid = d.uuid /\ m.to = a
      BY <2>1, <2>2
    <2>4. d \in departures /\ a \in arrivals /\ FormatOf[a] = FormatOf[d.key] /\ d \notin left
      BY <1>3, <1>5, <2>2
    <2>5. a \notin plan.new /\ a \notin plan.changed /\ a \in DOMAIN seen
      BY <1>1, <1>2, <2>2, <2>4
    <2> QED BY <1>4, <2>3, <2>4, <2>5
  <1>7. left \subseteq db /\ \A r \in left : r.key \notin DOMAIN seen
    BY <1>3, <1>4
  <1>8. plan.removed = {r.uuid : r \in left}
    BY <1>2, <1>3
  <1>9. PICK both : both = native \cup merged
    OBVIOUS
  <1>10. Drawn(plan, seen, both, left)
    <2>1. db = both
      BY <1>1, <1>9
    <2>2. \A m \in plan.moved : \E d \in both \ left :
             /\ d.uuid = m.uuid /\ d.key \notin DOMAIN seen /\ FormatOf[d.key] = FormatOf[m.to]
             /\ m.to \in DOMAIN seen /\ m.to \notin plan.new \cup plan.changed
      BY <1>6, <2>1
    <2>3. left \subseteq both
      BY <1>7, <2>1
    <2> QED BY <1>7, <1>8, <2>2, <2>3 DEF Drawn
  <1> QED BY <1>9, <1>10

LEMMA DiffHolds ==
    ASSUME TypeOK, Agreed, Diff
    PROVE  Held'
  <1>1. /\ Placed(Tables) /\ ReadWell /\ UNCHANGED tables
        /\ Tables.ledger = ledger
    BY DEF Agreed, Held, Diff, Tables
  <1>2. PICK trustworthy, plan :
          /\ trustworthy \in BOOLEAN
          /\ plan = diff_library(pass.seen, pass.native, merged_rows, trustworthy)
          /\ (step' = "sync" /\ pass' = plan) \/ step' = "idle"
    BY DiffIs
  <1>3. (step' = "sync" /\ pass' = plan) \/ step' = "idle"
    BY <1>2
  <1>4. CASE step' = "idle"
    BY <1>4, HeldIdle
  <1>5. CASE step' = "sync" /\ pass' = plan
    <2>1. PICK seen, native, merged : seen = pass.seen /\ native = pass.native /\ merged = merged_rows
      OBVIOUS
    <2>2. plan = diff_library(seen, native, merged, trustworthy) /\ plan.seen = seen
      BY <1>2, <2>1 DEF diff_library
    <2>3. PICK left : Drawn(plan, seen, native \cup merged, left)
      BY <2>2, PlanIsDrawn
    <2>4. \A b \in live, m \in ledger : m.uuid # b
      BY <1>1 DEF Placed, Handles, live, Stands, Tables
    <2>5. ASSUME NEW d \in merged
          PROVE  \E m \in ledger : d.uuid = m.uuid /\ d.key = m.key
      <3>1. PICK mf \in ledger \X files :
              d = [uuid |-> mf[1].uuid, key |-> mf[1].key, stat |-> mf[2].stat, has_file |-> TRUE]
        BY <2>1 DEF merged_rows
      <3>2. mf[1] \in ledger
        BY <3>1
      <3> QED BY <3>1, <3>2
    <2>6. ASSUME NEW d \in native \cup merged, d.uuid \in live
          PROVE  d \in native /\ books[d.uuid].key = d.key
      <3>1. d \in native
        BY <2>4, <2>5, <2>6
      <3> QED BY <1>1, <2>1, <2>6, <3>1 DEF ReadWell
    <2>7. ASSUME NEW d \in native \cup merged, NEW a \in ledger, a.uuid = d.uuid
          PROVE  a.key = d.key
      <3>1. CASE d \in native
        BY <1>1, <2>1, <2>7, <3>1 DEF ReadWell
      <3>2. CASE d \in merged
        <4>1. PICK m \in ledger : d.uuid = m.uuid /\ d.key = m.key
          BY <2>5, <3>2
        <4> QED BY <2>7, <4>1 DEF TypeOK
      <3> QED BY <3>1, <3>2
    <2>8. ASSUME NEW b \in live \cap plan.removed
          PROVE  books[b].key \notin DOMAIN seen
      <3>1. PICK d \in left : d.uuid = b
        BY <2>3 DEF Drawn
      <3>2. d \in native \cup merged /\ d.key \notin DOMAIN seen
        BY <2>3 DEF Drawn
      <3> QED BY <2>6, <3>1, <3>2
    <2>9. ASSUME NEW m \in plan.moved
          PROVE  /\ m.to \in DOMAIN seen /\ m.to \notin plan.new \cup plan.changed
                 /\ m.uuid \in live => /\ m.uuid \notin plan.removed
                                       /\ books[m.uuid].key \notin DOMAIN seen
                                       /\ FormatOf[books[m.uuid].key] = FormatOf[m.to]
                 /\ \A a \in ledger :
                       a.uuid = m.uuid => a.key \notin DOMAIN seen /\ FormatOf[a.key] = FormatOf[m.to]
      <3>1. PICK d \in (native \cup merged) \ left :
              /\ d.uuid = m.uuid /\ d.key \notin DOMAIN seen /\ FormatOf[d.key] = FormatOf[m.to]
              /\ m.to \in DOMAIN seen /\ m.to \notin plan.new \cup plan.changed
        BY <2>3 DEF Drawn
      <3>2. ASSUME m.uuid \in live, m.uuid \in plan.removed PROVE FALSE
        <4>1. PICK e \in left : e.uuid = m.uuid
          BY <2>3, <3>2 DEF Drawn
        <4>2. e \in native \cup merged
          BY <2>3 DEF Drawn
        <4>3. d \in native /\ e \in native
          BY <2>6, <3>1, <3>2, <4>1, <4>2
        <4>4. d = e
          BY <1>1, <2>1, <3>1, <4>1, <4>3 DEF ReadWell
        <4> QED BY <3>1, <4>4
      <3>3. m.uuid \in live => books[m.uuid].key = d.key
        BY <2>6, <3>1
      <3>4. \A a \in ledger : a.uuid = m.uuid => a.key = d.key
        BY <2>7, <3>1
      <3> QED BY <3>1, <3>2, <3>3, <3>4
    <2>10. /\ pass'.seen = seen /\ pass'.new = plan.new /\ pass'.changed = plan.changed
           /\ pass'.moved = plan.moved /\ pass'.removed = plan.removed
           /\ books' = books /\ ledger' = ledger /\ live' = live
      BY <1>1, <1>5, <2>2 DEF tables, live
    <2>11. PlanWell'
      BY <2>8, <2>9, <2>10 DEF PlanWell
    <2> QED BY <1>5, <2>11 DEF Held
  <1> QED BY <1>3, <1>4, <1>5

LEMMA InitAgreed ==
    ASSUME Init
    PROVE  Agreed
  <1>1. Tables.files = {} /\ Tables.ledger = {} /\ step = "idle"
    BY DEF Init, Tables
  <1> QED BY <1>1 DEF Agreed, Held, Placed, HasHome, Apart, OneEntry, Handles, OneSlot, OneBacking

(* Nothing of the tables changes. *)
LEMMA StillPlaced ==
    ASSUME TypeOK, Placed(Tables), UNCHANGED tables
    PROVE  Placed(Tables)'
  <1>1. books' \in [Id -> Book \cup {None}] /\ UNCHANGED <<books, files, ledger>>
    BY DEF TypeOK, tables
  <1> QED BY <1>1, PlacedSame

LEMMA StillAgreed ==
    ASSUME TypeOK, Agreed, UNCHANGED <<tables, step, pass>>
    PROVE  Agreed'
  <1>1. Onward
    BY DEF Onward, tables
  <1>2. Held' /\ Placed(Tables)'
    BY <1>1, HeldOn, StillPlaced DEF Agreed
  <1> QED BY <1>2 DEF Agreed

LEMMA WalkedAgreed ==
    ASSUME TypeOK, Agreed, UNCHANGED tables, NEW late, NEW lost, NEW incomplete,
           Walked(late, lost, incomplete)
    PROVE  Agreed'
  <1>1. Placed(Tables)'
    BY StillPlaced DEF Agreed
  <1>2. step' = "read" /\ pass'.native = native_rows
    BY DEF Walked
  <1>3. books' = books /\ ledger' = ledger /\ live' = live
    BY DEF tables, live
  <1>4. \A b \in live, a \in ledger : a.uuid # b
    BY DEF Agreed, Placed, Handles, live, Stands, Tables
  <1>5. ReadWell'
    <2>1. \A r \in native_rows : r.uuid \in live /\ books[r.uuid].key = r.key
      BY NativeWell DEF Agreed
    <2>2. \A r, q \in native_rows : r.uuid = q.uuid => r = q
      BY NativeWell DEF Agreed
    <2>3. \A r \in native_rows, a \in ledger : a.uuid = r.uuid => a.key = r.key
      BY <1>4, <2>1
    <2> QED BY <1>2, <1>3, <2>1, <2>2, <2>3 DEF ReadWell
  <1> QED BY <1>1, <1>2, <1>5 DEF Agreed, Held

LEMMA ScanAgreed ==
    ASSUME TypeOK, Agreed, StartScan \/ Walk \/ WalkMisses \/ Diff \/ GcSelect \/ ScanFails
    PROVE  Agreed'
  <1>1. UNCHANGED tables
    BY DEF StartScan, Walk, WalkMisses, Diff, GcSelect, ScanFails
  <1>2. Placed(Tables)'
    BY <1>1, StillPlaced DEF Agreed
  <1>3. CASE StartScan \/ GcSelect \/ ScanFails
    <2>1. step' \notin {"read", "sync"}
      BY <1>3 DEF StartScan, GcSelect, ScanFails
    <2> QED BY <1>2, <2>1, HeldIdle DEF Agreed
  <1>4. CASE Walk
    <2>1. PICK late : Walked(late, {}, FALSE)
      BY <1>4 DEF Walk
    <2> QED BY <1>1, <2>1, WalkedAgreed
  <1>5. CASE WalkMisses
    <2>1. PICK lost, incomplete : Walked(Paths, lost, incomplete)
      BY <1>5 DEF WalkMisses
    <2> QED BY <1>1, <2>1, WalkedAgreed
  <1>6. CASE Diff
    BY <1>2, <1>6, DiffHolds DEF Agreed
  <1> QED BY <1>3, <1>4, <1>5, <1>6

LEMMA SyncAgreed ==
    ASSUME troubled' = {}, Typed, Agreed, Sync
    PROVE  Agreed'
  <1>1. TypeOK /\ PlanTyped /\ PlanWell /\ Placed(Tables) /\ step = "sync"
    BY DEF Typed, PassTyped, Agreed, Held, Sync
  <1>2. Calmly
    BY <1>1, SyncTroubles DEF Calmly
  <1>3. PICK T : T = sync_books(Tables, pass)
    OBVIOUS
  <1>4. Cardinality(pass.changed \cup pass.new) <= Cardinality(Spare(Tables)) /\ SetTables(T)
    BY <1>3 DEF Sync
  <1>5. Placed(T)
    BY <1>1, <1>2, <1>3, <1>4, TransactionPlaces
  <1>6. Keyed(T)
    BY <1>1, <1>3, <1>4, TransactionKeyed
  <1>7. Placed(Tables)'
    BY <1>4, <1>5, <1>6, PlacedNext
  <1>8. step' \notin {"read", "sync"}
    BY DEF Sync
  <1> QED BY <1>7, <1>8, HeldIdle DEF Agreed

LEMMA PurgeAgreed ==
    ASSUME TypeOK, Agreed, GcDelete
    PROVE  Agreed'
  <1>1. PICK T : T = Dropped(Tables, pass)
    OBVIOUS
  <1>2. SetTables(T) /\ step' \notin {"read", "sync"}
    BY <1>1 DEF GcDelete
  <1>3. Keyed(T) /\ Placed(T)
    BY <1>1, TablesKeyed, DroppedKeyed, DroppedPlaced DEF Agreed
  <1>4. Placed(Tables)'
    BY <1>2, <1>3, PlacedNext
  <1> QED BY <1>2, <1>4, HeldIdle DEF Agreed

LEMMA FlagsAgreed ==
    ASSUME Typed, Agreed, NEW b, Read(b) \/ RetentionPasses(b) \/ Restart
    PROVE  Agreed'
  <1>1. TypeOK /\ Typed' /\ UNCHANGED <<files, ledger>>
    BY FlagsTyped DEF Typed, Read, RetentionPasses, Restart
  <1>2. \A c \in Id : /\ books'[c] # None <=> books[c] # None
                      /\ books[c] # None => books'[c].key = books[c].key
    <2>1. /\ books \in [Id -> Book \cup {None}] /\ books' \in [Id -> Book \cup {None}]
          /\ \A c \in live : c \in Id /\ books[c] \in Book
      BY <1>1 DEF Typed, TypeOK, live
    <2>2. \A r \in Book : /\ [r EXCEPT !.read = TRUE] \in Book /\ [r EXCEPT !.read = TRUE].key = r.key
                          /\ [r EXCEPT !.missing = "old"] \in Book
                          /\ [r EXCEPT !.missing = "old"].key = r.key
                          /\ [r EXCEPT !.missing = "recent"] \in Book
                          /\ [r EXCEPT !.missing = "recent"].key = r.key
      BY DEF Book
    <2>3. SUFFICES ASSUME NEW c \in Id
                   PROVE  /\ books'[c] # None <=> books[c] # None
                          /\ books[c] # None => books'[c].key = books[c].key
      OBVIOUS
    <2>4. \/ books'[c] = books[c]
          \/ c \in live /\ books'[c] \in {[books[c] EXCEPT !.read = TRUE],
                [books[c] EXCEPT !.missing = "old"], [books[c] EXCEPT !.missing = "recent"]}
      BY <2>1 DEF Read, RetentionPasses, Restart
    <2>5. CASE c \in live
      <3>1. books[c] \in Book
        BY <2>1, <2>5
      <3>2. books'[c] \in Book /\ books'[c].key = books[c].key
        BY <2>2, <2>4, <3>1
      <3> QED BY <3>1, <3>2, Nulls
    <2>6. CASE c \notin live
      BY <2>4, <2>6
    <2> QED BY <2>5, <2>6
  <1>3. Placed(Tables)'
    <2>1. books' \in [Id -> Book \cup {None}]
      BY <1>1 DEF Typed, TypeOK
    <2> QED BY <1>1, <1>2, <2>1, PlacedSame DEF Agreed
  <1>4. Held'
    <2>1. CASE Restart
      <3>1. step' \notin {"read", "sync"}
        BY <2>1 DEF Restart
      <3> QED BY <3>1, HeldIdle
    <2>2. CASE Read(b) \/ RetentionPasses(b)
      <3>1. UNCHANGED <<step, pass>> /\ Onward
        BY <1>1, <1>2, <2>2 DEF Read, RetentionPasses, Onward
      <3> QED BY <3>1, HeldOn DEF Agreed
    <2> QED BY <2>1, <2>2
  <1> QED BY <1>3, <1>4 DEF Agreed

LEMMA MergeAgreed ==
    ASSUME troubled' = {}, TypeOK, Agreed, NEW s \in Id, NEW t \in Id, merge_books(s, t)
    PROVE  Agreed'
  <1>1. /\ s \in live /\ t \in live /\ s # t /\ UNCHANGED <<step, pass>>
        /\ Shapes(s) \cap Shapes(t) = {} /\ ~GuardLost(s)
    BY MergeIs
  <1>2. PICK M \in Merged(s, t) : SetTables(Dropped(M, {s}))
    BY MergeIs
  <1>3. PICK T : T = Dropped(M, {s})
    OBVIOUS
  <1>4. Keyed(T)
    BY <1>1, <1>3, MergedKeyed, DroppedKeyed
  <1>5. MergeLeaves(T, s, t)
    BY <1>1, <1>3, MergeDoes DEF Agreed
  <1>6. Placed(T)
    BY <1>1, <1>5, MergePlaced DEF Agreed
  <1>7. Placed(Tables)'
    BY <1>2, <1>3, <1>4, <1>6, PlacedNext
  <1>8. Onward
    <2>1. books' = T.books /\ ledger' = T.ledger
      BY <1>2, <1>3 DEF SetTables
    <2>2. \A b \in Id : books'[b] # None => books[b] # None /\ books'[b].key = books[b].key
      BY <1>5, <2>1 DEF MergeLeaves, Stands, live
    <2>3. \A a \in T.ledger : \/ \E c \in ledger : c.uuid = a.uuid /\ c.key = a.key
                              \/ a.uuid \in live /\ a.key = books[a.uuid].key
      <3>1. \A a : Guard(a, s, t) => a.uuid = s /\ a.key = books[s].key
        BY DEF Guard, Entry
      <3> QED BY <1>1, <1>5, <3>1 DEF MergeLeaves, CameEntry, Came
    <2> QED BY <2>1, <2>2, <2>3 DEF Onward
  <1> QED BY <1>1, <1>7, <1>8, HeldOn DEF Agreed

LEMMA DeleteAgreed ==
    ASSUME TypeOK, Agreed, NEW b, NEW chosen \in SUBSET FilesOf(Tables, b), delete_book_items(b, chosen)
    PROVE  Agreed'
  <1>1. PICK gone : gone = IF chosen = FilesOf(Tables, b) THEN {b} ELSE {}
    OBVIOUS
  <1>2. PICK U, T : U = Thinned(b, chosen) /\ T = Dropped(U, gone)
    OBVIOUS
  <1>3. SetTables(T) /\ UNCHANGED <<step, pass>>
    BY <1>1, <1>2, DeleteIs
  <1>4. Keyed(U) /\ Placed(U)
    BY <1>2, ThinnedKeyed, ThinnedPlaced DEF Agreed
  <1>5. Keyed(T) /\ Placed(T)
    BY <1>2, <1>4, DroppedKeyed, DroppedPlaced
  <1>6. Placed(Tables)'
    BY <1>3, <1>5, PlacedNext
  <1>7. Onward
    <2>1. /\ T.books = [c \in Id |-> IF c \in gone THEN None ELSE books[c]]
          /\ T.ledger \subseteq ledger
      BY <1>2 DEF Dropped, Thinned
    <2> QED BY <1>3, <2>1 DEF Onward, SetTables
  <1> QED BY <1>3, <1>6, <1>7, HeldOn DEF Agreed

(* Troubles are not forgotten. *)
LEMMA MoreTroubles == [Next]_vars => troubled \subseteq troubled'
  <1>1. CASE Sync
    BY <1>1, SyncTroubles
  <1>2. CASE \E s \in Id, t \in Id : merge_books(s, t)
    BY <1>2, MergeIs
  <1>3. CASE \E b \in Id : \E chosen \in SUBSET FilesOf(Tables, b) : delete_book_items(b, chosen)
    BY <1>3 DEF delete_book_items
  <1>4. CASE \E p \in Paths : \/ \E w \in Works : AddFile(p, w) \/ EditFile(p, w)
                              \/ \E q \in Paths : MoveFile(p, q) \/ CopyFile(p, q)
                              \/ RemoveFile(p) \/ Unlink(p)
    BY <1>4 DEF AddFile, EditFile, MoveFile, CopyFile, RemoveFile, Unlink, Touched
  <1>5. CASE StartScan \/ Walk \/ WalkMisses \/ Diff \/ GcSelect \/ GcDelete \/ ScanFails
    BY <1>5 DEF StartScan, Walk, WalkMisses, Diff, GcSelect, GcDelete, ScanFails
  <1>6. CASE Restart \/ \E b \in Id : Read(b) \/ RetentionPasses(b)
    BY <1>6 DEF Restart, Read, RetentionPasses
  <1>7. CASE UNCHANGED vars
    BY <1>7 DEF vars
  <1> QED BY <1>1, <1>2, <1>3, <1>4, <1>5, <1>6, <1>7 DEF Next

LEMMA NextAgreed ==
    ASSUME troubled' = {}, Typed, Agreed, [Next]_vars
    PROVE  Agreed'
  <1>1. TypeOK
    BY DEF Typed
  <1>2. CASE StartScan \/ Walk \/ WalkMisses \/ Diff \/ GcSelect \/ ScanFails
    BY <1>1, <1>2, ScanAgreed
  <1>3. CASE Sync
    BY <1>3, SyncAgreed
  <1>4. CASE GcDelete
    BY <1>1, <1>4, PurgeAgreed
  <1>5. CASE \E p \in Paths : \/ \E w \in Works : AddFile(p, w) \/ EditFile(p, w)
                              \/ \E q \in Paths : MoveFile(p, q) \/ CopyFile(p, q)
                              \/ RemoveFile(p) \/ Unlink(p)
    <2>1. UNCHANGED <<tables, step, pass>>
      BY <1>5 DEF AddFile, EditFile, MoveFile, CopyFile, RemoveFile, Unlink, Touched
    <2> QED BY <1>1, <2>1, StillAgreed
  <1>6. CASE \E b \in Id : Read(b) \/ RetentionPasses(b)
    BY <1>6, FlagsAgreed
  <1>7. CASE \E s \in Id, t \in Id : merge_books(s, t)
    BY <1>1, <1>7, MergeAgreed
  <1>8. CASE \E b \in Id : \E chosen \in SUBSET FilesOf(Tables, b) : delete_book_items(b, chosen)
    BY <1>1, <1>8, DeleteAgreed
  <1>9. CASE Restart
    BY <1>9, FlagsAgreed
  <1>10. CASE UNCHANGED vars
    <2>1. UNCHANGED <<tables, step, pass>>
      BY <1>10 DEF vars
    <2> QED BY <1>1, <2>1, StillAgreed
  <1> QED BY <1>2, <1>3, <1>4, <1>5, <1>6, <1>7, <1>8, <1>9, <1>10 DEF Next

(* Until one of the Troubles has come, whatever deletions, merges of       *)
(* different formats and changes of the disk come between the steps of the *)
(* scans (sync_books, merge_books), and whatever a walk missed, no file is *)
(* a file of two books, or twice of one.                                   *)
THEOREM OneFileOneBook == Spec => []OneBookPerFile
  <1>1. Init => Typed /\ (untroubled => Agreed)
    BY InitTyped, InitAgreed
  <1>2. Typed /\ (untroubled => Agreed) /\ [Next]_vars => (Typed /\ (untroubled => Agreed))'
    BY NextTyped, NextAgreed, MoreTroubles DEF untroubled
  <1>3. Typed /\ (untroubled => Agreed) => OneBookPerFile
    <2>1. SUFFICES ASSUME Typed, Agreed, NEW f \in files, NEW g \in files, f.key = g.key
                   PROVE  f = g
      BY DEF OneBookPerFile, OneRowPerFile
    <2>2. PICK T : T = Tables
      OBVIOUS
    <2>3. Keyed(T) /\ Placed(T) /\ T.files = files
      BY <2>1, <2>2, TablesKeyed DEF Typed, Agreed, Tables
    <2> QED BY <2>1, <2>3, PlacedOnce
  <1> QED BY <1>1, <1>2, <1>3, PTL DEF Spec

-----------------------------------------------------------------------------
(* Index and disk, through a bucket.                                       *)

(* The files of b that have the format of p are at p. *)
Alone(T, b, p) == \A f \in T.files : f.book = b /\ FormatOf[f.key] = FormatOf[p] => f.key = p

(* The file p is written to b, which is then at p, or stays where it is;   *)
(* unless it stood at p, it loses no other file to it.                     *)
Wrote(T0, T, U, b, p) ==
    /\ Puts(T, U, b, FormatOf[p], p)
    /\ \/ U.books[b].key = p
       \/ Stands(T, b) /\ U.books[b].key = T.books[b].key /\ Alone(T, b, p)
    /\ b \in HolderOf(T0, p) \/ Alone(T, b, p)

LEMMA AloneInSlot ==
    ASSUME NEW T, NEW b, NEW p, ~slot_held_by_other(T, b, FormatOf[p], p)
    PROVE  Alone(T, b, p)
  BY DEF slot_held_by_other, SlotOf, FilesOf, Alone

LEMMA NewComer ==
    ASSUME NEW T, Keyed(T), NEW b, ~Stands(T, b), NEW p
    PROVE  Alone(T, b, p)
  BY DEF Keyed, Alone

LEMMA WriteWrote ==
    ASSUME Reads, NEW T0, NEW T, Keyed(T), Handles(T), \A c \in Id : Stands(T0, c) => Stands(T, c),
           NEW p \in Paths, pass.seen[p] \in Stat, Spare(T) # {}, NEW U, Writes(T0, T, U, p)
    PROVE  \E b \in Id : Wrote(T0, T, U, b, p)
  <1>1. T \in Db
    BY DEF Keyed
  <1>2. ASSUME NEW b \in Id, Settles(T, U, b, p)
        PROVE  Wrote(T0, T, U, b, p)
    BY <1>2, NewComer DEF Settles, Wrote
  <1>3. ASSUME NEW b, NEW v, Attaches(T, U, b, FormatOf[p], v, p), ~slot_held_by_other(T, b, FormatOf[p], p)
        PROVE  b \in Id /\ Wrote(T0, T, U, b, p)
    BY <1>3, AloneInSlot DEF Attaches, Wrote
  <1>4. FormatOf[p] \in Range(FormatOf)
    BY Nulls
  <1>5. CASE Returns(T0, T, U, p)
    <2>1. PICK b \in HolderOf(T0, p) : U = rewrite_book_in_place(T, b, Parsed(p))
      BY <1>5 DEF Returns
    <2>2. b \in Id /\ Stands(T, b)
      BY <2>1 DEF HolderOf, BooksOf, Stands
    <2>3. Moves(T, U, b, p)
      BY <1>1, <2>1, <2>2, RewriteMoves
    <2> QED BY <2>1, <2>2, <2>3 DEF Moves, Wrote
  <1>6. CASE Reattaches(T, U, p)
    <2>1. PICK m \in AttachmentsAt(T, p) :
            IF slot_held_by_other(T, m.book, m.format, p)
            THEN U = insert_book_row(forget_attachment(T, p), Parsed(p))
            ELSE U = attach_ebook_file(T, m.book, m.format, m.uuid, Parsed(p))
      BY <1>6 DEF Reattaches
    <2>2. m \in T.ledger /\ m.key = p
      BY DEF AttachmentsAt
    <2>3. m.format = FormatOf[p] /\ m.book \in Id /\ m.uuid \in Int /\ Stands(T, m.book)
      BY <1>1, <2>2 DEF Handles, Db, Attachment, Keyed
    <2>4. CASE slot_held_by_other(T, m.book, FormatOf[p], p)
      <3>1. U = insert_book_row(forget_attachment(T, p), Parsed(p))
        BY <2>1, <2>3, <2>4
      <3>2. PICK b \in Id : Settles(T, U, b, p)
        BY <1>1, <3>1, ForgetSettles
      <3> QED BY <1>2, <3>2
    <2>5. CASE ~slot_held_by_other(T, m.book, FormatOf[p], p)
      <3>1. U = attach_ebook_file(T, m.book, FormatOf[p], m.uuid, Parsed(p))
        BY <2>1, <2>3, <2>5
      <3>2. PICK v \in Int : Attaches(T, U, m.book, FormatOf[p], v, p)
        BY <1>1, <1>4, <2>3, <3>1, AttachAttaches
      <3> QED BY <1>3, <2>5, <3>2
    <2> QED BY <2>4, <2>5
  <1>7. CASE U = insert_book_row(T, Parsed(p))
    <2>1. PICK b \in Spare(T) : Settles(T, U, b, p)
      BY <1>1, <1>7, InsertSettles
    <2>2. b \in Id
      BY <2>1 DEF Settles
    <2> QED BY <1>2, <2>1, <2>2
  <1>8. CASE Joins(T, U, p)
    <2>1. PICK b \in find_attach_target(T, Parsed(p).work, FormatOf[p]) :
            IF b \in pass.removed THEN U = rewrite_book_in_place(T, b, Parsed(p))
            ELSE /\ ~slot_held_by_other(T, b, FormatOf[p], p)
                 /\ U = attach_ebook_file(T, b, FormatOf[p], stable_uuid(p), Parsed(p))
      BY <1>8 DEF Joins
    <2>2. b \in Id /\ Stands(T, b)
      BY <1>1, StandsIs DEF find_attach_target, BooksOf
    <2>3. CASE b \in pass.removed
      <3>1. Moves(T, U, b, p)
        BY <1>1, <2>1, <2>2, <2>3, RewriteMoves
      <3>2. Alone(T, b, p)
        BY <2>1 DEF find_attach_target, SlotOf, FilesOf, Alone
      <3> QED BY <2>2, <3>1, <3>2 DEF Moves, Wrote
    <2>4. CASE b \notin pass.removed
      <3>1. /\ ~slot_held_by_other(T, b, FormatOf[p], p)
            /\ U = attach_ebook_file(T, b, FormatOf[p], stable_uuid(p), Parsed(p))
        BY <2>1, <2>4
      <3>2. stable_uuid(p) \in Int
        BY DEF stable_uuid, Paths
      <3>3. PICK v \in Int : Attaches(T, U, b, FormatOf[p], v, p)
        BY <1>1, <1>4, <2>2, <3>1, <3>2, AttachAttaches
      <3> QED BY <1>3, <3>1, <3>3
    <2> QED BY <2>3, <2>4
  <1> QED BY <1>5, <1>6, <1>7, <1>8 DEF Writes

(* What the rows say, but for the files still to be written: a row is of a *)
(* file seen, with its stat, and a book at a path seen has a row there.    *)
Indexed(T, ahead) ==
    /\ \A f \in T.files : f.key \in DOMAIN pass.seen
    /\ \A f \in T.files : f.key \in ahead \/ f.stat = pass.seen[f.key]
    /\ \A b \in Id : Stands(T, b) /\ T.books[b].key \in DOMAIN pass.seen \ ahead
                        => \E f \in T.files : f.key = T.books[b].key

(* A row at the path of a book is the book's. *)
LEMMA OwnRow ==
    ASSUME NEW T, Keyed(T), Placed(T), NEW b \in Id, Stands(T, b),
           NEW f \in T.files, f.key = T.books[b].key
    PROVE  f.book = b
  <1>1. f.book \in Id /\ Stands(T, f.book)
    BY DEF Keyed, Db, Row
  <1>2. CASE T.books[f.book].key = f.key
    BY <1>1, <1>2 DEF Keyed
  <1>3. CASE InLedger(T, f)
    BY <1>3 DEF InLedger, Placed, Apart
  <1> QED BY <1>2, <1>3 DEF Placed, HasHome

LEMMA WroteIndexed ==
    ASSUME NEW T0, NEW T, Keyed(T), Placed(T), NEW U, Keyed(U), Placed(U), NEW b \in Id,
           NEW p \in DOMAIN pass.seen, Wrote(T0, T, U, b, p),
           NEW ahead, Indexed(T, ahead)
    PROVE  Indexed(U, ahead \ {p})
  <1>1. /\ U.files = {f \in T.files : ~(f.book = b /\ FormatOf[f.key] = FormatOf[p])} \cup {NewRow(b, p)}
        /\ \A c \in Id \ {b} : U.books[c] = T.books[c]
    BY DEF Wrote, Puts
  <1>2. NewRow(b, p).key = p /\ NewRow(b, p).stat = pass.seen[p]
    BY DEF NewRow
  <1>3. \A f \in U.files : f.key \in DOMAIN pass.seen
    BY <1>1, <1>2 DEF Indexed
  <1>4. ASSUME NEW f \in U.files, f.key \notin ahead \ {p}
        PROVE  f.stat = pass.seen[f.key]
    <2>1. CASE f.key = p
      <3>1. NewRow(b, p) \in U.files
        BY <1>1
      <3>2. f = NewRow(b, p)
        BY <1>2, <2>1, <3>1, PlacedOnce
      <3> QED BY <1>2, <3>2
    <2>2. CASE f.key # p
      BY <1>1, <1>2, <1>4, <2>2 DEF Indexed
    <2> QED BY <2>1, <2>2
  <1>5. ASSUME NEW c \in Id, Stands(U, c), U.books[c].key \in DOMAIN pass.seen \ (ahead \ {p})
        PROVE  \E f \in U.files : f.key = U.books[c].key
    <2>1. CASE U.books[c].key = p
      BY <1>1, <1>2, <2>1
    <2>2. CASE U.books[c].key # p
      <3>1. /\ Stands(T, c) /\ U.books[c].key = T.books[c].key
            /\ c = b => Alone(T, b, p)
        BY <1>1, <1>5, <2>2 DEF Wrote, Stands
      <3>2. PICK e \in T.files : e.key = T.books[c].key
        BY <1>5, <2>2, <3>1 DEF Indexed
      <3>3. e.book = c
        BY <3>1, <3>2, OwnRow
      <3>4. e \in U.files
        BY <1>1, <2>2, <3>1, <3>2, <3>3 DEF Alone
      <3> QED BY <3>1, <3>2, <3>4
    <2> QED BY <2>1, <2>2
  <1> QED BY <1>3, <1>4, <1>5 DEF Indexed


(* A bucket, as what each of its files does. *)
Goes(T0, g, todo) ==
    /\ g[0] = T0
    /\ \A n \in 0 .. LastPath : Keyed(g[n]) /\ Placed(g[n])
    /\ \A n \in Paths : IF n \in todo THEN \E b \in Id : Wrote(T0, g[n - 1], g[n], b, n)
                        ELSE g[n] = g[n - 1]

LEMMA LaterOn ==
    ASSUME NEW todo \in SUBSET Paths, NEW rest, todo \cap rest = {}, NEW n \in Paths
    PROVE  /\ n \in todo => /\ n \in Later(todo, rest, n - 1)
                            /\ Later(todo, rest, n) = Later(todo, rest, n - 1) \ {n}
           /\ n \notin todo => Later(todo, rest, n) = Later(todo, rest, n - 1)
  <1>1. n \in Int /\ \A p \in todo : p \in Int
    BY DEF Paths
  <1>2. \A p \in todo : (p > n - 1) <=> (p > n \/ p = n)
    BY <1>1
  <1>3. ~(n > n) /\ n > n - 1
    BY <1>1
  <1> QED BY <1>2, <1>3 DEF Later

LEMMA LaterAtFirst ==
    ASSUME NEW todo \in SUBSET Paths, NEW rest
    PROVE  Later(todo, rest, 0) = todo \cup rest
  <1>1. \A p \in todo : p > 0
    BY DEF Paths
  <1> QED BY <1>1 DEF Later

LEMMA BucketGoes ==
    ASSUME Reads, NEW T0, NEW todo \in SUBSET Paths, NEW rest, todo \cap rest = {},
           Later(todo, rest, 0) \in SUBSET Paths, \A p \in todo : pass.seen[p] \in Stat,
           NEW g, Bucket(T0, g, todo),
           \A n \in 0 .. LastPath : /\ Keyed(g[n]) /\ Placed(g[n]) /\ Grown(T0, g[n], n)
                                    /\ Cardinality(Later(todo, rest, n)) <= Cardinality(Spare(g[n]))
    PROVE  Goes(T0, g, todo)
  <1>1. SUFFICES ASSUME NEW n \in Paths, n \in todo
                 PROVE  \E b \in Id : Wrote(T0, g[n - 1], g[n], b, n)
    BY DEF Goes, Bucket
  <1>2. PICK T, U : T = g[n - 1] /\ U = g[n]
    OBVIOUS
  <1>3. /\ Keyed(T) /\ Placed(T) /\ Grown(T0, T, n - 1) /\ Writes(T0, T, U, n)
        /\ Cardinality(Later(todo, rest, n - 1)) <= Cardinality(Spare(T))
    <2>1. n - 1 \in 0 .. LastPath
      BY Bounds DEF Paths
    <2> QED BY <1>1, <1>2, <2>1 DEF Bucket
  <1>4. Handles(T) /\ \A c \in Id : Stands(T0, c) => Stands(T, c)
    BY <1>3 DEF Placed, Grown
  <1>5. Spare(T) # {}
    <2>1. n \in Later(todo, rest, n - 1) /\ Later(todo, rest, n - 1) \subseteq Later(todo, rest, 0)
      <3>1. \A p \in todo : p > 0
        BY DEF Paths
      <3> QED BY <1>1, <3>1, LaterOn DEF Later
    <2>2. Later(todo, rest, n - 1) \in SUBSET Paths /\ Spare(T) \in SUBSET Id
      BY <2>1 DEF Spare
    <2> QED BY <1>3, <2>1, <2>2, OneLeft
  <1>6. \E b \in Id : Wrote(T0, T, U, b, n)
    BY <1>1, <1>3, <1>4, <1>5, WriteWrote
  <1> QED BY <1>2, <1>6

(* Both buckets of a transaction. *)
LEMMA CourseGoes ==
    ASSUME Calmly, PlanWell, Placed(Tables), NEW g, NEW h, NEW k, Course(g, h, k)
    PROVE  Goes(AfterMoved, h, pass.changed) /\ Goes(AfterChanged, k, pass.new)
  <1>1. \A n \in 0 .. LastPath : Placed(h[n]) /\ Placed(k[n])
    BY CoursePlaces
  <1>2. /\ pass.changed \in SUBSET Paths /\ pass.new \in SUBSET Paths
        /\ pass.changed \cap pass.new = {} /\ pass.new \cap {} = {}
        /\ \A p \in pass.changed \cup pass.new : pass.seen[p] \in Stat
    BY DEF Calmly, PlanTyped, Seen
  <1>3. Reads
    BY TablesKeyed DEF Calmly
  <1>4. /\ Later(pass.changed, pass.new, 0) \in SUBSET Paths
        /\ Later(pass.new, {}, 0) \in SUBSET Paths
    BY <1>2, LaterAtFirst
  <1>5. PICK M, C : M = AfterMoved /\ C = AfterChanged
    OBVIOUS
  <1>6. /\ Bucket(M, h, pass.changed) /\ Bucket(C, k, pass.new)
        /\ \A n \in 0 .. LastPath :
              /\ Keyed(h[n]) /\ Grown(M, h[n], n)
              /\ Cardinality(Later(pass.changed, pass.new, n)) <= Cardinality(Spare(h[n]))
        /\ \A n \in 0 .. LastPath :
              /\ Keyed(k[n]) /\ Grown(C, k[n], n)
              /\ Cardinality(Later(pass.new, {}, n)) <= Cardinality(Spare(k[n]))
    BY <1>5 DEF Course
  <1>7. Goes(M, h, pass.changed)
    BY <1>1, <1>2, <1>3, <1>4, <1>6, BucketGoes
  <1>8. Goes(C, k, pass.new)
    BY <1>1, <1>2, <1>3, <1>4, <1>6, BucketGoes
  <1> QED BY <1>5, <1>7, <1>8

LEMMA BucketIndexed ==
    ASSUME NEW T0, NEW todo \in SUBSET Paths, todo \subseteq DOMAIN pass.seen, NEW rest,
           todo \cap rest = {}, NEW g, Goes(T0, g, todo), Indexed(T0, todo \cup rest)
    PROVE  Indexed(g[LastPath], rest)
  <1> DEFINE S == {n \in 0 .. LastPath : Indexed(g[n], Later(todo, rest, n))}
  <1>1. 0 \in S
    <2>1. Later(todo, rest, 0) = todo \cup rest
      BY LaterAtFirst
    <2>2. g[0] = T0 /\ 0 \in 0 .. LastPath
      BY Bounds DEF Goes
    <2> QED BY <2>1, <2>2
  <1>2. ASSUME NEW n \in Paths, n - 1 \in S
        PROVE  n \in S
    <2>1. PICK T, U, ahead : T = g[n - 1] /\ U = g[n] /\ ahead = Later(todo, rest, n - 1)
      OBVIOUS
    <2>2. /\ Keyed(T) /\ Placed(T) /\ Keyed(U) /\ Placed(U) /\ Indexed(T, ahead)
          /\ n \in 0 .. LastPath
      <3>1. n - 1 \in 0 .. LastPath /\ n \in 0 .. LastPath
        BY Bounds DEF Paths
      <3> QED BY <1>2, <2>1, <3>1 DEF Goes
    <2>3. CASE n \in todo
      <3>1. PICK b \in Id : Wrote(T0, T, U, b, n)
        BY <2>1, <2>3 DEF Goes
      <3>2. Indexed(U, ahead \ {n})
        BY <2>2, <2>3, <3>1, WroteIndexed
      <3> QED BY <2>1, <2>2, <2>3, <3>2, LaterOn
    <2>4. CASE n \notin todo
      <3>1. U = T
        BY <2>1, <2>4 DEF Goes
      <3>2. Later(todo, rest, n) = ahead
        BY <2>1, <2>4, LaterOn
      <3>3. Indexed(g[n], Later(todo, rest, n))
        BY <2>1, <2>2, <3>1, <3>2
      <3> QED BY <2>2, <3>3
    <2> QED BY <2>3, <2>4
  <1> HIDE DEF S
  <1>3. LastPath \in S
    BY <1>1, <1>2, UpToTheLast
  <1>4. Later(todo, rest, LastPath) = rest
    BY NothingLater
  <1> QED BY <1>3, <1>4 DEF S

(* What no file is written to stays empty. *)
LEMMA BucketLeaves ==
    ASSUME NEW T0, NEW todo, NEW g, Goes(T0, g, todo), NEW q, q \notin todo,
           \A f \in T0.files : f.key # q
    PROVE  \A f \in g[LastPath].files : f.key # q
  <1> DEFINE S == {n \in 0 .. LastPath : \A f \in g[n].files : f.key # q}
  <1>1. 0 \in S
    BY Bounds DEF Goes
  <1>2. ASSUME NEW n \in Paths, n - 1 \in S
        PROVE  n \in S
    <2>1. n \in 0 .. LastPath
      BY Bounds DEF Paths
    <2>2. PICK T, U : T = g[n - 1] /\ U = g[n]
      OBVIOUS
    <2>3. \A f \in T.files : f.key # q
      BY <1>2, <2>2
    <2>4. CASE n \in todo
      <3>1. PICK b \in Id : Wrote(T0, T, U, b, n)
        BY <2>2, <2>4 DEF Goes
      <3>2. U.files \subseteq T.files \cup {NewRow(b, n)} /\ NewRow(b, n).key = n
        BY <3>1 DEF Wrote, Puts, NewRow
      <3> QED BY <2>1, <2>2, <2>3, <2>4, <3>2
    <2>5. CASE n \notin todo
      BY <2>1, <2>2, <2>3, <2>5 DEF Goes
    <2> QED BY <2>4, <2>5
  <1> HIDE DEF S
  <1>3. LastPath \in S
    BY <1>1, <1>2, UpToTheLast
  <1> QED BY <1>3 DEF S

-----------------------------------------------------------------------------
(* Index and disk: what a walk that saw everything makes of the index.     *)

(* A file seen is of a row, or new, or has come from elsewhere; a file not *)
(* seen is removed, or has gone where its stat is.                         *)
Paired(plan, seen, db) ==
    /\ \A p \in DOMAIN seen : \/ \E r \in db : r.key = p
                              \/ p \in plan.new \/ \E m \in plan.moved : m.to = p
    /\ \A r \in db : r.key \notin plan.new /\ \A m \in plan.moved : m.to # r.key
    /\ \A r \in db : r.has_file /\ r.key \notin DOMAIN seen =>
          \/ r.uuid \in plan.removed
          \/ \E m \in plan.moved : m.uuid = r.uuid /\ seen[m.to] = r.stat
    /\ \A u \in plan.removed \cup {m.uuid : m \in plan.moved} :
          \E r \in db : r.uuid = u /\ r.has_file /\ r.key \notin DOMAIN seen
    /\ (\A r, q \in db : r.uuid = q.uuid => r = q)
          => \A m, n \in plan.moved : m.to = n.to <=> m.uuid = n.uuid

(* A file seen where a row is has changed if the row, the attached file's  *)
(* before the book's, says otherwise.                                      *)
Compared(plan, seen, db, merged) ==
    /\ \A r \in db : r.key \in DOMAIN seen => \E q \in db :
          /\ q.key = r.key /\ (q \in merged \/ \A x \in merged : x.key # r.key)
          /\ r.key \in plan.changed <=> (~q.has_file \/ q.stat # seen[q.key])
    /\ \A p \in plan.changed : p \in DOMAIN seen /\ \E r \in db : r.key = p

(* The pairs of departures and arrivals, each of one. *)
LEMMA PairsMatch ==
    ASSUME NEW D, NEW A, NEW seen, NEW x \in match_moved_files(D, A, seen),
           NEW y \in match_moved_files(D, A, seen)
    PROVE  /\ x[1] \in D /\ x[2] \in A /\ x = <<x[1], x[2]>> /\ seen[x[2]] = x[1].stat
           /\ x[1] = y[1] <=> x[2] = y[2]
  <1> DEFINE Alikes(d, a) == seen[a] = d.stat /\ FormatOf[a] = FormatOf[d.key]
             Theirs(a) == {d \in D : Alikes(d, a)}
             Others(d) == {a \in A : Alikes(d, a)}
             Stem(d, a) == StemOf[a] = StemOf[d.key]
  <1>1. \A z \in match_moved_files(D, A, seen) :
           /\ z \in D \X A /\ Alikes(z[1], z[2])
           /\ \/ Theirs(z[2]) = {z[1]} /\ Others(z[1]) = {z[2]}
              \/ /\ {e \in Theirs(z[2]) : Stem(e, z[2])} = {z[1]}
                 /\ {b \in Others(z[1]) : Stem(z[1], b)} = {z[2]}
    BY DEF match_moved_files
  <1>2. \A z \in match_moved_files(D, A, seen) : z[1] \in D /\ z[2] \in A /\ z = <<z[1], z[2]>>
    BY <1>1
  <1>3. \A z \in match_moved_files(D, A, seen) :
           /\ Stem(z[1], z[2]) \/ (Theirs(z[2]) = {z[1]} /\ Others(z[1]) = {z[2]})
           /\ z[1] \in Theirs(z[2]) /\ z[2] \in Others(z[1])
    BY <1>1, <1>2
  <1>4. ASSUME x[2] = y[2]
        PROVE  x[1] = y[1]
    <2>1. y[1] \in Theirs(x[2]) /\ x[1] \in Theirs(x[2])
      BY <1>3, <1>4
    <2>2. CASE Theirs(x[2]) = {x[1]} \/ Theirs(y[2]) = {y[1]}
      BY <1>4, <2>1, <2>2
    <2>3. CASE /\ {e \in Theirs(x[2]) : Stem(e, x[2])} = {x[1]}
               /\ {e \in Theirs(y[2]) : Stem(e, y[2])} = {y[1]}
      BY <1>4, <2>3
    <2> QED BY <1>1, <2>2, <2>3
  <1>5. ASSUME x[1] = y[1]
        PROVE  x[2] = y[2]
    <2>1. y[2] \in Others(x[1]) /\ x[2] \in Others(x[1])
      BY <1>3, <1>5
    <2>2. CASE Others(x[1]) = {x[2]} \/ Others(y[1]) = {y[2]}
      BY <1>5, <2>1, <2>2
    <2>3. CASE /\ {b \in Others(x[1]) : Stem(x[1], b)} = {x[2]}
               /\ {b \in Others(y[1]) : Stem(y[1], b)} = {y[2]}
      BY <1>5, <2>3
    <2> QED BY <1>1, <2>2, <2>3
  <1> QED BY <1>1, <1>2, <1>4, <1>5

LEMMA PlanPairs ==
    ASSUME NEW seen, NEW native, NEW merged, NEW plan, NEW db, db = native \cup merged,
           plan = diff_library(seen, native, merged, TRUE)
    PROVE  Paired(plan, seen, db)
  <1>1. PICK known, arrivals, departures, pairs :
          /\ known = {r.key : r \in db} /\ arrivals = DOMAIN seen \ known
          /\ departures = {r \in FileBacked(db) : r.key \notin DOMAIN seen}
          /\ pairs = match_moved_files(departures, arrivals, seen)
    OBVIOUS
  <1>2. /\ plan.new = arrivals \ {da[2] : da \in pairs}
        /\ plan.moved = {[uuid |-> da[1].uuid, to |-> da[2]] : da \in pairs}
        /\ plan.removed = {r.uuid : r \in departures \ {da[1] : da \in pairs}}
    BY <1>1 DEF diff_library
  <1>3. \A d : d \in departures <=> d \in db /\ d.has_file /\ d.key \notin DOMAIN seen
    BY <1>1 DEF FileBacked
  <1>4. \A x, y \in pairs :
           /\ x[1] \in departures /\ x[2] \in arrivals /\ seen[x[2]] = x[1].stat
           /\ x[1] = y[1] <=> x[2] = y[2]
    <2>1. SUFFICES ASSUME NEW x \in pairs, NEW y \in pairs
                   PROVE  /\ x[1] \in departures /\ x[2] \in arrivals /\ seen[x[2]] = x[1].stat
                          /\ x[1] = y[1] <=> x[2] = y[2]
      OBVIOUS
    <2>2. /\ x \in match_moved_files(departures, arrivals, seen)
          /\ y \in match_moved_files(departures, arrivals, seen)
      BY <1>1
    <2> QED BY <2>2, PairsMatch
  <1>5. ASSUME NEW m \in plan.moved
        PROVE  \E x \in pairs : m.uuid = x[1].uuid /\ m.to = x[2]
    <2>1. PICK x \in pairs : m = [uuid |-> x[1].uuid, to |-> x[2]]
      BY <1>2
    <2> QED BY <2>1
  <1>6. \A x \in pairs : \E m \in plan.moved : m.uuid = x[1].uuid /\ m.to = x[2]
    <2>1. \A x \in pairs : /\ [uuid |-> x[1].uuid, to |-> x[2]] \in plan.moved
                           /\ [uuid |-> x[1].uuid, to |-> x[2]].uuid = x[1].uuid
                           /\ [uuid |-> x[1].uuid, to |-> x[2]].to = x[2]
      BY <1>2
    <2> QED BY <2>1
  <1>7. ASSUME NEW p \in DOMAIN seen, \A r \in db : r.key # p, p \notin plan.new
        PROVE  \E m \in plan.moved : m.to = p
    <2>1. p \in arrivals
      BY <1>1, <1>7
    <2>2. PICK x \in pairs : x[2] = p
      BY <1>2, <1>7, <2>1
    <2> QED BY <1>6, <2>2
  <1>8. ASSUME NEW r \in db
        PROVE  r.key \notin plan.new /\ \A m \in plan.moved : m.to # r.key
    <2>1. r.key \notin arrivals
      BY <1>1
    <2>2. r.key \notin plan.new
      BY <1>2, <2>1
    <2>3. ASSUME NEW m \in plan.moved
          PROVE  m.to # r.key
      <3>1. PICK x \in pairs : m.to = x[2]
        BY <1>5
      <3>2. x[2] \in arrivals
        BY <1>4
      <3> QED BY <2>1, <3>1, <3>2
    <2> QED BY <2>2, <2>3
  <1>9. ASSUME NEW r \in db, r.has_file, r.key \notin DOMAIN seen, r.uuid \notin plan.removed
        PROVE  \E m \in plan.moved : m.uuid = r.uuid /\ seen[m.to] = r.stat
    <2>1. PICK x \in pairs : x[1] = r
      BY <1>2, <1>3, <1>9
    <2>2. PICK m \in plan.moved : m.uuid = x[1].uuid /\ m.to = x[2]
      BY <1>6
    <2>3. seen[x[2]] = x[1].stat
      BY <1>4
    <2> QED BY <2>1, <2>2, <2>3
  <1>10. ASSUME NEW u \in plan.removed \cup {m.uuid : m \in plan.moved}
         PROVE  \E r \in db : r.uuid = u /\ r.has_file /\ r.key \notin DOMAIN seen
    <2>1. CASE u \in plan.removed
      BY <1>2, <1>3, <2>1
    <2>2. CASE u \notin plan.removed
      <3>1. PICK m \in plan.moved : m.uuid = u
        BY <2>2
      <3> QED BY <1>3, <1>4, <1>5, <3>1
    <2> QED BY <2>1, <2>2
  <1>11. ASSUME \A r, q \in db : r.uuid = q.uuid => r = q, NEW m \in plan.moved, NEW n \in plan.moved
         PROVE  m.to = n.to <=> m.uuid = n.uuid
    <2>1. PICK x \in pairs, y \in pairs : /\ m.uuid = x[1].uuid /\ m.to = x[2]
                                          /\ n.uuid = y[1].uuid /\ n.to = y[2]
      BY <1>5
    <2>2. x[1] \in db /\ y[1] \in db /\ (x[1] = y[1] <=> x[2] = y[2])
      BY <1>3, <1>4
    <2> QED BY <1>11, <2>1, <2>2
  <1>12. \A p \in DOMAIN seen : \/ \E r \in db : r.key = p
                                \/ p \in plan.new \/ \E m \in plan.moved : m.to = p
    BY <1>7
  <1>13. \A r \in db : r.has_file /\ r.key \notin DOMAIN seen =>
            \/ r.uuid \in plan.removed
            \/ \E m \in plan.moved : m.uuid = r.uuid /\ seen[m.to] = r.stat
    BY <1>9
  <1>14. (\A r, q \in db : r.uuid = q.uuid => r = q)
            => \A m, n \in plan.moved : m.to = n.to <=> m.uuid = n.uuid
    BY <1>11
  <1> QED BY <1>8, <1>10, <1>12, <1>13, <1>14 DEF Paired

LEMMA PlanCompares ==
    ASSUME NEW seen, NEW native, NEW merged, NEW trustworthy, NEW plan, NEW db, db = native \cup merged,
           plan = diff_library(seen, native, merged, trustworthy)
    PROVE  Compared(plan, seen, db, merged)
  <1> DEFINE At(p) == {r \in merged : r.key = p}
             RowAt(p) == CHOOSE r \in (IF At(p) # {} THEN At(p) ELSE native) : r.key = p
  <1>1. plan.changed = {p \in DOMAIN seen \cap {r.key : r \in db} :
                          ~RowAt(p).has_file \/ RowAt(p).stat # seen[p]}
    BY DEF diff_library
  <1>2. ASSUME NEW r \in db
        PROVE  /\ RowAt(r.key) \in db /\ RowAt(r.key).key = r.key
               /\ RowAt(r.key) \in merged \/ \A x \in merged : x.key # r.key
    <2>1. CASE At(r.key) # {}
      <3>1. \E x \in At(r.key) : x.key = r.key
        BY <2>1
      <3>2. RowAt(r.key) \in At(r.key)
        BY <2>1, <3>1
      <3> QED BY <3>2
    <2>2. CASE At(r.key) = {}
      <3>1. r \in native /\ \A x \in merged : x.key # r.key
        BY <1>2, <2>2
      <3>2. RowAt(r.key) \in native /\ RowAt(r.key).key = r.key
        BY <2>2, <3>1
      <3> QED BY <3>1, <3>2
    <2> QED BY <2>1, <2>2
  <1> HIDE DEF RowAt
  <1>3. ASSUME NEW r \in db, r.key \in DOMAIN seen
        PROVE  \E q \in db :
                  /\ q.key = r.key /\ (q \in merged \/ \A x \in merged : x.key # r.key)
                  /\ r.key \in plan.changed <=> (~q.has_file \/ q.stat # seen[q.key])
    <2>1. r.key \in plan.changed <=> (~RowAt(r.key).has_file \/ RowAt(r.key).stat # seen[r.key])
      BY <1>1, <1>3
    <2> QED BY <1>2, <2>1
  <1>4. \A p \in plan.changed : p \in DOMAIN seen /\ \E r \in db : r.key = p
    BY <1>1
  <1> QED BY <1>3, <1>4 DEF Compared


(* The uuid a scan knows the file of a row by: its book's, or its handle. *)
Names(T, f, u) ==
    \/ u = f.book /\ T.books[u].key = f.key
    \/ \E a \in T.ledger : a.uuid = u /\ a.book = f.book /\ a.key = f.key

(* The rows a scan reads of the index: one for each file, by that uuid,    *)
(* and one for each book without a file.                                   *)
Listed(db) ==
    /\ \A r \in db : IF r.has_file
          THEN \E f \in files : f.key = r.key /\ f.stat = r.stat /\ Names(Tables, f, r.uuid)
          ELSE r.uuid \in live /\ r.key = books[r.uuid].key /\ \A f \in files : f.book # r.uuid
    /\ \A f \in files, u \in Int : Names(Tables, f, u) =>
          \E r \in db : r.uuid = u /\ r.key = f.key /\ r.stat = f.stat /\ r.has_file
    /\ \A b \in live : (\A f \in files : f.book # b) =>
          \E r \in db : r.key = books[b].key /\ ~r.has_file
    /\ \A r, q \in db : r.uuid = q.uuid => r = q

LEMMA IndexListed ==
    ASSUME TypeOK, Placed(Tables)
    PROVE  /\ Listed(native_rows \cup merged_rows)
           /\ \A r \in merged_rows : r.has_file /\ \E a \in ledger : a.key = r.key
  <1>1. /\ Tables.books = books /\ Tables.files = files /\ Tables.ledger = ledger
        /\ \A f \in files : f.book \in live
        /\ \A m, n \in ledger : m.uuid = n.uuid => m = n
        /\ \A a \in ledger : a.uuid \notin live
        /\ live \subseteq Id /\ Id \subseteq Int
    <2>1. \A a \in ledger : a.uuid \notin live
      BY DEF Placed, Handles, Tables, Stands, live
    <2> QED BY <2>1 DEF Tables, TypeOK, live, Id
  <1>2. Keyed(Tables)
    BY TablesKeyed
  <1>3. ASSUME NEW r \in native_rows
        PROVE  \/ \E f \in files : /\ books[f.book].key = f.key
                                   /\ r = [uuid |-> f.book, key |-> f.key, stat |-> f.stat, has_file |-> TRUE]
               \/ \E b \in live : /\ FilesOf(Tables, b) = {}
                                  /\ r = [uuid |-> b, key |-> books[b].key, stat |-> 0, has_file |-> FALSE]
    BY <1>3 DEF native_rows
  <1>4. ASSUME NEW r \in merged_rows
        PROVE  \E a \in ledger, f \in files :
                  /\ a.book = f.book /\ a.key = f.key
                  /\ r = [uuid |-> a.uuid, key |-> a.key, stat |-> f.stat, has_file |-> TRUE]
    <2>1. PICK x \in ledger \X files :
            /\ x[1].book = x[2].book /\ x[1].key = x[2].key
            /\ r = [uuid |-> x[1].uuid, key |-> x[1].key, stat |-> x[2].stat, has_file |-> TRUE]
      BY <1>4 DEF merged_rows
    <2>2. x[1] \in ledger /\ x[2] \in files
      BY <2>1
    <2> QED BY <2>1, <2>2
  <1>5. ASSUME NEW r \in native_rows \cup merged_rows
        PROVE  IF r.has_file
               THEN \E f \in files : f.key = r.key /\ f.stat = r.stat /\ Names(Tables, f, r.uuid)
               ELSE r.uuid \in live /\ r.key = books[r.uuid].key /\ \A f \in files : f.book # r.uuid
    <2>1. CASE r \in native_rows
      <3>1. CASE \E f \in files : /\ books[f.book].key = f.key
                                  /\ r = [uuid |-> f.book, key |-> f.key, stat |-> f.stat, has_file |-> TRUE]
        BY <1>1, <3>1 DEF Names
      <3>2. CASE \E b \in live : /\ FilesOf(Tables, b) = {}
                                 /\ r = [uuid |-> b, key |-> books[b].key, stat |-> 0, has_file |-> FALSE]
        BY <1>1, <3>2 DEF FilesOf
      <3> QED BY <1>3, <2>1, <3>1, <3>2
    <2>2. CASE r \in merged_rows
      <3>1. PICK a \in ledger, f \in files :
                  /\ a.book = f.book /\ a.key = f.key
                  /\ r = [uuid |-> a.uuid, key |-> a.key, stat |-> f.stat, has_file |-> TRUE]
        BY <1>4, <2>2
      <3> QED BY <1>1, <3>1 DEF Names
    <2> QED BY <2>1, <2>2
  <1>6. ASSUME NEW f \in files, NEW u \in Int, Names(Tables, f, u)
        PROVE  \E r \in native_rows \cup merged_rows :
                  r.uuid = u /\ r.key = f.key /\ r.stat = f.stat /\ r.has_file
    <2>1. CASE u = f.book /\ books[u].key = f.key
      <3>1. [uuid |-> f.book, key |-> f.key, stat |-> f.stat, has_file |-> TRUE] \in native_rows
        BY <2>1 DEF native_rows
      <3> QED BY <2>1, <3>1
    <2>2. CASE \E a \in ledger : a.uuid = u /\ a.book = f.book /\ a.key = f.key
      <3>1. PICK a \in ledger : a.uuid = u /\ a.book = f.book /\ a.key = f.key
        BY <2>2
      <3>2. /\ <<a, f>> \in ledger \X files /\ <<a, f>>[1] = a /\ <<a, f>>[2] = f
        OBVIOUS
      <3>3. [uuid |-> a.uuid, key |-> a.key, stat |-> f.stat, has_file |-> TRUE] \in merged_rows
        BY <3>1, <3>2 DEF merged_rows
      <3> QED BY <3>1, <3>3
    <2> QED BY <1>1, <1>6, <2>1, <2>2 DEF Names
  <1>7. ASSUME NEW b \in live, \A f \in files : f.book # b
        PROVE  \E r \in native_rows \cup merged_rows : r.key = books[b].key /\ ~r.has_file
    <2>1. FilesOf(Tables, b) = {}
      BY <1>1, <1>7 DEF FilesOf
    <2>2. [uuid |-> b, key |-> books[b].key, stat |-> 0, has_file |-> FALSE] \in native_rows
      BY <2>1 DEF native_rows
    <2> QED BY <2>2
  <1>8. ASSUME NEW r \in native_rows \cup merged_rows, NEW q \in native_rows \cup merged_rows,
               r.uuid = q.uuid
        PROVE  r = q
    <2>1. \A x \in native_rows : x.uuid \in live
      BY NativeWell
    <2>2. \A x \in merged_rows : x.uuid \notin live
      BY <1>1, <1>4
    <2>3. CASE r \in native_rows /\ q \in native_rows
      BY <1>8, <2>3, NativeWell
    <2>4. CASE r \in merged_rows /\ q \in merged_rows
      <3>1. PICK a \in ledger, f \in files :
                  /\ a.book = f.book /\ a.key = f.key
                  /\ r = [uuid |-> a.uuid, key |-> a.key, stat |-> f.stat, has_file |-> TRUE]
        BY <1>4, <2>4
      <3>2. PICK c \in ledger, g \in files :
                  /\ c.book = g.book /\ c.key = g.key
                  /\ q = [uuid |-> c.uuid, key |-> c.key, stat |-> g.stat, has_file |-> TRUE]
        BY <1>4, <2>4
      <3>3. a = c
        BY <1>1, <1>8, <3>1, <3>2
      <3>4. f = g
        BY <1>1, <1>2, <3>1, <3>2, <3>3, PlacedOnce
      <3> QED BY <3>1, <3>2, <3>3, <3>4
    <2> QED BY <1>8, <2>1, <2>2, <2>3, <2>4
  <1>9. \A r \in merged_rows : r.has_file /\ \E a \in ledger : a.key = r.key
    BY <1>4
  <1>10. PICK db : db = native_rows \cup merged_rows
    OBVIOUS
  <1>11. Listed(db)
    BY <1>5, <1>6, <1>7, <1>8, <1>10 DEF Listed
  <1> QED BY <1>9, <1>10, <1>11

(* Every row goes by some uuid. *)
LEMMA HasName ==
    ASSUME NEW T, Keyed(T), HasHome(T), NEW f \in T.files
    PROVE  \E u \in Int : Names(T, f, u)
  <1>1. f.book \in Int /\ \A a \in T.ledger : a.uuid \in Int
    BY DEF Keyed, Db, Row, Attachment, Id
  <1> QED BY <1>1 DEF HasHome, InLedger, Names

-----------------------------------------------------------------------------
(* Index and disk: the second of two scans.                                *)

SeenNow == [p \in OnDisk |-> disk[p].stat]

(* What one scan that saw everything and wrote it leaves: every row is of  *)
(* a file, with its stat, and a book with a file at its path has that file. *)
Half ==
    /\ \A f \in files : f.key \in OnDisk /\ f.stat = disk[f.key].stat
    /\ \A b \in live : books[b].key \in OnDisk
          => \E f \in files : f.book = b /\ f.key = books[b].key

(* What the next one leaves. *)
Full == \A p \in OnDisk : \E f \in files : f.key = p

(* After one such scan, all the next finds to do is files that have none.  *)
LEMMA HalfIsQuiet ==
    ASSUME TypeOK, Placed(Tables), Half,
           NEW plan, plan = diff_library(SeenNow, native_rows, merged_rows, TRUE)
    PROVE  /\ plan.changed = {} /\ plan.moved = {} /\ plan.removed = {}
           /\ plan.new \subseteq OnDisk /\ \A f \in files : f.key \notin plan.new
           /\ \A p \in OnDisk : p \notin plan.new => \E f \in files : f.key = p
  <1>1. PICK seen, native, merged, db :
          seen = SeenNow /\ native = native_rows /\ merged = merged_rows /\ db = native \cup merged
    OBVIOUS
  <1>2. DOMAIN seen = OnDisk /\ \A p \in OnDisk : seen[p] = disk[p].stat
    BY <1>1 DEF SeenNow
  <1>3. plan = diff_library(seen, native, merged, TRUE)
    BY <1>1
  <1>4. /\ Listed(db) /\ Paired(plan, seen, db) /\ Compared(plan, seen, db, merged)
        /\ \A r \in merged : r.has_file
    BY <1>1, <1>3, PlanPairs, PlanCompares, IndexListed
  <1>5. ASSUME NEW r \in db
        PROVE  IF r.has_file THEN r.key \in OnDisk /\ r.stat = seen[r.key]
                                  /\ \E f \in files : f.key = r.key
               ELSE r.key \notin OnDisk
    BY <1>2, <1>4 DEF Listed, Half
  <1>6. plan.moved = {} /\ plan.removed = {}
    <2>1. SUFFICES ASSUME NEW u \in plan.removed \cup {m.uuid : m \in plan.moved}
                   PROVE  FALSE
      OBVIOUS
    <2>2. PICK r \in db : r.uuid = u /\ r.has_file /\ r.key \notin DOMAIN seen
      BY <1>4 DEF Paired
    <2> QED BY <1>2, <1>5, <2>2
  <1>7. plan.changed = {}
    <2>1. SUFFICES ASSUME NEW p \in plan.changed PROVE FALSE
      OBVIOUS
    <2>2. PICK r \in db : r.key = p /\ p \in DOMAIN seen
      BY <1>4 DEF Compared
    <2>3. PICK q \in db : q.key = p /\ (~q.has_file \/ q.stat # seen[q.key])
      BY <1>4, <2>2 DEF Compared
    <2> QED BY <1>2, <1>5, <2>2, <2>3
  <1>8. plan.new \subseteq OnDisk
    BY <1>2, <1>3 DEF diff_library
  <1>9. ASSUME NEW f \in files
        PROVE  f.key \notin plan.new
    <2>1. Keyed(Tables) /\ HasHome(Tables) /\ f \in Tables.files
      BY TablesKeyed DEF Placed, Tables
    <2>2. PICK u \in Int : Names(Tables, f, u)
      BY <2>1, HasName
    <2>3. PICK r \in db : r.key = f.key
      BY <1>4, <2>2 DEF Listed
    <2> QED BY <1>4, <2>3 DEF Paired
  <1>10. ASSUME NEW p \in OnDisk, p \notin plan.new
         PROVE  \E f \in files : f.key = p
    <2>1. PICK r \in db : r.key = p
      BY <1>2, <1>4, <1>6, <1>10 DEF Paired
    <2> QED BY <1>5, <2>1
  <1> QED BY <1>6, <1>7, <1>8, <1>9, <1>10


(* A scan of a library nobody touched, about to be written. *)
Clear ==
    /\ Calmly /\ PlanWell /\ Placed(Tables)
    /\ pass = diff_library(SeenNow, native_rows, merged_rows, TRUE)

LEMMA ClearSees ==
    ASSUME Clear
    PROVE  /\ pass.seen = SeenNow /\ DOMAIN pass.seen = OnDisk
           /\ \A p \in OnDisk : pass.seen[p] = disk[p].stat
           /\ pass.changed \in SUBSET Paths /\ pass.new \in SUBSET Paths
           /\ pass.changed \subseteq DOMAIN pass.seen /\ pass.new \subseteq DOMAIN pass.seen
           /\ pass.changed \cap pass.new = {}
  <1>1. pass.seen = SeenNow
    BY DEF Clear, diff_library
  <1>2. DOMAIN SeenNow = OnDisk /\ \A p \in OnDisk : SeenNow[p] = disk[p].stat
    BY DEF SeenNow
  <1>3. PlanTyped
    BY DEF Clear, Calmly
  <1> QED BY <1>1, <1>2, <1>3 DEF PlanTyped, Seen

(* With nothing moved or changed the tables stay as they are. *)
LEMMA NoneMoved ==
    ASSUME NEW T0, NEW g, MovedStage(T0, g), pass.moved = {}
    PROVE  g[LastPath] = T0
  <1> DEFINE S == {n \in 0 .. LastPath : g[n] = T0}
  <1>1. 0 \in S
    BY Bounds DEF MovedStage
  <1>2. ASSUME NEW n \in Paths, n - 1 \in S
        PROVE  n \in S
    <2>1. n \in 0 .. LastPath
      BY Bounds DEF Paths
    <2> QED BY <1>2, <2>1 DEF MovedStage
  <1> HIDE DEF S
  <1>3. LastPath \in S
    BY <1>1, <1>2, UpToTheLast
  <1> QED BY <1>3 DEF S

LEMMA NoneWritten ==
    ASSUME NEW T0, NEW g, Bucket(T0, g, {})
    PROVE  g[LastPath] = T0
  <1> DEFINE S == {n \in 0 .. LastPath : g[n] = T0}
  <1>1. 0 \in S
    BY Bounds DEF Bucket
  <1>2. ASSUME NEW n \in Paths, n - 1 \in S
        PROVE  n \in S
    <2>1. n \in 0 .. LastPath
      BY Bounds DEF Paths
    <2> QED BY <1>2, <2>1 DEF Bucket
  <1> HIDE DEF S
  <1>3. LastPath \in S
    BY <1>1, <1>2, UpToTheLast
  <1> QED BY <1>3 DEF S

(* Files written where no book stands displace none.                       *)
LEMMA BucketFills ==
    ASSUME NEW T0, NEW todo \in SUBSET Paths, NEW g, Goes(T0, g, todo), NEW disc,
           pass.removed = {}, \A p \in todo : HolderOf(T0, p) = {},
           \A p \in disc : p \in todo \/ \E f \in T0.files : f.key = p
    PROVE  \A p \in disc : \E f \in g[LastPath].files : f.key = p
  <1> DEFINE S == {n \in 0 .. LastPath :
                     \A p \in disc : p \in Later(todo, {}, n) \/ \E f \in g[n].files : f.key = p}
  <1>1. 0 \in S
    <2>1. Later(todo, {}, 0) = todo
      <3>1. Later(todo, {}, 0) = todo \cup {}
        BY LaterAtFirst
      <3> QED BY <3>1
    <2>2. g[0] = T0 /\ 0 \in 0 .. LastPath
      BY Bounds DEF Goes
    <2> QED BY <2>1, <2>2
  <1>2. ASSUME NEW n \in Paths, n - 1 \in S
        PROVE  n \in S
    <2>1. n \in 0 .. LastPath
      BY Bounds DEF Paths
    <2>2. PICK T, U, ahead : T = g[n - 1] /\ U = g[n] /\ ahead = Later(todo, {}, n - 1)
      OBVIOUS
    <2>3. \A p \in disc : p \in ahead \/ \E f \in T.files : f.key = p
      BY <1>2, <2>2
    <2>4. CASE n \in todo
      <3>1. PICK b \in Id : Wrote(T0, T, U, b, n)
        BY <2>2, <2>4 DEF Goes
      <3>2. Alone(T, b, n)
        BY <2>4, <3>1 DEF Wrote
      <3>3. /\ U.files = {f \in T.files : ~(f.book = b /\ FormatOf[f.key] = FormatOf[n])}
                         \cup {NewRow(b, n)}
            /\ NewRow(b, n).key = n
        BY <3>1 DEF Wrote, Puts, NewRow
      <3>4. ASSUME NEW p \in disc, p \notin ahead \ {n}
            PROVE  \E f \in U.files : f.key = p
        <4>1. CASE p = n
          BY <3>3, <4>1
        <4>2. CASE p # n
          <5>1. PICK f \in T.files : f.key = p
            BY <2>3, <3>4, <4>2
          <5> QED BY <3>2, <3>3, <4>2, <5>1 DEF Alone
        <4> QED BY <4>1, <4>2
      <3>5. Later(todo, {}, n) = ahead \ {n}
        BY <2>2, <2>4, LaterOn
      <3> QED BY <2>1, <2>2, <3>4, <3>5
    <2>5. CASE n \notin todo
      <3>1. U = T
        BY <2>2, <2>5 DEF Goes
      <3>2. Later(todo, {}, n) = ahead
        BY <2>2, <2>5, LaterOn
      <3> QED BY <2>1, <2>2, <2>3, <3>1, <3>2
    <2> QED BY <2>4, <2>5
  <1> HIDE DEF S
  <1>3. LastPath \in S
    BY <1>1, <1>2, UpToTheLast
  <1>4. Later(todo, {}, LastPath) = {}
    BY NothingLater
  <1> QED BY <1>3, <1>4 DEF S

LEMMA SecondFills ==
    ASSUME Clear, Half, NEW g, NEW h, NEW k, Course(g, h, k)
    PROVE  \A p \in OnDisk : \E f \in AfterNew.files : f.key = p
  <1>1. /\ Calmly /\ PlanWell /\ Placed(Tables) /\ TypeOK
        /\ pass = diff_library(SeenNow, native_rows, merged_rows, TRUE)
    BY DEF Clear, Calmly
  <1>2. PICK plan : plan = pass
    OBVIOUS
  <1>3. /\ plan.changed = {} /\ plan.moved = {} /\ plan.removed = {}
        /\ \A f \in files : f.key \notin plan.new
        /\ \A p \in OnDisk : p \notin plan.new => \E f \in files : f.key = p
    BY <1>1, <1>2, HalfIsQuiet
  <1>4. PICK R, M, C : R = AfterRemoved /\ M = AfterMoved /\ C = AfterChanged
    OBVIOUS
  <1>5. R.files = files /\ SameBooks(Tables, R)
    <2>1. R.files = {f \in files : /\ f.book \in pass.removed \cap live => Backed(Tables, f)
                                   /\ ~\E m \in ledger :
                                      m.uuid \in pass.removed /\ m.book = f.book /\ m.key = f.key}
      BY <1>1, <1>4, FirstStage
    <2>2. SameBooks(Tables, R)
      BY <1>1, <1>4, FirstStage
    <2> QED BY <1>2, <1>3, <2>1, <2>2
  <1>6. M = R
    <2>1. MovedStage(R, g) /\ g[LastPath] = M
      BY <1>4 DEF Course
    <2> QED BY <1>2, <1>3, <2>1, NoneMoved
  <1>7. C = M
    <2>1. Bucket(M, h, {}) /\ h[LastPath] = C
      BY <1>2, <1>3, <1>4 DEF Course
    <2> QED BY <2>1, NoneWritten
  <1>8. ASSUME NEW p \in pass.new
        PROVE  HolderOf(C, p) = {}
    <2>1. SUFFICES ASSUME NEW b \in HolderOf(C, p) PROVE FALSE
      OBVIOUS
    <2>2. b \in Id /\ Stands(R, b) /\ R.books[b].key = p
      BY <1>6, <1>7, <2>1 DEF HolderOf, BooksOf, Stands
    <2>3. Stands(Tables, b) /\ Tables.books[b].key = p
      BY <1>5, <2>2 DEF SameBooks
    <2>4. b \in live /\ books[b].key = p /\ p \in OnDisk
      BY <2>2, <2>3, ClearSees DEF Tables, Stands, live
    <2> QED BY <1>2, <1>3, <2>4 DEF Half
  <1>9. Goes(C, k, pass.new) /\ k[LastPath] = AfterNew /\ pass.new \in SUBSET Paths
    BY <1>1, <1>4, CourseGoes, ClearSees DEF Course
  <1>10. \A p \in OnDisk : p \in pass.new \/ \E f \in C.files : f.key = p
    BY <1>2, <1>3, <1>5, <1>6, <1>7
  <1>11. PICK disc, todo : disc = OnDisk /\ todo = pass.new
    OBVIOUS
  <1>12. \A p \in disc : \E f \in k[LastPath].files : f.key = p
    <2>1. todo \in SUBSET Paths /\ Goes(C, k, todo) /\ pass.removed = {}
      BY <1>2, <1>3, <1>9, <1>11
    <2>2. \A p \in todo : HolderOf(C, p) = {}
      BY <1>8, <1>11
    <2>3. \A p \in disc : p \in todo \/ \E f \in C.files : f.key = p
      BY <1>10, <1>11
    <2> QED BY <2>1, <2>2, <2>3, BucketFills
  <1> QED BY <1>9, <1>11, <1>12

-----------------------------------------------------------------------------
(* Index and disk: through the moves.                                      *)

(* The row f will be moved, beyond the path n, to a file with its stat. *)
Awaits(T, f, n) ==
    \E m \in pass.moved : m.to > n /\ Names(T, f, m.uuid) /\ pass.seen[m.to] = f.stat

(* The rows that are left are of files seen or wait to be moved, and where *)
(* no bucket will write they have the stats; a book whose path was seen    *)
(* has a row there, or will have, by a move or a bucket.                   *)
Going(T, n) ==
    /\ \A f \in T.files : f.key \in DOMAIN pass.seen \/ Awaits(T, f, n)
    /\ \A f \in T.files : f.key \in DOMAIN pass.seen =>
          f.key \in pass.changed \/ f.stat = pass.seen[f.key]
    /\ \A b \in Id : Stands(T, b) /\ T.books[b].key \in DOMAIN pass.seen =>
          \/ T.books[b].key \in pass.changed \cup pass.new
          \/ \E f \in T.files : f.key = T.books[b].key
          \/ \E m \in pass.moved : m.to = T.books[b].key /\ m.to > n

(* A move that was declined left no row where its file is. *)
Unlanded(T, n) == \E m \in pass.moved : m.to <= n /\ \A f \in T.files : f.key # m.to

(* A row is where one was, or where a move took it. *)
RowsWent(T, n) ==
    \A f \in T.files : \/ \E e \in files : e.key = f.key
                       \/ \E m \in pass.moved : m.to = f.key /\ m.to <= n

(* What a clear plan says of the rows there were. *)
Departing ==
    /\ \A f \in files, m \in pass.moved : f.key # m.to
    /\ \A m, n \in pass.moved : m.to = n.to <=> m.uuid = n.uuid
    /\ \A m \in pass.moved : m.to \in Paths

LEMMA ClearDeparts ==
    ASSUME Clear
    PROVE  /\ Departing
           /\ \A f \in files, u \in Int : f.key \notin DOMAIN pass.seen /\ Names(Tables, f, u)
                => u \in pass.removed \/ \E m \in pass.moved : m.uuid = u /\ pass.seen[m.to] = f.stat
           /\ \A f \in files : f.key \in DOMAIN pass.seen =>
                f.key \in pass.changed \/ f.stat = pass.seen[f.key]
           /\ \A b \in live : books[b].key \in DOMAIN pass.seen =>
                \/ books[b].key \in pass.changed \cup pass.new
                \/ \E f \in files : f.key = books[b].key
                \/ \E m \in pass.moved : m.to = books[b].key
  <1>1. PICK plan, seen, native, merged, db :
          /\ plan = pass /\ seen = pass.seen /\ native = native_rows /\ merged = merged_rows
          /\ db = native \cup merged
    OBVIOUS
  <1>2. /\ TypeOK /\ Placed(Tables) /\ PlanTyped
        /\ plan = diff_library(seen, native, merged, TRUE)
    BY <1>1, ClearSees DEF Clear, Calmly
  <1>3. /\ Listed(db) /\ Paired(plan, seen, db) /\ Compared(plan, seen, db, merged)
        /\ \A r \in merged : r.has_file /\ \E a \in ledger : a.key = r.key
    BY <1>1, <1>2, PlanPairs, PlanCompares, IndexListed
  <1>4. Keyed(Tables) /\ HasHome(Tables) /\ Tables.files = files /\ Tables.books = books
    BY <1>2, TablesKeyed DEF Placed, Tables
  <1>5. ASSUME NEW f \in files
        PROVE  \E r \in db : r.key = f.key
    <2>1. PICK u \in Int : Names(Tables, f, u)
      BY <1>4, HasName
    <2> QED BY <1>3, <2>1 DEF Listed
  <1>6. Departing
    <2>1. \A f \in files, m \in pass.moved : f.key # m.to
      BY <1>1, <1>3, <1>5 DEF Paired
    <2>2. \A m, n \in pass.moved : m.to = n.to <=> m.uuid = n.uuid
      BY <1>1, <1>3 DEF Paired, Listed
    <2>3. \A m \in pass.moved : m.to \in Paths
      BY <1>2 DEF PlanTyped
    <2> QED BY <2>1, <2>2, <2>3 DEF Departing
  <1>7. ASSUME NEW f \in files, NEW u \in Int, f.key \notin DOMAIN pass.seen, Names(Tables, f, u)
        PROVE  u \in pass.removed \/ \E m \in pass.moved : m.uuid = u /\ pass.seen[m.to] = f.stat
    <2>1. PICK r \in db : r.uuid = u /\ r.key = f.key /\ r.stat = f.stat /\ r.has_file
      BY <1>3, <1>7 DEF Listed
    <2> QED BY <1>1, <1>3, <1>7, <2>1 DEF Paired
  <1>8. ASSUME NEW f \in files, f.key \in DOMAIN pass.seen, f.key \notin pass.changed
        PROVE  f.stat = pass.seen[f.key]
    <2>1. PICK r \in db : r.key = f.key
      BY <1>5
    <2>2. PICK q \in db : q.key = f.key /\ q.has_file /\ q.stat = seen[q.key]
      BY <1>1, <1>3, <1>8, <2>1 DEF Compared
    <2>3. PICK g \in files : g.key = q.key /\ g.stat = q.stat
      BY <1>3, <2>2 DEF Listed
    <2>4. g = f
      BY <1>2, <1>4, <2>2, <2>3, PlacedOnce
    <2> QED BY <1>1, <2>2, <2>3, <2>4
  <1>9. ASSUME NEW b \in live, books[b].key \in DOMAIN pass.seen,
               books[b].key \notin pass.changed \cup pass.new,
               \A m \in pass.moved : m.to # books[b].key
        PROVE  \E f \in files : f.key = books[b].key
    <2>1. PICK p : p = books[b].key
      OBVIOUS
    <2>2. PICK r \in db : r.key = p
      BY <1>1, <1>3, <1>9, <2>1 DEF Paired
    <2>3. PICK q \in db : q.key = p /\ q.has_file
      BY <1>1, <1>3, <1>9, <2>1, <2>2 DEF Compared
    <2> QED BY <1>3, <2>1, <2>3 DEF Listed
  <1> QED BY <1>6, <1>7, <1>8, <1>9


LEMMA GoingBegins ==
    ASSUME Clear
    PROVE  Going(AfterRemoved, 0) /\ RowsWent(AfterRemoved, 0)
  <1>1. PICK R : R = AfterRemoved
    OBVIOUS
  <1>2. /\ TypeOK /\ Placed(Tables) /\ PlanWell /\ Keyed(Tables) /\ Apart(Tables) /\ HasHome(Tables)
        /\ Tables.files = files /\ Tables.books = books /\ Tables.ledger = ledger
    BY TablesKeyed DEF Clear, Calmly, Placed, Tables
  <1>3. /\ Keyed(R) /\ SameBooks(Tables, R)
        /\ R.ledger = {m \in ledger : m.uuid \notin pass.removed}
        /\ R.files = {f \in files : /\ f.book \in pass.removed \cap live => Backed(Tables, f)
                                    /\ ~\E m \in ledger :
                                       m.uuid \in pass.removed /\ m.book = f.book /\ m.key = f.key}
    BY <1>1, <1>2, FirstStage
  <1>4. \A f \in files : f.book \in Id /\ f.book \in live /\ Stands(Tables, f.book)
    BY <1>2 DEF TypeOK, Stands, live
  <1>5. \A m \in pass.moved : m.to \in Paths /\ m.to > 0
    BY ClearDeparts DEF Departing, Paths
  <1>6. ASSUME NEW f \in R.files, f.key \notin DOMAIN pass.seen
        PROVE  Awaits(R, f, 0)
    <2>1. f \in files
      BY <1>3
    <2>2. PICK u \in Int : Names(Tables, f, u)
      BY <1>2, <2>1, HasName
    <2>3. u \notin pass.removed
      <3>1. SUFFICES ASSUME u \in pass.removed PROVE FALSE
        OBVIOUS
      <3>2. CASE u = f.book /\ books[u].key = f.key
        <4>1. Backed(Tables, f)
          BY <1>3, <1>4, <2>1, <3>1, <3>2
        <4> QED BY <1>2, <1>4, <2>1, <3>2, <4>1 DEF Backed, Apart
      <3>3. CASE \E a \in ledger : a.uuid = u /\ a.book = f.book /\ a.key = f.key
        BY <1>3, <3>1, <3>3
      <3> QED BY <1>2, <2>2, <3>2, <3>3 DEF Names
    <2>4. PICK m \in pass.moved : m.uuid = u /\ pass.seen[m.to] = f.stat
      BY <1>6, <2>1, <2>2, <2>3, ClearDeparts
    <2>5. Names(R, f, u)
      <3>1. CASE u = f.book /\ books[u].key = f.key
        BY <1>2, <1>3, <1>4, <2>1, <3>1 DEF SameBooks, Names
      <3>2. CASE \E a \in ledger : a.uuid = u /\ a.book = f.book /\ a.key = f.key
        BY <1>3, <2>3, <3>2 DEF Names
      <3> QED BY <1>2, <2>2, <3>1, <3>2 DEF Names
    <2> QED BY <1>5, <2>4, <2>5 DEF Awaits
  <1>7. ASSUME NEW f \in R.files, f.key \in DOMAIN pass.seen
        PROVE  f.key \in pass.changed \/ f.stat = pass.seen[f.key]
    <2>1. f \in files
      BY <1>3
    <2> QED BY <1>7, <2>1, ClearDeparts
  <1>8. ASSUME NEW b \in Id, Stands(R, b), R.books[b].key \in DOMAIN pass.seen,
               R.books[b].key \notin pass.changed \cup pass.new,
               \A m \in pass.moved : m.to # R.books[b].key
        PROVE  \E f \in R.files : f.key = R.books[b].key
    <2>1. b \in live /\ Stands(Tables, b) /\ books[b].key = R.books[b].key
      BY <1>2, <1>3, <1>8 DEF SameBooks, Stands, live
    <2>2. PICK f \in files : f.key = books[b].key
      BY <1>8, <2>1, ClearDeparts
    <2>3. f.book = b
      BY <1>2, <2>1, <2>2, OwnRow
    <2>4. b \notin pass.removed
      BY <1>2, <1>8, <2>1 DEF PlanWell
    <2>5. \A a \in ledger : a.key # f.key
      BY <1>2, <2>1, <2>2 DEF Apart
    <2> QED BY <1>3, <2>1, <2>2, <2>3, <2>4, <2>5
  <1>9. Going(R, 0)
    BY <1>5, <1>6, <1>7, <1>8 DEF Going
  <1>10. RowsWent(R, 0)
    BY <1>3 DEF RowsWent
  <1> QED BY <1>1, <1>9, <1>10

(* How the moves up to n have gone. *)
Gone(T, n) == RowsWent(T, n) /\ (Going(T, n) \/ Unlanded(T, n))

LEMMA OneBefore ==
    ASSUME NEW n \in Paths, Departing, NEW m \in pass.moved
    PROVE  /\ m.to <= n - 1 => m.to <= n /\ m.to # n
           /\ m.to > n - 1 <=> (m.to > n \/ m.to = n)
           /\ m.to = n => m.to <= n
  <1>1. n \in Int /\ m.to \in Int
    BY DEF Departing, Paths
  <1> QED BY <1>1

(* No row is yet where a file will be moved to. *)
LEMMA NoneThere ==
    ASSUME Departing, NEW n \in Paths, NEW m \in pass.moved, m.to = n, NEW T, RowsWent(T, n - 1)
    PROVE  \A f \in T.files : f.key # n
  <1>1. SUFFICES ASSUME NEW f \in T.files, f.key = n PROVE FALSE
    OBVIOUS
  <1>2. \A e \in files : e.key # n
    BY DEF Departing
  <1>3. \A x \in pass.moved : ~(x.to = n /\ x.to <= n - 1)
    BY OneBefore
  <1> QED BY <1>1, <1>2, <1>3 DEF RowsWent

LEMMA GoneNone ==
    ASSUME Departing, NEW n \in Paths, \A m \in pass.moved : m.to # n, NEW T, Gone(T, n - 1)
    PROVE  Gone(T, n)
  <1>1. \A m \in pass.moved : (m.to > n - 1 => m.to > n) /\ (m.to <= n - 1 => m.to <= n)
    BY OneBefore
  <1>2. RowsWent(T, n)
    BY <1>1 DEF Gone, RowsWent
  <1>3. Unlanded(T, n - 1) => Unlanded(T, n)
    BY <1>1 DEF Unlanded
  <1>4. ASSUME Going(T, n - 1)
        PROVE  Going(T, n)
    <2>1. \A f \in T.files : Awaits(T, f, n - 1) => Awaits(T, f, n)
      BY <1>1 DEF Awaits
    <2> QED BY <1>1, <1>4, <2>1 DEF Going
  <1> QED BY <1>2, <1>3, <1>4 DEF Gone

(* A move that was declined. *)
LEMMA GoneDeclined ==
    ASSUME Departing, NEW n \in Paths, NEW m \in pass.moved, m.to = n, NEW T, Gone(T, n - 1)
    PROVE  Gone(T, n)
  <1>1. \A f \in T.files : f.key # m.to
    BY NoneThere DEF Gone
  <1>2. \A x \in pass.moved : x.to <= n - 1 => x.to <= n
    BY OneBefore
  <1>3. m.to <= n
    BY OneBefore
  <1> QED BY <1>1, <1>2, <1>3 DEF Gone, RowsWent, Unlanded


RelocatedTo(T, U, b, from, n) ==
    /\ RowsWent(T, n - 1) => RowsWent(U, n)
    /\ Unlanded(T, n - 1) => Unlanded(U, n)
    /\ \A e \in T.files : e.book # b \/ e.key # from => e \in U.files
    /\ \A f \in U.files : \/ f \in T.files /\ (f.book # b \/ f.key # from)
                          \/ f.key = n /\ \E e \in T.files :
                                e.book = b /\ e.key = from /\ f.book = e.book /\ f.stat = e.stat

LEMMA RelocatedGo ==
    ASSUME Departing, NEW n \in Paths, NEW m \in pass.moved, m.to = n,
           NEW T \in Db, NEW U, NEW b, NEW from, U.files = relocate_file_row(T.files, b, from, n)
    PROVE  RelocatedTo(T, U, b, from, n)
  <1>1. \A f \in U.files : \E e \in T.files :
           f = IF e.book = b /\ e.key = from THEN [e EXCEPT !.key = n] ELSE e
    BY DEF relocate_file_row
  <1>2. \A e \in T.files : /\ [e EXCEPT !.key = n].key = n /\ [e EXCEPT !.key = n].book = e.book
                           /\ [e EXCEPT !.key = n].stat = e.stat
    BY DEF Db, Row
  <1>3. \A e \in T.files : e.book # b \/ e.key # from => e \in U.files
    BY DEF relocate_file_row
  <1>4. ASSUME NEW f \in U.files
        PROVE  \/ f \in T.files /\ (f.book # b \/ f.key # from)
               \/ f.key = n /\ \E e \in T.files :
                     e.book = b /\ e.key = from /\ f.book = e.book /\ f.stat = e.stat
    <2>1. PICK e \in T.files : f = IF e.book = b /\ e.key = from THEN [e EXCEPT !.key = n] ELSE e
      BY <1>1
    <2> QED BY <1>2, <2>1
  <1>5. ASSUME RowsWent(T, n - 1)
        PROVE  RowsWent(U, n)
    <2>1. \A x \in pass.moved : (x.to <= n - 1 \/ x = m) => x.to <= n
      BY OneBefore
    <2> QED BY <1>4, <1>5, <2>1 DEF RowsWent
  <1>6. ASSUME Unlanded(T, n - 1)
        PROVE  Unlanded(U, n)
    <2>1. PICK x \in pass.moved : x.to <= n - 1 /\ \A f \in T.files : f.key # x.to
      BY <1>6 DEF Unlanded
    <2>2. x.to <= n /\ x.to # n
      BY <2>1, OneBefore
    <2>3. \A f \in U.files : f.key # x.to
      BY <1>4, <2>1, <2>2
    <2> QED BY <2>2, <2>3 DEF Unlanded
  <1> QED BY <1>3, <1>4, <1>5, <1>6 DEF RelocatedTo

LEMMA GoneWithBook ==
    ASSUME Departing, PlanWell, NEW n \in Paths, NEW m \in pass.moved, m.to = n,
           NEW T, Keyed(T), Moving(T, n - 1), Gone(T, n - 1), NEW U, MovesBook(T, U, m)
    PROVE  Gone(U, n)
  <1>1. PICK b, from : b = m.uuid /\ from = T.books[b].key
    OBVIOUS
  <1>2. /\ b \in Id /\ Stands(T, b) /\ Stands(U, b) /\ T \in Db
        /\ \A c \in Id \ {b} : Stands(T, c) => T.books[c].key # n
        /\ \A c \in Id \ {b} : U.books[c] = T.books[c]
        /\ U.books[b].key = n /\ U.ledger = T.ledger
        /\ U.files = relocate_file_row(T.files, b, from, n)
    BY <1>1 DEF MovesBook, Keyed
  <1>3. /\ RowsWent(T, n - 1) => RowsWent(U, n)
        /\ Unlanded(T, n - 1) => Unlanded(U, n)
        /\ \A e \in T.files : e.book # b \/ e.key # from => e \in U.files
        /\ \A f \in U.files : \/ f \in T.files /\ (f.book # b \/ f.key # from)
                              \/ f.key = n /\ \E e \in T.files :
                                    e.book = b /\ e.key = from /\ f.book = e.book /\ f.stat = e.stat
    <2>1. RelocatedTo(T, U, b, from, n)
      BY <1>2, RelocatedGo
    <2> QED BY <2>1 DEF RelocatedTo
  <1>4. RowsWent(T, n - 1) /\ \A f \in T.files : f.key # n
    BY NoneThere DEF Gone
  <1>5. SUFFICES ASSUME Going(T, n - 1), ~Unlanded(U, n)
                 PROVE  Going(U, n)
    BY <1>3, <1>4 DEF Gone
  <1>6. PICK r \in U.files : r.key = n
    <2>1. m.to <= n
      BY OneBefore
    <2> QED BY <1>5, <2>1 DEF Unlanded
  <1>7. \A x \in pass.moved : (x.to = n => x = m \/ x.uuid = b) /\ (x.uuid = b => x.to = n)
    BY <1>1 DEF Departing
  <1>8. /\ Apart(T) /\ Handles(T) /\ BooksWent(T, n - 1)
    BY DEF Moving, Placed
  <1>9. from \notin DOMAIN pass.seen
    <2>1. Went(b, books[b].key, from, n - 1) /\ b \in live
      BY <1>1, <1>2, <1>8 DEF BooksWent
    <2>2. from = books[b].key
      <3>1. \A x \in pass.moved : x.to = n => ~(x.to <= n - 1)
        BY OneBefore
      <3> QED BY <1>7, <2>1, <3>1 DEF Went
    <2> QED BY <1>1, <2>1, <2>2 DEF PlanWell
  <1>10. \A a \in T.ledger : a.uuid # b /\ a.key # from
    BY <1>1, <1>2, <1>8 DEF Apart, Handles
  <1>11. ASSUME NEW f \in U.files, f.key \notin DOMAIN pass.seen
         PROVE  Awaits(U, f, n)
    <2>1. n \in DOMAIN pass.seen
      BY DEF PlanWell
    <2>2. f \in T.files /\ (f.book # b \/ f.key # from)
      BY <1>3, <1>11, <2>1
    <2>3. PICK x \in pass.moved : x.to > n - 1 /\ Names(T, f, x.uuid) /\ pass.seen[x.to] = f.stat
      BY <1>5, <1>11, <2>2 DEF Going, Awaits
    <2>4. f.book \in Id
      BY <1>2, <2>2 DEF Db, Row
    <2>5. x.uuid # b
      BY <1>1, <1>10, <2>2, <2>3 DEF Names
    <2>6. x.to > n
      BY <1>1, <1>7, <2>3, <2>5, OneBefore
    <2>7. Names(U, f, x.uuid)
      BY <1>2, <2>3, <2>4, <2>5 DEF Names
    <2> QED BY <2>3, <2>6, <2>7 DEF Awaits
  <1>12. ASSUME NEW f \in U.files, f.key \in DOMAIN pass.seen, f.key \notin pass.changed
         PROVE  f.stat = pass.seen[f.key]
    <2>1. CASE f \in T.files
      BY <1>5, <1>12, <2>1 DEF Going
    <2>2. CASE f \notin T.files
      <3>1. PICK e \in T.files : e.book = b /\ e.key = from /\ f.stat = e.stat /\ f.key = n
        BY <1>3, <2>2
      <3>2. PICK x \in pass.moved : Names(T, e, x.uuid) /\ pass.seen[x.to] = e.stat
        BY <1>5, <1>9, <3>1 DEF Going, Awaits
      <3>3. x.uuid = b
        BY <1>10, <3>1, <3>2 DEF Names
      <3> QED BY <1>7, <3>1, <3>2, <3>3
    <2> QED BY <2>1, <2>2
  <1>13. ASSUME NEW c \in Id, Stands(U, c), U.books[c].key \in DOMAIN pass.seen,
                U.books[c].key \notin pass.changed \cup pass.new,
                \A x \in pass.moved : x.to = U.books[c].key => ~(x.to > n)
         PROVE  \E f \in U.files : f.key = U.books[c].key
    <2>1. CASE c = b
      BY <1>2, <1>6, <2>1
    <2>2. CASE c # b
      <3>1. Stands(T, c) /\ U.books[c].key = T.books[c].key /\ T.books[c].key # n
        BY <1>2, <1>13, <2>2 DEF Stands
      <3>2. \A x \in pass.moved : x.to = T.books[c].key => ~(x.to > n - 1)
        BY <1>13, <3>1, OneBefore
      <3>3. PICK e \in T.files : e.key = T.books[c].key
        BY <1>5, <1>13, <3>1, <3>2 DEF Going
      <3>4. e.key # from
        BY <1>1, <1>2, <2>2, <3>1, <3>3 DEF Keyed
      <3> QED BY <1>3, <3>1, <3>3, <3>4
    <2> QED BY <2>1, <2>2
  <1> QED BY <1>11, <1>12, <1>13 DEF Going


LEMMA GoneWithAttached ==
    ASSUME Departing, PlanWell, NEW n \in Paths, NEW m \in pass.moved, m.to = n,
           NEW T, Keyed(T), Moving(T, n - 1), Gone(T, n - 1), NEW U, MovesAttached(T, U, m)
    PROVE  Gone(U, n)
  <1>1. PICK a \in T.ledger :
          /\ a.uuid = m.uuid /\ m.uuid \notin BooksOf(T)
          /\ U.books = T.books
          /\ U.files = relocate_file_row(T.files, a.book, a.key, m.to)
          /\ U.ledger = (T.ledger \ {a}) \cup {Entry(a.uuid, a.book, a.format, m.to)}
    BY DEF MovesAttached
  <1>2. PICK b, from : b = a.book /\ from = a.key
    OBVIOUS
  <1>3. T \in Db /\ U.files = relocate_file_row(T.files, b, from, n)
    BY <1>1, <1>2 DEF Keyed
  <1>4. RelocatedTo(T, U, b, from, n)
    BY <1>3, RelocatedGo
  <1>5. RowsWent(T, n - 1) /\ \A f \in T.files : f.key # n
    BY NoneThere DEF Gone
  <1>6. SUFFICES ASSUME Going(T, n - 1), ~Unlanded(U, n)
                 PROVE  Going(U, n)
    BY <1>4, <1>5 DEF Gone, RelocatedTo
  <1>7. PICK r \in U.files : r.key = n
    <2>1. m.to <= n
      BY OneBefore
    <2> QED BY <1>6, <2>1 DEF Unlanded
  <1>8. \A x \in pass.moved : x.to = n <=> x.uuid = a.uuid
    BY <1>1 DEF Departing
  <1>9. Apart(T) /\ OneEntry(T) /\ LedgerWent(T, n - 1)
    BY DEF Moving, Placed
  <1>10. from \notin DOMAIN pass.seen
    <2>1. PICK c \in ledger : c.uuid = a.uuid /\ Went(a.uuid, c.key, from, n - 1)
      BY <1>2, <1>9 DEF LedgerWent
    <2>2. from = c.key
      <3>1. \A x \in pass.moved : x.to = n => ~(x.to <= n - 1)
        BY OneBefore
      <3> QED BY <1>8, <2>1, <3>1 DEF Went
    <2> QED BY <1>1, <2>1, <2>2 DEF PlanWell
  <1>11. \A c \in T.ledger : c.uuid = a.uuid \/ c.key = from => c = a
    BY <1>2, <1>9 DEF OneEntry, Keyed
  <1>12. /\ \A f \in T.files : f.book \in Id /\ Stands(T, f.book) /\ f.book # a.uuid
         /\ \A c \in Id : Stands(T, c) => T.books[c].key # from
    <2>1. \A f \in T.files : f.book \in Id /\ Stands(T, f.book)
      BY DEF Keyed, Db, Row
    <2>2. \A f \in T.files : f.book # a.uuid
      BY <1>1, <2>1 DEF BooksOf, Stands
    <2> QED BY <1>2, <1>9, <2>1, <2>2 DEF Apart
  <1>13. ASSUME NEW f \in U.files, f.key \notin DOMAIN pass.seen
         PROVE  Awaits(U, f, n)
    <2>1. n \in DOMAIN pass.seen
      BY DEF PlanWell
    <2>2. f \in T.files /\ (f.book # b \/ f.key # from)
      BY <1>4, <1>13, <2>1 DEF RelocatedTo
    <2>3. PICK x \in pass.moved : x.to > n - 1 /\ Names(T, f, x.uuid) /\ pass.seen[x.to] = f.stat
      BY <1>6, <1>13, <2>2 DEF Going, Awaits
    <2>4. x.uuid # a.uuid
      BY <1>2, <1>11, <1>12, <2>2, <2>3 DEF Names
    <2>5. x.to > n
      BY <1>8, <2>3, <2>4, OneBefore
    <2>6. Names(U, f, x.uuid)
      BY <1>1, <2>3, <2>4 DEF Names
    <2> QED BY <2>3, <2>5, <2>6 DEF Awaits
  <1>14. ASSUME NEW f \in U.files, f.key \in DOMAIN pass.seen, f.key \notin pass.changed
         PROVE  f.stat = pass.seen[f.key]
    <2>1. CASE f \in T.files
      BY <1>6, <1>14, <2>1 DEF Going
    <2>2. CASE f \notin T.files
      <3>1. PICK e \in T.files : e.book = b /\ e.key = from /\ f.stat = e.stat /\ f.key = n
        BY <1>4, <2>2 DEF RelocatedTo
      <3>2. PICK x \in pass.moved : Names(T, e, x.uuid) /\ pass.seen[x.to] = e.stat
        BY <1>6, <1>10, <3>1 DEF Going, Awaits
      <3>3. x.uuid = a.uuid
        BY <1>11, <1>12, <3>1, <3>2 DEF Names
      <3> QED BY <1>8, <3>1, <3>2, <3>3
    <2> QED BY <2>1, <2>2
  <1>15. ASSUME NEW c \in Id, Stands(U, c), U.books[c].key \in DOMAIN pass.seen,
                U.books[c].key \notin pass.changed \cup pass.new,
                \A x \in pass.moved : x.to = U.books[c].key => ~(x.to > n)
         PROVE  \E f \in U.files : f.key = U.books[c].key
    <2>1. CASE U.books[c].key = n
      BY <1>7, <2>1
    <2>2. CASE U.books[c].key # n
      <3>1. Stands(T, c) /\ U.books[c].key = T.books[c].key
        BY <1>1, <1>15 DEF Stands
      <3>2. \A x \in pass.moved : x.to = T.books[c].key => ~(x.to > n - 1)
        BY <1>15, <2>2, <3>1, OneBefore
      <3>3. PICK e \in T.files : e.key = T.books[c].key
        BY <1>6, <1>15, <3>1, <3>2 DEF Going
      <3>4. e.key # from
        BY <1>12, <1>15, <3>1, <3>3
      <3> QED BY <1>4, <3>1, <3>3, <3>4 DEF RelocatedTo
    <2> QED BY <2>1, <2>2
  <1> QED BY <1>13, <1>14, <1>15 DEF Going

LEMMA MovesGo ==
    ASSUME Clear, NEW g, NEW h, NEW k, Course(g, h, k)
    PROVE  Gone(AfterMoved, LastPath)
  <1> DEFINE S == {n \in 0 .. LastPath : Gone(g[n], n)}
  <1>1. /\ Calmly /\ PlanWell /\ Placed(Tables) /\ Departing
        /\ \A n \in 0 .. LastPath : Keyed(g[n]) /\ Moving(g[n], n)
    BY CoursePlaces, ClearDeparts DEF Clear, Course
  <1>2. 0 \in S
    <2>1. g[0] = AfterRemoved /\ 0 \in 0 .. LastPath
      BY Bounds DEF Course, MovedStage
    <2> QED BY <2>1, GoingBegins DEF Gone
  <1>3. ASSUME NEW n \in Paths, n - 1 \in S
        PROVE  n \in S
    <2>1. n \in 0 .. LastPath /\ n - 1 \in 0 .. LastPath
      BY Bounds DEF Paths
    <2>2. PICK T, U : T = g[n - 1] /\ U = g[n]
      OBVIOUS
    <2>3. Keyed(T) /\ T \in Db /\ Moving(T, n - 1) /\ Gone(T, n - 1)
      BY <1>1, <1>3, <2>1, <2>2 DEF Keyed
    <2>4. CASE U = T /\ \A m \in pass.moved : m.to # n
      BY <1>1, <2>1, <2>2, <2>3, <2>4, GoneNone
    <2>5. CASE \E m \in pass.moved : m.to = n /\ U = relocate_one(T, m)
      <3>1. PICK m \in pass.moved : m.to = n /\ U = relocate_one(T, m)
        BY <2>5
      <3>2. m.to \in Paths
        BY <3>1
      <3>3. U = T \/ MovesBook(T, U, m) \/ MovesAttached(T, U, m)
        BY <2>3, <3>1, <3>2, RelocateDoes
      <3>4. Gone(U, n)
        BY <1>1, <2>3, <3>1, <3>3, GoneDeclined, GoneWithBook, GoneWithAttached
      <3> QED BY <2>1, <2>2, <3>4
    <2> QED BY <2>2, <2>4, <2>5 DEF Course, MovedStage
  <1> HIDE DEF S
  <1>4. LastPath \in S
    BY <1>2, <1>3, UpToTheLast
  <1> QED BY <1>4 DEF S, Course

(* The transaction of a scan that saw everything, if every move is done.   *)
LEMMA ScanIndexes ==
    ASSUME Clear, Cardinality(pass.changed \cup pass.new) <= Cardinality(Spare(Tables)),
           NEW T, T = sync_books(Tables, pass), \A m \in pass.moved : \E f \in T.files : f.key = m.to
    PROVE  /\ Indexed(T, {}) /\ Keyed(T) /\ Placed(T)
           /\ Half => \A p \in OnDisk : \E f \in T.files : f.key = p
  <1>1. /\ Calmly /\ PlanWell /\ Placed(Tables) /\ TypeOK /\ PlanTyped
    BY DEF Clear, Calmly
  <1>2. PICK g, h, k : Course(g, h, k)
    BY <1>1, EveryCourse
  <1>3. T = AfterNew
    BY DEF sync_books, AfterNew, AfterChanged, AfterMoved, AfterRemoved
  <1>4. PICK M, C : M = AfterMoved /\ C = AfterChanged
    OBVIOUS
  <1>5. /\ Goes(M, h, pass.changed) /\ h[LastPath] = C
        /\ Goes(C, k, pass.new) /\ k[LastPath] = T
    BY <1>1, <1>2, <1>3, <1>4, CourseGoes DEF Course
  <1>6. Keyed(T) /\ Placed(T)
    <2>1. LastPath \in 0 .. LastPath
      BY Bounds
    <2> QED BY <1>5, <2>1 DEF Goes
  <1>7. Gone(M, LastPath)
    BY <1>2, <1>4, MovesGo
  <1>8. \A m \in pass.moved : m.to \in 1 .. LastPath /\ m.to <= LastPath /\ ~(m.to > LastPath)
    <2>1. \A m \in pass.moved : m.to \in 1 .. LastPath
      BY ClearDeparts DEF Departing, Paths
    <2> QED BY <2>1, Bounds
  <1>9. ~Unlanded(M, LastPath)
    <2>1. SUFFICES ASSUME NEW m \in pass.moved, \A f \in M.files : f.key # m.to PROVE FALSE
      BY DEF Unlanded
    <2>2. PICK q : q = m.to
      OBVIOUS
    <2>3. q \notin pass.changed /\ q \notin pass.new
      BY <1>1, <2>2 DEF PlanWell
    <2>4. \A f \in C.files : f.key # q
      BY <1>5, <2>1, <2>2, <2>3, BucketLeaves
    <2>5. \A f \in T.files : f.key # q
      BY <1>5, <2>3, <2>4, BucketLeaves
    <2> QED BY <2>2, <2>5
  <1>10. Indexed(M, pass.changed \cup pass.new)
    <2>1. Going(M, LastPath)
      BY <1>7, <1>9 DEF Gone
    <2> QED BY <1>8, <2>1 DEF Going, Indexed, Awaits
  <1>11. Indexed(T, {})
    <2>1. /\ pass.changed \in SUBSET Paths /\ pass.changed \subseteq DOMAIN pass.seen
          /\ pass.new \in SUBSET Paths /\ pass.new \subseteq DOMAIN pass.seen
          /\ pass.changed \cap pass.new = {} /\ pass.new \cap {} = {}
      BY ClearSees
    <2>2. Indexed(C, pass.new)
      BY <1>5, <1>10, <2>1, BucketIndexed
    <2>3. pass.new \cup {} = pass.new
      OBVIOUS
    <2>4. Indexed(C, pass.new \cup {})
      BY <2>2, <2>3
    <2> QED BY <1>5, <2>1, <2>4, BucketIndexed
  <1>12. Half => \A p \in OnDisk : \E f \in T.files : f.key = p
    BY <1>2, <1>3, SecondFills
  <1> QED BY <1>6, <1>11, <1>12

-----------------------------------------------------------------------------
(* Index and disk, through every action.                                   *)

(* What a scan holds is true of disk and tables while nobody touches them, *)
(* and what one scan left, and then a second, stays true between scans.    *)
Whole ==
    /\ calm >= 0 /\ step = "walk" => pass.was = disk
    /\ calm >= 0 /\ step = "read" =>
          pass.seen = SeenNow /\ pass.incomplete = FALSE /\ pass.native = native_rows
    /\ calm >= 0 /\ step = "sync" =>
          pass = diff_library(SeenNow, native_rows, merged_rows, TRUE)
    /\ calm >= 1 => Half
    /\ calm = 2 => Full
    /\ calm >= 1 /\ step = "purge" => \A f \in files : f.book \notin pass

(* After a disturbance, and after a scan that ended early, nothing is said. *)
LEMMA NotWhole ==
    ASSUME calm' \in {-1, 0}, calm' = 0 => step' \notin {"walk", "read", "sync"}
    PROVE  Whole'
  <1>1. CASE calm' = -1
    <2>1. ~(calm' >= 0) /\ ~(calm' >= 1) /\ calm' # 2
      BY <1>1
    <2> QED BY <2>1 DEF Whole
  <1>2. CASE calm' = 0
    <2>1. ~(calm' >= 1) /\ calm' # 2 /\ step' \notin {"walk", "read", "sync"}
      BY <1>2
    <2>2. step' # "walk" /\ step' # "read" /\ step' # "sync"
      BY <2>1
    <2> QED BY <2>1, <2>2 DEF Whole
  <1> QED BY <1>1, <1>2

LEMMA DisturbedWhole ==
    ASSUME Disturbed, UNCHANGED step
    PROVE  Whole'
  <1>1. calm' \in {-1, 0} /\ (calm' = 0 => step' \notin {"walk", "read", "sync"})
    BY DEF Disturbed
  <1> QED BY <1>1, NotWhole

(* The tables are the same, but for the flags of the books, and so is the disk. *)
SameIndex ==
    /\ UNCHANGED <<disk, files, ledger>>
    /\ \A b \in Id : /\ books'[b] # None <=> books[b] # None
                     /\ books[b] # None => books'[b].key = books[b].key

LEMMA SameRows ==
    ASSUME TypeOK, SameIndex
    PROVE  /\ native_rows' = native_rows /\ merged_rows' = merged_rows
           /\ SeenNow' = SeenNow /\ (Half => Half') /\ (Full => Full')
  <1>1. live' = live /\ OnDisk' = OnDisk /\ SeenNow' = SeenNow /\ merged_rows' = merged_rows
    BY DEF SameIndex, live, OnDisk, SeenNow, merged_rows
  <1>2. \A b \in live : b \in Id /\ books'[b].key = books[b].key
    BY DEF SameIndex, live
  <1>3. \A f \in files : f.book \in live
    BY DEF TypeOK
  <1>4. \A b : FilesOf(Tables, b)' = FilesOf(Tables, b)
    BY DEF SameIndex, FilesOf, Tables
  <1>5. {g \in files' : books'[g.book].key = g.key} = {g \in files : books[g.book].key = g.key}
    BY <1>2, <1>3 DEF SameIndex
  <1>6. {c \in live' : FilesOf(Tables, c)' = {}} = {c \in live : FilesOf(Tables, c) = {}}
    BY <1>1, <1>4
  <1>7. {[uuid |-> b, key |-> books'[b].key, stat |-> 0, has_file |-> FALSE] :
            b \in {c \in live : FilesOf(Tables, c) = {}}}
        = {[uuid |-> b, key |-> books[b].key, stat |-> 0, has_file |-> FALSE] :
            b \in {c \in live : FilesOf(Tables, c) = {}}}
    BY <1>2
  <1>8. native_rows' = native_rows
    BY <1>5, <1>6, <1>7 DEF native_rows
  <1>9. Half => Half'
    BY <1>1, <1>2 DEF Half, SameIndex
  <1>10. Full => Full'
    BY <1>1 DEF Full, SameIndex
  <1> QED BY <1>1, <1>8, <1>9, <1>10

LEMMA SameWhole ==
    ASSUME TypeOK, Whole, SameIndex, UNCHANGED <<step, pass, calm>>
    PROVE  Whole'
  <1>1. PICK seen, native, merged :
          seen = SeenNow /\ native = native_rows /\ merged = merged_rows
    OBVIOUS
  <1>2. seen = SeenNow' /\ native = native_rows' /\ merged = merged_rows'
        /\ (Half => Half') /\ (Full => Full')
    BY <1>1, SameRows
  <1>3. disk' = disk /\ files' = files
    BY DEF SameIndex
  <1>4. calm >= 0 /\ step = "sync" => pass = diff_library(seen, native, merged, TRUE)
    BY <1>1 DEF Whole
  <1>5. (calm >= 0 /\ step = "sync" => pass = diff_library(SeenNow, native_rows, merged_rows, TRUE))'
    BY <1>2, <1>4
  <1> QED BY <1>1, <1>2, <1>3, <1>5 DEF Whole

LEMMA WalkWhole ==
    ASSUME TypeOK, Whole, Walk
    PROVE  Whole'
  <1>1. SameIndex /\ UNCHANGED calm /\ step = "walk" /\ step' = "read"
    BY DEF Walk, Walked, SameIndex, tables
  <1>2. (Half => Half') /\ (Full => Full') /\ SeenNow' = SeenNow /\ native_rows' = native_rows
    BY <1>1, SameRows
  <1>3. ASSUME calm >= 0
        PROVE  pass'.seen = SeenNow /\ pass'.incomplete = FALSE /\ pass'.native = native_rows
    <2>1. pass.was = disk
      BY <1>1, <1>3 DEF Whole
    <2>2. PICK late \in SUBSET {p \in Paths : disk[p] # pass.was[p]} : Walked(late, {}, FALSE)
      BY DEF Walk
    <2>3. late = {}
      BY <2>1, <2>2
    <2>4. Walked({}, {}, FALSE)
      BY <2>2, <2>3
    <2>5. pass' = [seen |-> [p \in {q \in Paths \ {} : pass.was[q] # None} |-> pass.was[p].stat],
                   incomplete |-> FALSE, native |-> native_rows]
      BY <2>4 DEF Walked
    <2>6. [p \in {q \in Paths \ {} : pass.was[q] # None} |-> pass.was[p].stat] = SeenNow
      BY <2>1 DEF SeenNow, OnDisk
    <2> QED BY <2>5, <2>6
  <1> QED BY <1>1, <1>2, <1>3 DEF Whole

LEMMA DiffWhole ==
    ASSUME TypeOK, Whole, Diff
    PROVE  Whole'
  <1>1. SameIndex /\ step = "read"
    BY DEF Diff, SameIndex, tables
  <1>2. PICK seen, native, merged :
          seen = SeenNow /\ native = native_rows /\ merged = merged_rows
    OBVIOUS
  <1>3. seen = SeenNow' /\ native = native_rows' /\ merged = merged_rows'
        /\ (Half => Half') /\ (Full => Full')
    BY <1>1, <1>2, SameRows
  <1>4. PICK trustworthy, plan :
          /\ trustworthy \in BOOLEAN
          /\ plan = diff_library(pass.seen, pass.native, merged_rows, trustworthy)
          /\ \/ step' = "sync" /\ pass' = plan /\ calm' = (IF trustworthy THEN calm ELSE -1)
             \/ step' = "idle" /\ calm' = 0
    BY DiffIs
  <1>5. \/ step' = "sync" /\ pass' = plan /\ calm' = (IF trustworthy THEN calm ELSE -1)
        \/ step' = "idle" /\ calm' = 0
    BY <1>4
  <1>6. CASE step' = "idle" /\ calm' = 0
    BY <1>6, NotWhole
  <1>7. CASE step' = "sync" /\ pass' = plan /\ calm' = (IF trustworthy THEN calm ELSE -1)
    <2>1. CASE ~trustworthy
      <3>1. calm' = -1
        BY <1>7, <2>1
      <3> QED BY <3>1, NotWhole
    <2>2. CASE trustworthy /\ calm >= 0
      <3>1. trustworthy = TRUE
        BY <1>4, <2>2
      <3>2. pass.seen = seen /\ pass.native = native /\ merged_rows = merged
        BY <1>1, <1>2, <2>2 DEF Whole
      <3>3. pass' = diff_library(seen, native, merged, TRUE)
        BY <1>4, <1>7, <3>1, <3>2
      <3>4. calm' = calm
        BY <1>7, <2>2
      <3>5. (pass = diff_library(SeenNow, native_rows, merged_rows, TRUE))'
        BY <1>3, <3>3
      <3> QED BY <1>3, <1>7, <3>4, <3>5 DEF Whole
    <2>3. CASE trustworthy /\ ~(calm >= 0)
      <3>1. calm' = -1
        BY <1>7, <2>3 DEF TypeOK
      <3> QED BY <3>1, NotWhole
    <2> QED BY <2>1, <2>2, <2>3
  <1> QED BY <1>5, <1>6, <1>7


LEMMA StartWhole ==
    ASSUME TypeOK, Whole, StartScan
    PROVE  Whole'
  <1>1. SameIndex /\ UNCHANGED calm /\ step' = "walk" /\ pass'.was = disk /\ disk' = disk
    BY DEF StartScan, SameIndex, tables
  <1>2. (Half => Half') /\ (Full => Full')
    BY <1>1, SameRows
  <1> QED BY <1>1, <1>2 DEF Whole

LEMMA SelectWhole ==
    ASSUME TypeOK, Whole, GcSelect
    PROVE  Whole'
  <1>1. /\ SameIndex /\ UNCHANGED calm /\ step' \in {"idle", "purge"} /\ files' = files
        /\ step' = "purge" => pass' = Victims
    BY DEF GcSelect, SameIndex, tables
  <1>2. (Half => Half') /\ (Full => Full')
    BY <1>1, SameRows
  <1>3. \A f \in files : f.book \notin Victims
    <2>1. SUFFICES ASSUME NEW f \in files, f.book \in Victims PROVE FALSE
      OBVIOUS
    <2>2. FilesOf(Tables, f.book) = {}
      BY <2>1 DEF Victims
    <2>3. f \in FilesOf(Tables, f.book)
      BY DEF FilesOf, Tables
    <2> QED BY <2>2, <2>3
  <1>4. step' # "walk" /\ step' # "read" /\ step' # "sync"
    BY <1>1
  <1> QED BY <1>1, <1>2, <1>3, <1>4 DEF Whole

(* The purge drops books that have no files. *)
LEMMA PurgeWhole ==
    ASSUME TypeOK, Whole, GcDelete
    PROVE  Whole'
  <1>1. /\ UNCHANGED <<disk, calm>> /\ step = "purge" /\ step' = "idle"
        /\ files' = {f \in files : f.book \notin pass}
        /\ books' = [b \in Id |-> IF b \in pass THEN None ELSE books[b]]
    BY DEF GcDelete, SetTables, Dropped, Tables
  <1>2. CASE calm >= 1
    <2>1. files' = files
      BY <1>1, <1>2 DEF Whole
    <2>2. OnDisk' = OnDisk
      BY <1>1 DEF OnDisk
    <2>3. \A b \in live' : b \in live /\ books'[b] = books[b]
      BY <1>1 DEF live
    <2>4. Half'
      <3>1. Half
        BY <1>2 DEF Whole
      <3>2. disk' = disk
        BY <1>1
      <3>3. \A f \in files' : f.key \in OnDisk' /\ f.stat = disk'[f.key].stat
        BY <2>1, <2>2, <3>1, <3>2 DEF Half
      <3>4. \A b \in live' : books'[b].key \in OnDisk'
                => \E f \in files' : f.book = b /\ f.key = books'[b].key
        BY <2>1, <2>2, <2>3, <3>1 DEF Half
      <3> QED BY <3>3, <3>4 DEF Half
    <2>5. calm = 2 => Full'
      BY <1>1, <2>1, <2>2 DEF Whole, Full
    <2> QED BY <1>1, <2>4, <2>5 DEF Whole
  <1>3. CASE ~(calm >= 1)
    <2>1. calm' \in {-1, 0}
      BY <1>1, <1>3 DEF TypeOK
    <2>2. step' \notin {"walk", "read", "sync"}
      BY <1>1
    <2> QED BY <2>1, <2>2, NotWhole
  <1> QED BY <1>2, <1>3

(* The transaction that writes what a scan saw, while nobody touched it. *)
LEMMA WrittenHalf ==
    ASSUME Clear, NEW T, Indexed(T, {}), Keyed(T), Placed(T), SetTables(T), UNCHANGED disk
    PROVE  Half'
  <1>1. /\ books' = T.books /\ files' = T.files /\ OnDisk' = OnDisk /\ disk' = disk
    BY DEF SetTables, OnDisk
  <1>2. DOMAIN pass.seen = OnDisk /\ \A p \in OnDisk : pass.seen[p] = disk[p].stat
    BY ClearSees
  <1>3. \A f \in T.files : f.key \in OnDisk /\ f.stat = disk[f.key].stat
    BY <1>2 DEF Indexed
  <1>4. ASSUME NEW b \in Id, Stands(T, b), T.books[b].key \in OnDisk
        PROVE  \E f \in T.files : f.book = b /\ f.key = T.books[b].key
    <2>1. PICK f \in T.files : f.key = T.books[b].key
      BY <1>2, <1>4 DEF Indexed
    <2>2. f.book = b
      BY <1>4, <2>1, OwnRow
    <2> QED BY <2>1, <2>2
  <1>5. \A b \in live' : b \in Id /\ Stands(T, b)
    BY <1>1 DEF live, Stands
  <1> QED BY <1>1, <1>3, <1>4, <1>5 DEF Half

LEMMA SyncWhole ==
    ASSUME troubled' = {}, Typed, Agreed, Whole, Sync
    PROVE  Whole'
  <1>1. TypeOK /\ PlanTyped /\ PlanWell /\ Placed(Tables) /\ step = "sync"
    BY DEF Typed, PassTyped, Agreed, Held, Sync
  <1>2. Calmly
    BY <1>1, SyncTroubles DEF Calmly
  <1>3. PICK T : T = sync_books(Tables, pass)
    OBVIOUS
  <1>4. PICK landed \in BOOLEAN : landed <=> \A m \in pass.moved : \E f \in T.files : f.key = m.to
    OBVIOUS
  <1>5. /\ Cardinality(pass.changed \cup pass.new) <= Cardinality(Spare(Tables)) /\ SetTables(T)
        /\ calm' = (IF calm < 0 \/ ~landed THEN 0 ELSE IF calm = 2 THEN 2 ELSE calm + 1)
        /\ step' = "gc" /\ disk' = disk
    BY <1>3, <1>4 DEF Sync
  <1>6. calm \in -1 .. 2
    BY <1>1 DEF TypeOK
  <1>7. CASE calm < 0 \/ ~landed
    <2>1. calm' \in {-1, 0} /\ step' \notin {"walk", "read", "sync"}
      BY <1>5, <1>7
    <2> QED BY <2>1, NotWhole
  <1>8. CASE calm >= 0 /\ landed
    <2>1. pass = diff_library(SeenNow, native_rows, merged_rows, TRUE)
      BY <1>1, <1>8 DEF Whole
    <2>2. Clear
      BY <1>1, <1>2, <2>1 DEF Clear
    <2>3. \A m \in pass.moved : \E f \in T.files : f.key = m.to
      BY <1>4, <1>8
    <2>4. Indexed(T, {}) /\ Keyed(T) /\ Placed(T)
      BY <1>3, <1>5, <2>2, <2>3, ScanIndexes
    <2>5. Half => \A p \in OnDisk : \E f \in T.files : f.key = p
      BY <1>3, <1>5, <2>2, <2>3, ScanIndexes
    <2>6. Half'
      BY <1>5, <2>2, <2>4, WrittenHalf
    <2>7. files' = T.files /\ OnDisk' = OnDisk
      BY <1>5 DEF SetTables, OnDisk
    <2>8. Half => Full'
      BY <2>5, <2>7 DEF Full
    <2>9. calm' = 2 => calm >= 1
      BY <1>5, <1>6, <1>8
    <2>10. calm' = 2 => Full'
      BY <2>8, <2>9 DEF Whole
    <2> QED BY <1>5, <2>6, <2>10 DEF Whole
  <1> QED BY <1>6, <1>7, <1>8


(* Steps of people and of the rest of the program. *)
LEMMA DiskWhole ==
    ASSUME NEW p, NEW q, NEW w,
           AddFile(p, w) \/ EditFile(p, w) \/ MoveFile(p, q) \/ CopyFile(p, q) \/ RemoveFile(p)
    PROVE  Whole'
  <1>1. Disturbed /\ UNCHANGED step
    BY DEF AddFile, EditFile, MoveFile, CopyFile, RemoveFile, Touched
  <1> QED BY <1>1, DisturbedWhole

LEMMA UnlinkWhole ==
    ASSUME TypeOK, Whole, NEW p, Unlink(p)
    PROVE  Whole'
  <1>1. UNCHANGED <<tables, step, pass>> /\ (Disturbed \/ UNCHANGED <<disk, calm>>)
    BY DEF Unlink
  <1>2. CASE Disturbed
    BY <1>1, <1>2, DisturbedWhole
  <1>3. CASE UNCHANGED <<disk, calm>>
    <2>1. SameIndex
      BY <1>1, <1>3 DEF SameIndex, tables
    <2> QED BY <1>1, <1>3, <2>1, SameWhole
  <1> QED BY <1>1, <1>2, <1>3

LEMMA FlagsWhole ==
    ASSUME TypeOK, Whole, NEW b, Read(b) \/ RetentionPasses(b)
    PROVE  Whole'
  <1>1. UNCHANGED <<disk, files, ledger, step, pass, calm>>
    BY DEF Read, RetentionPasses
  <1>2. b \in live /\ books[b] \in Book /\ books \in [Id -> Book \cup {None}]
    BY DEF Read, RetentionPasses, live, TypeOK
  <1>3. PICK r : r = books[b]
    OBVIOUS
  <1>4. /\ [r EXCEPT !.read = TRUE] \in Book /\ [r EXCEPT !.read = TRUE].key = r.key
        /\ [r EXCEPT !.missing = "old"] \in Book /\ [r EXCEPT !.missing = "old"].key = r.key
    BY <1>2, <1>3 DEF Book
  <1>5. books' = [books EXCEPT ![b] = [r EXCEPT !.read = TRUE]]
        \/ books' = [books EXCEPT ![b] = [r EXCEPT !.missing = "old"]]
    BY <1>3 DEF Read, RetentionPasses
  <1>6. ASSUME NEW c \in Id
        PROVE  /\ books'[c] # None <=> books[c] # None
               /\ books[c] # None => books'[c].key = books[c].key
    <2>1. CASE c = b
      <3>1. books'[c] \in Book /\ books[c] \in Book /\ books'[c].key = books[c].key
        BY <1>2, <1>3, <1>4, <1>5, <2>1
      <3> QED BY <3>1, Nulls
    <2>2. CASE c # b
      BY <1>2, <1>5, <2>2
    <2> QED BY <2>1, <2>2
  <1>7. SameIndex
    BY <1>1, <1>6 DEF SameIndex
  <1> QED BY <1>1, <1>7, SameWhole

LEMMA NextWhole ==
    ASSUME troubled' = {}, Typed, Agreed, Whole, [Next]_vars
    PROVE  Whole'
  <1>1. TypeOK
    BY DEF Typed
  <1>2. CASE StartScan \/ Walk \/ Diff \/ Sync \/ GcSelect \/ GcDelete
    BY <1>1, <1>2, StartWhole, WalkWhole, DiffWhole, SyncWhole, SelectWhole, PurgeWhole
  <1>3. CASE WalkMisses \/ ScanFails \/ Restart
    <2>1. calm' = -1 \/ (calm' = 0 /\ step' = "idle")
      BY <1>3 DEF WalkMisses, ScanFails, Restart
    <2>2. calm' \in {-1, 0} /\ (calm' = 0 => step' \notin {"walk", "read", "sync"})
      BY <2>1
    <2> QED BY <2>2, NotWhole
  <1>4. CASE \E p \in Paths : \/ \E w \in Works : AddFile(p, w) \/ EditFile(p, w)
                              \/ \E q \in Paths : MoveFile(p, q) \/ CopyFile(p, q)
                              \/ RemoveFile(p) \/ Unlink(p)
    BY <1>1, <1>4, DiskWhole, UnlinkWhole
  <1>5. CASE \E b \in Id : Read(b) \/ RetentionPasses(b)
    BY <1>1, <1>5, FlagsWhole
  <1>6. CASE \E s \in Id, t \in Id : merge_books(s, t)
    <2>1. Disturbed /\ UNCHANGED step
      BY <1>6, MergeIs
    <2> QED BY <2>1, DisturbedWhole
  <1>7. CASE \E b \in Id : \E chosen \in SUBSET FilesOf(Tables, b) : delete_book_items(b, chosen)
    <2>1. Disturbed /\ UNCHANGED step
      BY <1>7 DEF delete_book_items
    <2> QED BY <2>1, DisturbedWhole
  <1>8. CASE UNCHANGED vars
    <2>1. SameIndex /\ UNCHANGED <<step, pass, calm>>
      BY <1>8 DEF vars, tables, SameIndex
    <2> QED BY <1>1, <2>1, SameWhole
  <1> QED BY <1>2, <1>3, <1>4, <1>5, <1>6, <1>7, <1>8 DEF Next

LEMMA InitWhole ==
    ASSUME Init
    PROVE  Whole
  <1>1. calm = 0 /\ step = "idle"
    BY DEF Init
  <1> QED BY <1>1 DEF Whole

(* Until one of the Troubles has come, two scans in a row of a library     *)
(* that nobody touches (diff_library, sync_books), whatever came before    *)
(* them, leave every file on disk in the index under its path and with its *)
(* size and time, and nothing else.                                        *)
THEOREM IndexMatchesDisk == Spec => []IndexAgrees
  <1>1. Init => Typed /\ (untroubled => Agreed /\ Whole)
    BY InitTyped, InitAgreed, InitWhole
  <1>2. Typed /\ (untroubled => Agreed /\ Whole) /\ [Next]_vars
           => (Typed /\ (untroubled => Agreed /\ Whole))'
    BY NextTyped, NextAgreed, NextWhole, MoreTroubles DEF untroubled
  <1>3. (untroubled => Agreed /\ Whole) => IndexAgrees
    <2>1. SUFFICES ASSUME Whole, settled PROVE /\ \A p \in OnDisk : \E f \in files : f.key = p /\ f.stat = disk[p].stat
                                               /\ \A f \in files : f.key \in OnDisk
      BY DEF IndexAgrees, settled
    <2>2. Half /\ Full
      BY <2>1 DEF settled, Whole
    <2> QED BY <2>2 DEF Half, Full
  <1> QED BY <1>1, <1>2, <1>3, PTL DEF Spec

(* And the next scan finds nothing to do (diff_library): no two files      *)
(* trade a slot of a book, or a row, scan after scan, and no row waits to  *)
(* be written again.                                                       *)
THEOREM NextScanIsQuiet == Spec => []RescanIsQuiet
  <1>1. Init => Typed /\ (untroubled => Agreed /\ Whole)
    BY InitTyped, InitAgreed, InitWhole
  <1>2. Typed /\ (untroubled => Agreed /\ Whole) /\ [Next]_vars
           => (Typed /\ (untroubled => Agreed /\ Whole))'
    BY NextTyped, NextAgreed, NextWhole, MoreTroubles DEF untroubled
  <1>3. Typed /\ (untroubled => Agreed /\ Whole) => RescanIsQuiet
    <2>1. SUFFICES ASSUME Typed, Agreed, Whole, settled, NEW plan,
                          plan = diff_library(SeenNow, native_rows, merged_rows, TRUE)
                   PROVE  plan.changed \cup plan.new \cup plan.moved \cup plan.removed = {}
      BY DEF RescanIsQuiet, SeenNow, settled
    <2>2. TypeOK /\ Placed(Tables) /\ Half /\ Full
      BY <2>1 DEF Typed, Agreed, settled, Whole
    <2>3. /\ plan.changed = {} /\ plan.moved = {} /\ plan.removed = {}
          /\ plan.new \subseteq OnDisk /\ \A f \in files : f.key \notin plan.new
      BY <2>1, <2>2, HalfIsQuiet
    <2>4. plan.new = {}
      BY <2>2, <2>3 DEF Full
    <2> QED BY <2>3, <2>4
  <1> QED BY <1>1, <1>2, <1>3, PTL DEF Spec

-----------------------------------------------------------------------------
(* A file and its book: what keeps the history of owners true.             *)

HasRow(fs, b, p) == \E f \in fs : f.book = b /\ f.key = p

(* No file at the path of the book would take the slot of the file at p.   *)
SlotFree(key, p) == key = p \/ FormatOf[key] # FormatOf[p] \/ key \notin OnDisk

(* The file at p has left the path of its row, and the next scan can pair  *)
(* neither with another.                                                   *)
Away(p, b) ==
    /\ ~Known(p) /\ Alike(p) = {p}
    /\ \E f \in files : f.book = b /\ RowsAlike(p) = {f} /\ f.key \notin OnDisk

(* The file at p is at the path of book b, or has a row of b there, or had *)
(* one where it was.                                                       *)
TracedAt(p, b) ==
    /\ p \in OnDisk /\ b \in live /\ SlotFree(books[b].key, p)
    /\ books[b].key = p \/ HasRow(files, b, p) \/ Away(p, b)

Traced == \A p \in Paths : owner[p] # None => TracedAt(p, owner[p])

(* A file that stays while others go, and one may come to q. *)
LEMMA StaysTraced ==
    ASSUME UNCHANGED tables, NEW x \in Paths, NEW b, owner[x] = b, TracedAt(x, b), NEW q, x # q,
           disk'[x] = disk[x], \A y \in Paths \ {q} : disk'[y] = disk[y] \/ disk'[y] = None,
           q \in OnDisk' => /\ q \in OnDisk \/ x \notin Displaced(q)
                            /\ disk'[q].stat # disk[x].stat \/ FormatOf[q] # FormatOf[x]
    PROVE  TracedAt(x, b)'
  <1>1. books' = books /\ files' = files /\ ledger' = ledger /\ live' = live
    BY DEF tables, live
  <1>2. x \in OnDisk /\ x \in OnDisk' /\ b \in live /\ SlotFree(books[b].key, x)
    BY DEF TracedAt, OnDisk
  <1>3. \A y \in OnDisk' : y = q \/ (y \in OnDisk /\ disk'[y] = disk[y])
    BY DEF OnDisk
  <1>4. SlotFree(books[b].key, x)'
    <2>1. SUFFICES ASSUME books[b].key # x, FormatOf[books[b].key] = FormatOf[x], books[b].key \in OnDisk'
                   PROVE  FALSE
      BY <1>1 DEF SlotFree
    <2>2. books[b].key \notin OnDisk
      BY <1>2, <2>1 DEF SlotFree
    <2>3. books[b].key = q
      BY <1>3, <2>1, <2>2
    <2>4. x \in Displaced(q)
      BY <1>2, <2>1, <2>3 DEF Displaced
    <2> QED BY <2>1, <2>2, <2>3, <2>4
  <1>5. ASSUME Away(x, b)
        PROVE  Away(x, b)'
    <2>1. ~Known(x)'
      BY <1>1, <1>5 DEF Away, Known
    <2>2. Alike(x)' = {x}
      <3>1. \A y \in OnDisk' : disk'[y].stat = disk[x].stat /\ FormatOf[y] = FormatOf[x] => y \in Alike(x)
        BY <1>3 DEF Alike
      <3>2. \A y \in OnDisk' : disk'[y].stat = disk[x].stat /\ FormatOf[y] = FormatOf[x] => y = x
        BY <1>5, <3>1 DEF Away
      <3> QED BY <1>2, <3>2 DEF Alike
    <2>3. PICK f \in files : f.book = b /\ RowsAlike(x) = {f} /\ f.key \notin OnDisk
      BY <1>5 DEF Away
    <2>4. RowsAlike(x)' = {f}
      BY <1>1, <2>3 DEF RowsAlike
    <2>5. f.key \notin OnDisk'
      <3>1. SUFFICES ASSUME f.key \in OnDisk' PROVE FALSE
        OBVIOUS
      <3>2. f.key = q /\ q \notin OnDisk
        BY <1>3, <2>3, <3>1
      <3>3. f.stat = disk[x].stat /\ FormatOf[f.key] = FormatOf[x]
        BY <2>3 DEF RowsAlike
      <3>4. x \in Displaced(q)
        BY <1>2, <2>3, <3>2, <3>3 DEF Displaced
      <3> QED BY <3>1, <3>2, <3>4
    <2> QED BY <1>1, <2>1, <2>2, <2>3, <2>4, <2>5 DEF Away
  <1> QED BY <1>1, <1>2, <1>4, <1>5 DEF TracedAt, HasRow


LEMMA FreshIsNew ==
    ASSUME FreshStats # {}
    PROVE  \A y \in OnDisk : disk[y].stat # Min(FreshStats)
  <1>1. FreshStats \in SUBSET Nat
    BY Bounds DEF FreshStats, Stat
  <1>2. Min(FreshStats) \in FreshStats
    BY <1>1, MinIsOne
  <1> QED BY <1>2 DEF FreshStats

(* A file added, or copied to q. *)
LEMMA LandsTraced ==
    ASSUME Typed, Traced, NEW q \in Paths, NEW w, NEW p,
           AddFile(q, w) \/ (p \in Paths /\ CopyFile(p, q))
    PROVE  Traced'
  <1>1. /\ UNCHANGED tables /\ q \notin OnDisk /\ disk \in [Paths -> File \cup {None}]
        /\ \A y \in Paths \ {q} : disk'[y] = disk[y]
    BY DEF Typed, TypeOK, AddFile, CopyFile, Touched
  <1>2. SUFFICES ASSUME NEW x \in Paths, NEW b, b = owner'[x], b # None
                 PROVE  TracedAt(x, b)'
    BY DEF Traced, TracedAt, HasRow, Away, SlotFree
  <1>3. x # q /\ owner[x] = b /\ x \notin Displaced(q)
    BY <1>2 DEF AddFile, CopyFile, Lands
  <1>4. TracedAt(x, b) /\ x \in OnDisk
    BY <1>2, <1>3 DEF Traced, TracedAt
  <1>5. disk'[q].stat # disk[x].stat \/ FormatOf[q] # FormatOf[x]
    <2>1. CASE AddFile(q, w)
      <3>1. disk'[q] = [work |-> w, stat |-> Min(FreshStats)] /\ FreshStats # {}
        BY <1>1, <2>1 DEF AddFile
      <3> QED BY <1>4, <3>1, FreshIsNew
    <2>2. CASE p \in Paths /\ CopyFile(p, q)
      <3>1. disk'[q] = disk[p] /\ FormatOf[p] = FormatOf[q] /\ x \notin Alike(p)
        BY <1>1, <1>2, <1>3, <2>2 DEF CopyFile, Lands
      <3> QED BY <1>4, <3>1 DEF Alike
    <2> QED BY <2>1, <2>2
  <1> QED BY <1>1, <1>3, <1>4, <1>5, StaysTraced

LEMMA EditTraced ==
    ASSUME Typed, Traced, NEW q \in Paths, NEW w \in Works, EditFile(q, w)
    PROVE  Traced'
  <1>1. /\ UNCHANGED tables /\ q \in OnDisk /\ FreshStats # {}
        /\ disk' = [disk EXCEPT ![q] = [work |-> w, stat |-> Min(FreshStats)]]
        /\ disk \in [Paths -> File \cup {None}] /\ owner \in [Paths -> Id \cup {None}]
    BY DEF Typed, TypeOK, EditFile, Touched
  <1>2. SUFFICES ASSUME NEW x \in Paths, NEW b, b = owner'[x], b # None
                 PROVE  TracedAt(x, b)'
    BY DEF Traced, TracedAt, HasRow, Away, SlotFree
  <1>3. owner[x] = b /\ (x = q => HasRow(files, b, q))
    BY <1>1, <1>2 DEF EditFile, HasRow
  <1>4. TracedAt(x, b) /\ x \in OnDisk
    BY <1>2, <1>3 DEF Traced, TracedAt
  <1>5. CASE x = q
    <2>1. books' = books /\ files' = files /\ live' = live
      BY <1>1 DEF tables, live
    <2>2. OnDisk' = OnDisk
      <3>1. [work |-> w, stat |-> Min(FreshStats)] # None
        BY <1>1, Nulls, FreshIs DEF File
      <3> QED BY <1>1, <3>1 DEF OnDisk
    <2> QED BY <1>3, <1>4, <1>5, <2>1, <2>2 DEF TracedAt, SlotFree, HasRow
  <1>6. CASE x # q
    <2>1. /\ disk'[q].stat = Min(FreshStats) /\ \A y \in Paths \ {q} : disk'[y] = disk[y]
          /\ disk'[x] = disk[x]
      BY <1>1, <1>6
    <2>2. disk'[q].stat # disk[x].stat
      BY <1>1, <1>4, <2>1, FreshIsNew
    <2> QED BY <1>1, <1>3, <1>4, <1>6, <2>1, <2>2, StaysTraced
  <1> QED BY <1>5, <1>6

(* A file removed, or unlinked. *)
LEMMA LeavesTraced ==
    ASSUME Typed, Traced, NEW q \in Paths, UNCHANGED tables, disk' = [disk EXCEPT ![q] = None],
           owner' = [x \in Paths |-> IF x \in Alike(q) THEN None ELSE owner[x]], q \in OnDisk
    PROVE  Traced'
  <1>1. disk \in [Paths -> File \cup {None}]
    BY DEF Typed, TypeOK
  <1>2. SUFFICES ASSUME NEW x \in Paths, NEW b, b = owner'[x], b # None
                 PROVE  TracedAt(x, b)'
    BY DEF Traced, TracedAt, HasRow, Away, SlotFree
  <1>3. owner[x] = b /\ x \notin Alike(q)
    BY <1>2
  <1>4. TracedAt(x, b) /\ x \in OnDisk /\ x # q
    BY <1>2, <1>3 DEF Traced, TracedAt, Alike
  <1>5. disk'[x] = disk[x] /\ (\A y \in Paths \ {q} : disk'[y] = disk[y]) /\ q \notin OnDisk'
    BY <1>1, <1>4 DEF OnDisk
  <1> QED BY <1>3, <1>4, <1>5, StaysTraced


(* A file moved from p to q, where it is traced if it was sure to be.      *)
LEMMA MoveTraced ==
    ASSUME Typed, Traced, NEW p \in Paths, NEW q \in Paths, MoveFile(p, q)
    PROVE  Traced'
  <1>1. /\ UNCHANGED tables /\ p \in OnDisk /\ q \notin OnDisk /\ FormatOf[p] = FormatOf[q] /\ p # q
        /\ disk' = [disk EXCEPT ![p] = None, ![q] = disk[p]]
        /\ disk \in [Paths -> File \cup {None}]
    BY DEF Typed, TypeOK, MoveFile, Touched
  <1>2. SUFFICES ASSUME NEW x \in Paths, NEW b, b = owner'[x], b # None
                 PROVE  TracedAt(x, b)'
    BY DEF Traced, TracedAt, HasRow, Away, SlotFree
  <1>3. disk'[p] = None /\ disk'[q] = disk[p] /\ \A y \in Paths \ {p, q} : disk'[y] = disk[y]
    BY <1>1
  <1>4. /\ books' = books /\ files' = files /\ ledger' = ledger /\ live' = live
        /\ \A y \in OnDisk' : y = q \/ (y # p /\ y \in OnDisk)
        /\ q \in OnDisk'
    BY <1>1, <1>3 DEF tables, live, OnDisk
  <1>5. CASE x # q
    <2>1. owner[x] = b /\ x \notin Alike(p) /\ x \notin Displaced(q)
      BY <1>2, <1>5 DEF MoveFile
    <2>2. TracedAt(x, b) /\ x \in OnDisk
      BY <1>2, <2>1 DEF Traced, TracedAt
    <2>3. disk[p].stat # disk[x].stat \/ FormatOf[q] # FormatOf[x]
      BY <1>1, <2>1, <2>2 DEF Alike
    <2>4. x # p
      BY <2>1, <2>2 DEF Alike
    <2>5. disk'[x] = disk[x] /\ \A y \in Paths \ {q} : disk'[y] = disk[y] \/ disk'[y] = None
      BY <1>3, <1>5, <2>4
    <2> QED BY <1>1, <1>3, <1>5, <2>1, <2>2, <2>3, <2>5, StaysTraced
  <1>6. CASE x = q
    <2>1. /\ owner[p] = b /\ ~Known(q) /\ Alike(p) = {p}
          /\ \E f \in IndexedAs(p) : f.book = owner[p] /\ RowsAlike(p) = {f}
      BY <1>2, <1>6 DEF MoveFile
    <2>2. TracedAt(p, b)
      BY <1>2, <2>1 DEF Traced
    <2>3. b \in live /\ SlotFree(books[b].key, p) /\ books[b].key # q
      BY <2>1, <2>2 DEF TracedAt, Known
    <2>4. SlotFree(books[b].key, q)'
      BY <1>1, <1>4, <2>3 DEF SlotFree
    <2>5. PICK f \in IndexedAs(p) : f.book = b /\ RowsAlike(p) = {f}
      BY <2>1
    <2>6. f \in files /\ (f.key = p \/ f.key \notin OnDisk)
      BY <2>5 DEF IndexedAs
    <2>7. f.key # q
      BY <2>1, <2>6 DEF Known
    <2>8. f.key \notin OnDisk'
      BY <1>1, <1>4, <2>6, <2>7
    <2>9. RowsAlike(q)' = {f}
      BY <1>1, <1>3, <1>4, <2>5 DEF RowsAlike
    <2>10. Alike(q)' = {q}
      <3>1. ASSUME NEW y \in OnDisk', disk'[y].stat = disk'[q].stat, FormatOf[y] = FormatOf[q], y # q
            PROVE  FALSE
        <4>1. y \in OnDisk /\ y # p
          BY <1>4, <3>1
        <4>2. y \in Paths /\ disk'[y] = disk[y]
          BY <1>3, <3>1, <4>1 DEF OnDisk
        <4>3. y \in Alike(p)
          BY <1>1, <1>3, <3>1, <4>1, <4>2 DEF Alike
        <4> QED BY <2>1, <4>1, <4>3
      <3> QED BY <1>4, <3>1 DEF Alike
    <2>11. ~Known(q)'
      BY <1>4, <2>1 DEF Known
    <2>12. Away(q, b)'
      BY <1>4, <2>5, <2>6, <2>8, <2>9, <2>10, <2>11 DEF Away
    <2> QED BY <1>4, <1>6, <2>3, <2>4, <2>12 DEF TracedAt
  <1> QED BY <1>5, <1>6

LEMMA UnlinkTraced ==
    ASSUME Typed, Traced, NEW p \in Paths, Unlink(p)
    PROVE  Traced'
  <1>1. UNCHANGED tables /\ disk \in [Paths -> File \cup {None}] /\ owner \in [Paths -> Id \cup {None}]
    BY DEF Unlink, Typed, TypeOK
  <1>2. CASE UNCHANGED <<disk, owner>>
    BY <1>1, <1>2 DEF tables, Traced, TracedAt, HasRow, Away, SlotFree, Known, Alike, RowsAlike, live, OnDisk
  <1>3. CASE /\ disk' = [disk EXCEPT ![p] = None]
             /\ owner' = [q \in Paths |-> IF p \in OnDisk /\ q \in Alike(p) THEN None ELSE owner[q]]
    <2>1. CASE p \in OnDisk
      <3>1. owner' = [q \in Paths |-> IF q \in Alike(p) THEN None ELSE owner[q]]
        BY <1>3, <2>1
      <3> QED BY <1>1, <1>3, <2>1, <3>1, LeavesTraced
    <2>2. CASE p \notin OnDisk
      <3>1. disk' = disk /\ owner' = owner
        BY <1>1, <1>3, <2>2 DEF OnDisk
      <3> QED BY <1>1, <3>1
        DEF tables, Traced, TracedAt, HasRow, Away, SlotFree, Known, Alike, RowsAlike, live, OnDisk
    <2> QED BY <2>1, <2>2
  <1> QED BY <1>2, <1>3 DEF Unlink

LEMMA RemoveTraced ==
    ASSUME Typed, Traced, NEW p \in Paths, RemoveFile(p)
    PROVE  Traced'
  <1>1. /\ UNCHANGED tables /\ p \in OnDisk /\ disk' = [disk EXCEPT ![p] = None]
        /\ owner' = [x \in Paths |-> IF x \in Alike(p) THEN None ELSE owner[x]]
    BY DEF RemoveFile, Touched
  <1> QED BY <1>1, LeavesTraced

(* Books and rows go, and none of those of the file at x.                  *)
LEMMA FewerTraced ==
    ASSUME NEW x \in Paths, NEW b, TracedAt(x, b), UNCHANGED disk,
           files' \subseteq files, ledger' \subseteq ledger, b \in live',
           \A c \in live' : c \in live /\ books'[c].key = books[c].key,
           \A f \in IndexedAs(x) : f.book = b => f \in files'
    PROVE  TracedAt(x, b)'
  <1>1. OnDisk' = OnDisk /\ books'[b].key = books[b].key
    BY DEF OnDisk
  <1>2. x \in OnDisk' /\ b \in live' /\ SlotFree(books[b].key, x)'
    BY <1>1 DEF TracedAt, SlotFree
  <1>3. HasRow(files, b, x) => HasRow(files, b, x)'
    BY DEF HasRow, IndexedAs, TracedAt
  <1>4. Away(x, b) => Away(x, b)'
    <2>1. SUFFICES ASSUME Away(x, b) PROVE Away(x, b)'
      OBVIOUS
    <2>2. PICK f \in files : f.book = b /\ RowsAlike(x) = {f} /\ f.key \notin OnDisk
      BY <2>1 DEF Away
    <2>3. f \in files'
      BY <2>2 DEF IndexedAs, TracedAt
    <2>4. RowsAlike(x)' = {f}
      BY <2>2, <2>3 DEF RowsAlike
    <2>5. ~Known(x)' /\ Alike(x)' = {x}
      BY <1>1, <2>1 DEF Away, Known, Alike
    <2> QED BY <1>1, <2>2, <2>3, <2>4, <2>5 DEF Away
  <1> QED BY <1>1, <1>2, <1>3, <1>4 DEF TracedAt

LEMMA FlagsTraced ==
    ASSUME Typed, Traced, NEW b, Read(b) \/ RetentionPasses(b) \/ Restart
    PROVE  Traced'
  <1>1. UNCHANGED <<disk, files, ledger, owner>> /\ books \in [Id -> Book \cup {None}]
    BY DEF Read, RetentionPasses, Restart, Typed, TypeOK
  <1>2. \A c \in Id : /\ books'[c] # None <=> books[c] # None
                      /\ books[c] # None => books'[c].key = books[c].key
    <2>1. \A r \in Book : /\ [r EXCEPT !.read = TRUE] \in Book /\ [r EXCEPT !.read = TRUE].key = r.key
                          /\ [r EXCEPT !.missing = "old"] \in Book /\ [r EXCEPT !.missing = "old"].key = r.key
                          /\ [r EXCEPT !.missing = "recent"] \in Book
                          /\ [r EXCEPT !.missing = "recent"].key = r.key
      BY DEF Book
    <2>2. SUFFICES ASSUME NEW c \in Id
                   PROVE  /\ books'[c] # None <=> books[c] # None
                          /\ books[c] # None => books'[c].key = books[c].key
      OBVIOUS
    <2>3. \/ books'[c] = books[c]
          \/ /\ books[c] # None
             /\ \/ books'[c] = [books[c] EXCEPT !.read = TRUE]
                \/ books'[c] = [books[c] EXCEPT !.missing = "old"]
                \/ books'[c] = [books[c] EXCEPT !.missing = "recent"]
      BY <1>1 DEF Read, RetentionPasses, Restart, live
    <2>4. books[c] # None => books[c] \in Book
      BY <1>1
    <2> QED BY <2>1, <2>3, <2>4, Nulls
  <1>3. \A c \in live' : c \in live /\ books'[c].key = books[c].key
    BY <1>2 DEF live
  <1>4. SUFFICES ASSUME NEW x \in Paths, NEW c, c = owner'[x], c # None
                 PROVE  TracedAt(x, c)'
    BY DEF Traced, TracedAt, HasRow, Away, SlotFree
  <1>5. TracedAt(x, c)
    BY <1>1, <1>4 DEF Traced
  <1>6. c \in live'
    BY <1>2, <1>5 DEF TracedAt, live
  <1>7. \A f \in IndexedAs(x) : f.book = c => f \in files'
    BY <1>1 DEF IndexedAs
  <1> QED BY <1>1, <1>3, <1>5, <1>6, <1>7, FewerTraced

LEMMA PurgeTraced ==
    ASSUME Typed, Traced, GcDelete
    PROVE  Traced'
  <1>1. /\ disk' = disk /\ owner' = Disowned(pass)
        /\ files' = {f \in files : f.book \notin pass}
        /\ ledger' = {m \in ledger : m.book \notin pass}
        /\ books' = [b \in Id |-> IF b \in pass THEN None ELSE books[b]]
    BY DEF GcDelete, SetTables, Dropped, Tables
  <1>2. SUFFICES ASSUME NEW x \in Paths, NEW c, c = owner'[x], c # None
                 PROVE  TracedAt(x, c)'
    BY DEF Traced, TracedAt, HasRow, Away, SlotFree
  <1>3. owner[x] = c /\ c \notin pass
    BY <1>1, <1>2 DEF Disowned
  <1>4. TracedAt(x, c)
    BY <1>2, <1>3 DEF Traced
  <1>5. c \in live' /\ \A b \in live' : b \in live /\ books'[b].key = books[b].key
    BY <1>1, <1>3, <1>4 DEF live, TracedAt
  <1>6. \A f \in IndexedAs(x) : f.book = c => f \in files'
    BY <1>1, <1>3 DEF IndexedAs
  <1> QED BY <1>1, <1>4, <1>5, <1>6, FewerTraced

LEMMA DeleteTraced ==
    ASSUME Typed, Traced, NEW b \in Id, NEW chosen \in SUBSET FilesOf(Tables, b),
           delete_book_items(b, chosen)
    PROVE  Traced'
  <1>1. PICK gone : gone = IF chosen = FilesOf(Tables, b) THEN {b} ELSE {}
    OBVIOUS
  <1>2. /\ disk' = disk
        /\ SetTables(Dropped(Thinned(b, chosen), gone))
        /\ owner' = [p \in Paths |->
               IF owner[p] = b /\ (chosen = FilesOf(Tables, b) \/ chosen \cap IndexedAs(p) # {})
               THEN None ELSE owner[p]]
    BY <1>1, DeleteIs
  <1>3. /\ files' = {f \in files \ chosen : f.book \notin gone}
        /\ ledger' \subseteq ledger
        /\ books' = [c \in Id |-> IF c \in gone THEN None ELSE books[c]]
    BY <1>2 DEF SetTables, Dropped, Thinned
  <1>4. SUFFICES ASSUME NEW x \in Paths, NEW c, c = owner'[x], c # None
                 PROVE  TracedAt(x, c)'
    BY DEF Traced, TracedAt, HasRow, Away, SlotFree
  <1>5. owner[x] = c /\ (c = b => chosen # FilesOf(Tables, b) /\ chosen \cap IndexedAs(x) = {})
    BY <1>2, <1>4
  <1>6. TracedAt(x, c) /\ c \notin gone
    BY <1>1, <1>4, <1>5 DEF Traced
  <1>7. c \in live' /\ \A e \in live' : e \in live /\ books'[e].key = books[e].key
    BY <1>3, <1>6 DEF live, TracedAt
  <1>8. \A f \in IndexedAs(x) : f.book = c => f \in files'
    BY <1>3, <1>5, <1>6 DEF IndexedAs, FilesOf, Tables
  <1> QED BY <1>2, <1>3, <1>6, <1>7, <1>8, FewerTraced


(* The files of a book merged away are the target's, which had none of     *)
(* their format.                                                           *)
LEMMA MergeTraced ==
    ASSUME troubled' = {}, Typed, Agreed, Traced, NEW s \in Id, NEW t \in Id, merge_books(s, t)
    PROVE  Traced'
  <1>1. TypeOK /\ Placed(Tables) /\ files \subseteq Row /\ ledger \subseteq Attachment
    BY DEF Typed, Agreed, TypeOK
  <1>2. /\ s \in live /\ t \in live /\ s # t /\ owner' = OwnersMerged(s, t) /\ disk' = disk
        /\ Shapes(s) \cap Shapes(t) = {} /\ ~GuardLost(s)
    BY MergeIs
  <1>3. PICK M \in Merged(s, t) : SetTables(Dropped(M, {s}))
    BY MergeIs
  <1>4. PICK T : T = Dropped(M, {s})
    OBVIOUS
  <1>5. MergeLeaves(T, s, t)
    BY <1>1, <1>2, <1>4, MergeDoes
  <1>6. books' = T.books /\ files' = T.files /\ ledger' = T.ledger
    BY <1>3, <1>4 DEF SetTables
  <1>7. \A f \in files : /\ Rehomed(f, s, t) \in files'
                         /\ Rehomed(f, s, t).key = f.key /\ Rehomed(f, s, t).stat = f.stat
                         /\ Rehomed(f, s, t).book = IF f.book = s THEN t ELSE f.book
    <2>1. SUFFICES ASSUME NEW f \in files
                   PROVE  /\ Rehomed(f, s, t) \in files'
                          /\ Rehomed(f, s, t).key = f.key /\ Rehomed(f, s, t).stat = f.stat
                          /\ Rehomed(f, s, t).book = IF f.book = s THEN t ELSE f.book
      OBVIOUS
    <2>2. f \in Row
      BY <1>1
    <2>3. PICK e : e = Rehomed(f, s, t)
      OBVIOUS
    <2>4. e.key = f.key /\ e.stat = f.stat /\ e.book = IF f.book = s THEN t ELSE f.book
      BY <2>2, <2>3, RehomedIs
    <2>5. M.files = {Rehomed(g, s, t) : g \in files}
      BY <1>3, MergedIs
    <2>6. e \in T.files
      BY <1>2, <1>4, <2>3, <2>4, <2>5 DEF Dropped
    <2> QED BY <1>6, <2>3, <2>4, <2>6
  <1>8. \A e \in files' : \E f \in files : e = Rehomed(f, s, t)
    BY <1>5, <1>6 DEF MergeLeaves, Came
  <1>9. OnDisk' = OnDisk
    BY <1>2 DEF OnDisk
  <1>10. \A x : ~Known(x) => ~Known(x)'
    <2>1. SUFFICES ASSUME NEW x, Known(x)' PROVE Known(x)
      OBVIOUS
    <2>2. CASE \E b \in live' : books'[b].key = x
      <3>1. PICK b \in live' : books'[b].key = x
        BY <2>2
      <3>2. b \in Id /\ Stands(T, b)
        BY <1>6, <3>1 DEF live, Stands
      <3>3. b \in live /\ b # s
        BY <1>5, <3>2 DEF MergeLeaves
      <3>4. books'[b] = books[b]
        BY <1>5, <1>6, <3>2, <3>3 DEF MergeLeaves
      <3> QED BY <3>1, <3>3, <3>4 DEF Known
    <2>3. CASE \E m \in ledger' : m.key = x
      <3>1. PICK e \in T.ledger : e.key = x
        BY <1>6, <2>3
      <3>2. Guard(e, s, t) \/ \E m \in ledger : CameEntry(m, e, s, t)
        BY <1>5 DEF MergeLeaves
      <3>3. CASE Guard(e, s, t)
        BY <1>2, <3>1, <3>3 DEF Guard, Entry, Known
      <3>4. CASE \E m \in ledger : CameEntry(m, e, s, t)
        BY <3>1, <3>4 DEF CameEntry, Came, Known
      <3> QED BY <3>2, <3>3, <3>4
    <2>4. CASE \E f \in files' : f.key = x
      BY <1>7, <1>8, <2>4 DEF Known
    <2> QED BY <2>1, <2>2, <2>3, <2>4 DEF Known
  <1>11. SUFFICES ASSUME NEW x \in Paths, NEW c, c = owner'[x], c # None
                  PROVE  TracedAt(x, c)'
    BY DEF Traced, TracedAt, HasRow, Away, SlotFree
  <1>12. PICK b : b = owner[x]
    OBVIOUS
  <1>13. /\ b # None /\ c = (IF b = s THEN t ELSE b)
         /\ ~(b = s /\ books[s].key = x /\ \A f \in FilesOf(Tables, s) : f.key # x)
    <2>1. owner'[x] = IF owner[x] # s THEN owner[x]
                      ELSE IF books[s].key = x /\ \A f \in FilesOf(Tables, s) : f.key # x THEN None ELSE t
      BY <1>2 DEF OwnersMerged
    <2>2. s # None
      BY Nulls DEF Id
    <2> QED BY <1>11, <1>12, <2>1, <2>2
  <1>14. TracedAt(x, b)
    BY <1>12, <1>13 DEF Traced
  <1>15. c \in live' /\ books'[c] = books[c] /\ c \in Id
    <2>1. c \in Id /\ c \in live /\ c # s
      BY <1>2, <1>13, <1>14 DEF TracedAt, live
    <2>2. Stands(T, c) /\ T.books[c] = books[c]
      BY <1>5, <2>1 DEF MergeLeaves
    <2> QED BY <1>6, <2>1, <2>2 DEF Stands, live
  <1>16. HasRow(files, b, x) => HasRow(files, c, x)'
    BY <1>7, <1>13 DEF HasRow
  <1>17. Away(x, b) => Away(x, c)'
    <2>1. SUFFICES ASSUME Away(x, b) PROVE Away(x, c)'
      OBVIOUS
    <2>2. PICK f \in files : f.book = b /\ RowsAlike(x) = {f} /\ f.key \notin OnDisk
      BY <2>1 DEF Away
    <2>3. PICK g : g = Rehomed(f, s, t)
      OBVIOUS
    <2>4. g \in files' /\ g.key = f.key /\ g.stat = f.stat /\ g.book = c
      BY <1>7, <1>13, <2>2, <2>3
    <2>5. \A e \in files' : e \in RowsAlike(x)' <=> e = g
      <3>1. ASSUME NEW e \in files', e \in RowsAlike(x)'
            PROVE  e = g
        <4>1. PICK h \in files : e = Rehomed(h, s, t)
          BY <1>8
        <4>2. e.key = h.key /\ e.stat = h.stat
          BY <1>7, <4>1
        <4>3. h \in RowsAlike(x)
          BY <1>2, <3>1, <4>2 DEF RowsAlike
        <4> QED BY <2>2, <2>3, <4>1, <4>3
      <3>2. f \in RowsAlike(x)
        BY <2>2
      <3>3. g \in RowsAlike(x)'
        BY <1>2, <2>4, <3>2 DEF RowsAlike
      <3> QED BY <3>1, <3>3
    <2>6. RowsAlike(x)' = {g}
      BY <2>4, <2>5 DEF RowsAlike
    <2>7. Alike(x)' = {x} /\ ~Known(x)'
      BY <1>2, <1>9, <1>10, <2>1 DEF Away, Alike
    <2> QED BY <1>9, <2>2, <2>4, <2>6, <2>7 DEF Away
  <1>18. CASE b # s
    BY <1>9, <1>13, <1>14, <1>15, <1>16, <1>17, <1>18 DEF TracedAt, SlotFree
  <1>19. CASE b = s
    <2>1. PICK f \in files : f.book = s /\ FormatOf[f.key] = FormatOf[x] /\ (f.key = x \/ Away(x, s))
      <3>1. CASE HasRow(files, s, x)
        BY <3>1 DEF HasRow
      <3>2. CASE Away(x, s)
        BY <3>2 DEF Away, RowsAlike
      <3>3. CASE books[s].key = x
        BY <1>13, <1>19, <3>3 DEF FilesOf, Tables
      <3> QED BY <1>14, <1>19, <3>1, <3>2, <3>3 DEF TracedAt
    <2>2. FormatOf[x] \in Shapes(s)
      BY <2>1 DEF Shapes, FormatsOf, FilesOf, Tables
    <2>3. FormatOf[books[t].key] \in Shapes(t)
      BY DEF Shapes
    <2>4. FormatOf[books[t].key] # FormatOf[x]
      BY <1>2, <2>2, <2>3
    <2>5. HasRow(files, c, x)' \/ Away(x, c)'
      BY <1>16, <1>17, <1>19, <2>1 DEF HasRow
    <2>6. c = t
      BY <1>13, <1>19
    <2>7. SlotFree(books[c].key, x)'
      BY <1>15, <2>4, <2>6 DEF SlotFree
    <2> QED BY <1>9, <1>14, <1>15, <2>5, <2>7 DEF TracedAt
  <1> QED BY <1>18, <1>19

-----------------------------------------------------------------------------
(* A file and its book, through a scan that saw everything.                *)

(* Of the rows that are gone and the files that are new, only the row r    *)
(* and the file p have that stat and format.                               *)
OnlyPair(r, p, seen, db) ==
    /\ r \in db /\ r.has_file /\ r.key \notin DOMAIN seen
    /\ p \in DOMAIN seen /\ \A q \in db : q.key # p
    /\ seen[p] = r.stat /\ FormatOf[p] = FormatOf[r.key]
    /\ \A d \in db : d.has_file /\ d.key \notin DOMAIN seen /\ d.stat = seen[p]
                     /\ FormatOf[d.key] = FormatOf[p] => d = r
    /\ \A a \in DOMAIN seen : seen[a] = seen[p] /\ FormatOf[a] = FormatOf[p] => a = p

LEMMA PairIsMade ==
    ASSUME NEW seen, NEW native, NEW merged, NEW plan, NEW db, db = native \cup merged,
           plan = diff_library(seen, native, merged, TRUE),
           Listed(db), NEW r, NEW p, OnlyPair(r, p, seen, db)
    PROVE  /\ \E m \in plan.moved : m.uuid = r.uuid /\ m.to = p
           /\ r.uuid \notin plan.removed
  <1>1. PICK known, arrivals, departures, pairs :
          /\ known = {x.key : x \in db} /\ arrivals = DOMAIN seen \ known
          /\ departures = {x \in FileBacked(db) : x.key \notin DOMAIN seen}
          /\ pairs = match_moved_files(departures, arrivals, seen)
    OBVIOUS
  <1>2. /\ plan.moved = {[uuid |-> da[1].uuid, to |-> da[2]] : da \in pairs}
        /\ plan.removed = {x.uuid : x \in departures \ {da[1] : da \in pairs}}
    BY <1>1 DEF diff_library
  <1>3. \A d : d \in departures <=> d \in db /\ d.has_file /\ d.key \notin DOMAIN seen
    BY <1>1 DEF FileBacked
  <1>4. r \in departures /\ p \in arrivals
    BY <1>1, <1>3 DEF OnlyPair
  <1>5. PICK x : x = <<r, p>>
    OBVIOUS
  <1>6. x[1] = r /\ x[2] = p /\ x \in departures \X arrivals
    BY <1>4, <1>5
  <1>7. seen[p] = r.stat /\ FormatOf[p] = FormatOf[r.key]
    BY DEF OnlyPair
  <1>8. {d \in departures : seen[p] = d.stat /\ FormatOf[p] = FormatOf[d.key]} = {r}
    BY <1>3, <1>4, <1>7 DEF OnlyPair
  <1>9. {a \in arrivals : seen[a] = r.stat /\ FormatOf[a] = FormatOf[r.key]} = {p}
    BY <1>1, <1>4, <1>7 DEF OnlyPair
  <1>10. x \in pairs
    BY <1>1, <1>6, <1>7, <1>8, <1>9 DEF match_moved_files
  <1>11. [uuid |-> r.uuid, to |-> p] \in plan.moved
    BY <1>2, <1>6, <1>10
  <1>12. r.uuid \notin plan.removed
    <2>1. SUFFICES ASSUME NEW d \in departures, d \notin {da[1] : da \in pairs}, d.uuid = r.uuid
                   PROVE  FALSE
      BY <1>2
    <2>2. d = r
      BY <1>3, <1>4, <2>1 DEF Listed
    <2> QED BY <1>6, <1>10, <2>1, <2>2
  <1> QED BY <1>11, <1>12

(* The row f, known by u, is gone, and its file is at p.                   *)
Departs(f, u, p) ==
    /\ f \in files /\ f.key \notin DOMAIN pass.seen /\ p \in DOMAIN pass.seen /\ p \in Paths /\ ~Known(p)
    /\ u \in Int /\ Names(Tables, f, u) /\ \A v : Names(Tables, f, v) => v = u
    /\ u \notin pass.removed
    /\ \E m \in pass.moved : m.uuid = u /\ m.to = p

LEMMA OneName ==
    ASSUME TypeOK, Placed(Tables), NEW f \in files, NEW u, NEW v, Names(Tables, f, u), Names(Tables, f, v)
    PROVE  u = v
  <1>1. /\ Apart(Tables) /\ OneEntry(Tables) /\ Keyed(Tables) /\ Tables.files = files
    BY TablesKeyed DEF Placed, Tables
  <1>2. f.book \in Id /\ Stands(Tables, f.book)
    BY <1>1 DEF Keyed, Db, Row
  <1>3. ASSUME NEW w, Names(Tables, f, w)
        PROVE  \/ w = f.book /\ \A a \in Tables.ledger : a.key # f.key
               \/ w # f.book /\ \E a \in Tables.ledger : a.uuid = w /\ a.key = f.key
               \/ \E a \in Tables.ledger : a.uuid = w /\ a.key = f.key
    BY <1>1, <1>2, <1>3 DEF Names, Apart
  <1> QED BY <1>1, <1>3 DEF OneEntry

LEMMA AwayDeparts ==
    ASSUME Clear, NEW p \in OnDisk, NEW b, Away(p, b)
    PROVE  \E f \in files, u \in Int : f.book = b /\ FormatOf[f.key] = FormatOf[p] /\ Departs(f, u, p)
  <1>1. PICK plan, seen, native, merged, db :
          /\ plan = pass /\ seen = pass.seen /\ native = native_rows /\ merged = merged_rows
          /\ db = native \cup merged
    OBVIOUS
  <1>2. /\ TypeOK /\ Placed(Tables) /\ DOMAIN seen = OnDisk /\ \A q \in OnDisk : seen[q] = disk[q].stat
        /\ plan = diff_library(seen, native, merged, TRUE)
    BY <1>1, ClearSees DEF Clear, Calmly
  <1>3. Listed(db)
    BY <1>1, <1>2, IndexListed
  <1>4. Keyed(Tables) /\ HasHome(Tables) /\ Tables.files = files /\ Tables.books = books
    BY <1>2, TablesKeyed DEF Placed, Tables
  <1>5. PICK f \in files : f.book = b /\ RowsAlike(p) = {f} /\ f.key \notin OnDisk
    BY DEF Away
  <1>6. f.stat = disk[p].stat /\ FormatOf[f.key] = FormatOf[p]
    BY <1>5 DEF RowsAlike
  <1>7. PICK u \in Int : Names(Tables, f, u)
    BY <1>4, HasName
  <1>8. PICK r \in db : r.uuid = u /\ r.key = f.key /\ r.stat = f.stat /\ r.has_file
    BY <1>3, <1>7 DEF Listed
  <1>9. \A v : Names(Tables, f, v) => v = u
    BY <1>2, <1>7, OneName
  <1>10. ~Known(p) /\ p \in Paths
    BY DEF Away, OnDisk
  <1>11. \A q \in db : q.key # p
    BY <1>3, <1>10 DEF Listed, Known
  <1>12. ASSUME NEW d \in db, d.has_file, d.key \notin DOMAIN seen, d.stat = seen[p],
                FormatOf[d.key] = FormatOf[p]
         PROVE  d = r
    <2>1. PICK e \in files : e.key = d.key /\ e.stat = d.stat /\ Names(Tables, e, d.uuid)
      BY <1>3, <1>12 DEF Listed
    <2>2. e \in RowsAlike(p)
      BY <1>2, <1>12, <2>1 DEF RowsAlike
    <2>3. e = f
      BY <1>5, <2>2
    <2>4. d.uuid = u
      BY <1>9, <2>1, <2>3
    <2> QED BY <1>3, <1>8, <2>4 DEF Listed
  <1>13. ASSUME NEW a \in DOMAIN seen, seen[a] = seen[p], FormatOf[a] = FormatOf[p]
         PROVE  a = p
    <2>1. a \in Alike(p)
      BY <1>2, <1>13 DEF Alike
    <2> QED BY <2>1 DEF Away
  <1>14. OnlyPair(r, p, seen, db)
    BY <1>2, <1>5, <1>6, <1>8, <1>11, <1>12, <1>13 DEF OnlyPair
  <1>15. (\E m \in plan.moved : m.uuid = r.uuid /\ m.to = p) /\ r.uuid \notin plan.removed
    <2>1. /\ \E m \in plan.moved : m.uuid = r.uuid /\ m.to = p
          /\ r.uuid \notin plan.removed
      BY <1>1, <1>2, <1>3, <1>14, PairIsMade
    <2> QED BY <2>1
  <1>16. Departs(f, u, p)
    BY <1>1, <1>2, <1>5, <1>7, <1>8, <1>9, <1>10, <1>15 DEF Departs
  <1> QED BY <1>5, <1>6, <1>16


(* Where a move that is not to p, but to n, has taken a key: not from p.   *)
LEMMA NotFromSeen ==
    ASSUME Departing, NEW n, NEW m \in pass.moved, m.to = n, NEW p, p # n,
           NEW from, Went(m.uuid, from, p, n - 1)
    PROVE  p = from
  <1> QED BY DEF Went, Departing

(* The row of a file that was seen where it is stays there.                *)
LEMMA RowStays ==
    ASSUME Departing, PlanWell, NEW n \in Paths, NEW m \in pass.moved, m.to = n,
           NEW T, Keyed(T), Moving(T, n - 1), NEW U, MovesBook(T, U, m) \/ MovesAttached(T, U, m),
           NEW p \in DOMAIN pass.seen, p # n, NEW b, HasRow(T.files, b, p)
    PROVE  HasRow(U.files, b, p)
  <1>1. PICK e \in T.files : e.book = b /\ e.key = p
    BY DEF HasRow
  <1>2. T \in Db /\ BooksWent(T, n - 1) /\ LedgerWent(T, n - 1)
    BY DEF Keyed, Moving
  <1>3. CASE MovesBook(T, U, m)
    <2>1. PICK c, from : c = m.uuid /\ from = T.books[c].key
      OBVIOUS
    <2>2. c \in Id /\ Stands(T, c) /\ U.files = relocate_file_row(T.files, c, from, n)
      BY <1>3, <2>1 DEF MovesBook
    <2>3. c \in live /\ Went(c, books[c].key, from, n - 1)
      BY <1>2, <2>1, <2>2 DEF BooksWent
    <2>4. books[c].key \notin DOMAIN pass.seen
      BY <2>1, <2>3 DEF PlanWell
    <2>5. from # p
      BY <2>1, <2>3, <2>4, NotFromSeen
    <2>6. RelocatedTo(T, U, c, from, n)
      BY <1>2, <2>2, RelocatedGo
    <2>7. e \in U.files
      BY <1>1, <2>5, <2>6 DEF RelocatedTo
    <2> QED BY <1>1, <2>7 DEF HasRow
  <1>4. CASE MovesAttached(T, U, m)
    <2>1. PICK a \in T.ledger : /\ a.uuid = m.uuid
                                /\ U.files = relocate_file_row(T.files, a.book, a.key, n)
      BY <1>4 DEF MovesAttached
    <2>2. PICK c, from : c = a.book /\ from = a.key
      OBVIOUS
    <2>3. PICK d \in ledger : d.uuid = a.uuid /\ Went(a.uuid, d.key, a.key, n - 1)
      BY <1>2 DEF LedgerWent
    <2>4. d.key \notin DOMAIN pass.seen
      BY <2>1, <2>3 DEF PlanWell
    <2>5. from # p
      BY <2>1, <2>2, <2>3, <2>4, NotFromSeen
    <2>6. RelocatedTo(T, U, c, from, n)
      BY <1>2, <2>1, <2>2, RelocatedGo
    <2>7. e \in U.files
      BY <1>1, <2>5, <2>6 DEF RelocatedTo
    <2> QED BY <1>1, <2>7 DEF HasRow
  <1> QED BY <1>3, <1>4

(* The row of a file that has gone waits for its move.                     *)
Waits(T, f, u) ==
    /\ HasRow(T.files, f.book, f.key)
    /\ u # f.book => \E a \in T.ledger : a.uuid = u /\ a.book = f.book /\ a.key = f.key

LEMMA WaitsOn ==
    ASSUME Departing, PlanWell, NEW n \in Paths, NEW m \in pass.moved, m.to = n,
           NEW T, Keyed(T), Moving(T, n - 1), NEW U, MovesBook(T, U, m) \/ MovesAttached(T, U, m),
           NEW f, NEW u, NEW p, Departs(f, u, p), p # n, Waits(T, f, u)
    PROVE  Waits(U, f, u)
  <1>1. PICK e \in T.files : e.book = f.book /\ e.key = f.key
    BY DEF Waits, HasRow
  <1>2. T \in Db /\ BooksWent(T, n - 1) /\ LedgerWent(T, n - 1)
    BY DEF Keyed, Moving
  <1>3. m.uuid # u
    BY DEF Departs, Departing
  <1>4. \A v, from : Went(v, from, f.key, n - 1) => from = f.key
    BY DEF Went, PlanWell, Departs
  <1>5. \A v : Names(Tables, f, v) => v # m.uuid
    BY <1>3 DEF Departs
  <1>6. CASE MovesBook(T, U, m)
    <2>1. PICK c, from : c = m.uuid /\ from = T.books[c].key
      OBVIOUS
    <2>2. /\ c \in Id /\ Stands(T, c) /\ U.files = relocate_file_row(T.files, c, from, n)
          /\ U.ledger = T.ledger
      BY <1>6, <2>1 DEF MovesBook
    <2>3. Went(c, books[c].key, from, n - 1)
      BY <1>2, <2>1, <2>2 DEF BooksWent
    <2>4. f.book # c \/ f.key # from
      BY <1>4, <1>5, <2>1, <2>3 DEF Names, Tables
    <2>5. RelocatedTo(T, U, c, from, n)
      BY <1>2, <2>2, RelocatedGo
    <2>6. e \in U.files
      BY <1>1, <2>4, <2>5 DEF RelocatedTo
    <2> QED BY <1>1, <2>2, <2>6 DEF Waits, HasRow
  <1>7. CASE MovesAttached(T, U, m)
    <2>1. PICK a \in T.ledger : /\ a.uuid = m.uuid
                                /\ U.files = relocate_file_row(T.files, a.book, a.key, n)
                                /\ U.ledger = (T.ledger \ {a}) \cup {Entry(a.uuid, a.book, a.format, n)}
      BY <1>7 DEF MovesAttached
    <2>2. PICK c, from : c = a.book /\ from = a.key
      OBVIOUS
    <2>3. PICK d \in ledger : d.uuid = a.uuid /\ d.book = a.book /\ Went(a.uuid, d.key, a.key, n - 1)
      BY <1>2 DEF LedgerWent
    <2>4. f.book # c \/ f.key # from
      BY <1>4, <1>5, <2>1, <2>2, <2>3 DEF Names, Tables
    <2>5. RelocatedTo(T, U, c, from, n)
      BY <1>2, <2>1, <2>2, RelocatedGo
    <2>6. e \in U.files
      BY <1>1, <2>4, <2>5 DEF RelocatedTo
    <2>7. \A x \in T.ledger : x.uuid = u => x \in U.ledger
      BY <1>3, <2>1
    <2> QED BY <1>1, <2>6, <2>7 DEF Waits, HasRow
  <1> QED BY <1>6, <1>7


LEMMA RowLands ==
    ASSUME NEW fs \in SUBSET Row, NEW b, NEW from, NEW n, HasRow(fs, b, from)
    PROVE  HasRow(relocate_file_row(fs, b, from, n), b, n)
  <1>1. PICK e \in fs : e.book = b /\ e.key = from
    BY DEF HasRow
  <1>2. PICK d : d = [e EXCEPT !.key = n]
    OBVIOUS
  <1>3. d.book = b /\ d.key = n
    BY <1>1, <1>2 DEF Row
  <1>4. d \in relocate_file_row(fs, b, from, n)
    BY <1>1, <1>2 DEF relocate_file_row
  <1> QED BY <1>3, <1>4 DEF HasRow

(* The move of the file that waits is not declined: nothing knew p.        *)
LEMMA Arrives ==
    ASSUME TypeOK, Placed(Tables), Departing, PlanWell, NEW f, NEW u, NEW p, Departs(f, u, p),
           NEW T, Keyed(T), Moving(T, p - 1), Waits(T, f, u),
           NEW m \in pass.moved, m.to = p, NEW U, U = relocate_one(T, m)
    PROVE  HasRow(U.files, f.book, p)
  <1>1. /\ T \in Db /\ T.files \in SUBSET Row /\ BooksWent(T, p - 1) /\ LedgerWent(T, p - 1)
        /\ Handles(T) /\ Handles(Tables) /\ f.book \in Id
    BY DEF Keyed, Db, Moving, Placed, Departs, TypeOK, Row
  <1>2. m.uuid = u /\ p \in Paths
    BY DEF Departs, Departing
  <1>3. \A x \in pass.moved : (x.to = p <=> x.uuid = u) /\ (x.to = p => ~(x.to <= p - 1))
    <2>1. \A x \in pass.moved : x.to = p <=> x.uuid = u
      BY <1>2 DEF Departing
    <2>2. p \in Int /\ ~(p <= p - 1)
      BY <1>2 DEF Paths
    <2> QED BY <2>1, <2>2
  <1>4. ASSUME NEW v, NEW from, Went(v, from, p, p - 1)
        PROVE  from = p
    BY <1>3, <1>4 DEF Went
  <1>5. CASE u = f.book
    <2>1. f.book \in live /\ books[f.book].key = f.key
      <3>1. \A a \in ledger : a.uuid # f.book
        <4>1. Stands(Tables, f.book)
          BY TablesKeyed DEF Keyed, Departs, Tables
        <4> QED BY <1>1, <4>1 DEF Handles, Tables
      <3>2. books[f.book].key = f.key
        BY <1>5, <3>1 DEF Departs, Names, Tables
      <3>3. Stands(Tables, f.book)
        BY TablesKeyed DEF Keyed, Departs, Tables
      <3> QED BY <1>1, <3>2, <3>3 DEF live, Stands, Tables
    <2>2. Stands(T, u) /\ u \in BooksOf(T)
      BY <1>1, <1>5, <2>1 DEF BooksWent, Stands, BooksOf
    <2>3. T.books[u].key = f.key
      <3>1. Went(u, f.key, T.books[u].key, p - 1)
        BY <1>1, <1>5, <2>1, <2>2 DEF BooksWent
      <3> QED BY <1>3, <3>1 DEF Went
    <2>4. \A c \in BooksOf(T) \ {u} : T.books[c].key # p
      <3>1. SUFFICES ASSUME NEW c \in BooksOf(T), T.books[c].key = p PROVE FALSE
        OBVIOUS
      <3>2. c \in Id /\ Stands(T, c)
        BY DEF BooksOf, Stands
      <3>3. c \in live /\ Went(c, books[c].key, p, p - 1)
        BY <1>1, <3>1, <3>2 DEF BooksWent
      <3>4. books[c].key = p
        BY <1>4, <3>3
      <3> QED BY <3>3, <3>4 DEF Departs, Known
    <2>5. U.files = relocate_file_row(T.files, u, f.key, p)
      BY <1>1, <1>2, <2>2, <2>3, <2>4 DEF relocate_one, Db
    <2> QED BY <1>1, <1>5, <2>5, RowLands DEF Waits
  <1>6. CASE u # f.book
    <2>1. PICK a \in T.ledger : a.uuid = u /\ a.book = f.book /\ a.key = f.key
      BY <1>6 DEF Waits
    <2>2. u \notin BooksOf(T)
      BY <1>1, <2>1 DEF Handles, BooksOf, Stands
    <2>3. \A c \in T.ledger : c.uuid # u => c.key # p
      <3>1. SUFFICES ASSUME NEW c \in T.ledger, c.key = p PROVE FALSE
        OBVIOUS
      <3>2. PICK d \in ledger : Went(c.uuid, d.key, p, p - 1)
        BY <1>1, <3>1 DEF LedgerWent
      <3>3. d.key = p
        BY <1>4, <3>2
      <3> QED BY <3>3 DEF Departs, Known
    <2>4. (CHOOSE x \in T.ledger : x.uuid = u) = a
      BY <2>1 DEF Keyed
    <2>5. U.files = relocate_file_row(T.files, f.book, f.key, p)
      BY <1>1, <1>2, <2>1, <2>2, <2>3, <2>4 DEF relocate_one, Db
    <2> QED BY <1>1, <2>5, RowLands DEF Waits
  <1> QED BY <1>5, <1>6


LEMMA WaitsFirst ==
    ASSUME TypeOK, Placed(Tables), NEW f, NEW u, NEW p, Departs(f, u, p)
    PROVE  Waits(AfterRemoved, f, u)
  <1>1. PICK A : A = AfterRemoved
    OBVIOUS
  <1>2. /\ A.ledger = {m \in ledger : m.uuid \notin pass.removed}
        /\ A.files = {e \in files : /\ e.book \in pass.removed \cap live => Backed(Tables, e)
                                    /\ ~\E m \in ledger :
                                          m.uuid \in pass.removed /\ m.book = e.book /\ m.key = e.key}
    BY <1>1, FirstStage
  <1>3. /\ f \in files /\ Handles(Tables) /\ Tables.ledger = ledger
        /\ \A v : Names(Tables, f, v) => v = u
        /\ u \notin pass.removed
    BY DEF Departs, Placed, Tables
  <1>4. ASSUME u # f.book
        PROVE  \E a \in ledger : a.uuid = u /\ a.book = f.book /\ a.key = f.key
    BY <1>3, <1>4 DEF Departs, Names
  <1>5. ~\E m \in ledger : m.uuid \in pass.removed /\ m.book = f.book /\ m.key = f.key
    BY <1>3 DEF Names
  <1>6. f.book \in pass.removed => Backed(Tables, f)
    BY <1>3, <1>4 DEF Backed, Handles
  <1>7. f \in A.files
    BY <1>2, <1>3, <1>5, <1>6
  <1> QED BY <1>1, <1>2, <1>3, <1>4, <1>7 DEF Waits, HasRow

(* The file of b that is at p when the moves are done.                     *)
LEMMA MovesTrace ==
    ASSUME Clear, NEW g, NEW h, NEW k, Course(g, h, k), NEW f, NEW u, NEW p, Departs(f, u, p)
    PROVE  HasRow(AfterMoved.files, f.book, p)
  <1> DEFINE S == {n \in 0 .. LastPath : /\ n < p => Waits(g[n], f, u)
                                         /\ p <= n => HasRow(g[n].files, f.book, p)}
  <1>1. /\ Calmly /\ PlanWell /\ Placed(Tables) /\ TypeOK /\ Departing
        /\ \A n \in 0 .. LastPath : Keyed(g[n]) /\ Moving(g[n], n)
    BY CoursePlaces, ClearDeparts DEF Clear, Calmly, Course
  <1>2. p \in 1 .. LastPath /\ p \in DOMAIN pass.seen
    BY DEF Departs, Paths
  <1>3. 0 \in S
    <2>1. g[0] = AfterRemoved /\ 0 \in 0 .. LastPath
      BY Bounds DEF Course, MovedStage
    <2>2. Waits(AfterRemoved, f, u)
      BY <1>1, WaitsFirst
    <2> QED BY <1>2, <2>1, <2>2
  <1>4. ASSUME NEW n \in Paths, n - 1 \in S
        PROVE  n \in S
    <2>1. n \in 0 .. LastPath /\ n - 1 \in 0 .. LastPath /\ n \in Int
      BY Bounds DEF Paths
    <2>2. PICK T, U : T = g[n - 1] /\ U = g[n]
      OBVIOUS
    <2>3. /\ Keyed(T) /\ T \in Db /\ Moving(T, n - 1)
          /\ n - 1 < p => Waits(T, f, u)
          /\ p <= n - 1 => HasRow(T.files, f.book, p)
      BY <1>1, <1>4, <2>1, <2>2 DEF Keyed
    <2>4. CASE U = T /\ \A m \in pass.moved : m.to # n
      <3>1. n # p
        BY <2>4 DEF Departs
      <3>2. (n < p => n - 1 < p) /\ (p <= n => p <= n - 1)
        BY <1>2, <2>1, <3>1
      <3> QED BY <2>1, <2>2, <2>3, <2>4, <3>2
    <2>5. CASE \E m \in pass.moved : m.to = n /\ U = relocate_one(T, m)
      <3>1. PICK m \in pass.moved : m.to = n /\ U = relocate_one(T, m)
        BY <2>5
      <3>2. m.to \in Paths
        BY <3>1
      <3>3. U = T \/ MovesBook(T, U, m) \/ MovesAttached(T, U, m)
        BY <2>3, <3>1, <3>2, RelocateDoes
      <3>4. CASE n = p
        <4>1. Moving(T, p - 1) /\ Waits(T, f, u) /\ m.to = p
          BY <1>2, <2>3, <3>1, <3>4
        <4>2. HasRow(U.files, f.book, p)
          BY <1>1, <2>3, <3>1, <4>1, Arrives
        <4> QED BY <1>2, <2>1, <2>2, <3>4, <4>2
      <3>5. CASE n < p
        <4>1. Waits(T, f, u) /\ p # n
          BY <1>2, <2>1, <2>3, <3>5
        <4>2. Waits(U, f, u)
          BY <1>1, <2>3, <3>1, <3>3, <4>1, WaitsOn
        <4> QED BY <1>2, <2>1, <2>2, <3>5, <4>2
      <3>6. CASE p < n
        <4>1. HasRow(T.files, f.book, p) /\ p # n
          BY <1>2, <2>1, <2>3, <3>6
        <4>2. HasRow(U.files, f.book, p)
          BY <1>1, <1>2, <2>3, <3>1, <3>3, <4>1, RowStays
        <4> QED BY <1>2, <2>1, <2>2, <3>6, <4>2
      <3> QED BY <1>2, <2>1, <3>4, <3>5, <3>6
    <2> QED BY <2>2, <2>4, <2>5 DEF Course, MovedStage
  <1> HIDE DEF S
  <1>5. LastPath \in S
    BY <1>3, <1>4, UpToTheLast
  <1> QED BY <1>2, <1>5 DEF S, Course

(* The row of a file that is attached where it was seen.                   *)
LEMMA MovesKeep ==
    ASSUME Clear, NEW g, NEW h, NEW k, Course(g, h, k), NEW p \in DOMAIN pass.seen, NEW b \in live,
           books[b].key # p, HasRow(files, b, p)
    PROVE  HasRow(AfterMoved.files, b, p)
  <1> DEFINE S == {n \in 0 .. LastPath : HasRow(g[n].files, b, p)}
  <1>1. /\ Calmly /\ PlanWell /\ Placed(Tables) /\ TypeOK /\ Departing
        /\ \A n \in 0 .. LastPath : Keyed(g[n]) /\ Moving(g[n], n)
    BY CoursePlaces, ClearDeparts DEF Clear, Calmly, Course
  <1>2. PICK f \in files : f.book = b /\ f.key = p
    BY DEF HasRow
  <1>3. 0 \in S
    <2>1. g[0] = AfterRemoved /\ 0 \in 0 .. LastPath
      BY Bounds DEF Course, MovedStage
    <2>2. PICK a \in ledger : a.book = b /\ a.key = p
      BY <1>1, <1>2 DEF Placed, HasHome, InLedger, Tables
    <2>3. \A m \in ledger : m.book = b /\ m.key = p => m = a
      BY <1>1, <2>2 DEF Placed, OneEntry, Tables
    <2>4. a.uuid \notin pass.removed
      <3>1. SUFFICES ASSUME a.uuid \in pass.removed PROVE FALSE
        OBVIOUS
      <3>2. PICK plan, seen, native, merged, db :
              /\ plan = pass /\ seen = pass.seen /\ native = native_rows /\ merged = merged_rows
              /\ db = native \cup merged
        OBVIOUS
      <3>3. Listed(db) /\ Paired(plan, seen, db)
        BY <1>1, <3>2, ClearSees, IndexListed, PlanPairs DEF Clear
      <3>4. PICK r \in db : r.uuid = a.uuid /\ r.has_file /\ r.key \notin DOMAIN seen
        BY <3>1, <3>2, <3>3 DEF Paired
      <3>5. PICK e \in files : e.key = r.key /\ Names(Tables, e, a.uuid)
        BY <3>3, <3>4 DEF Listed
      <3>6. Stands(Tables, e.book) /\ e.book \in Id
        BY <1>1, TablesKeyed DEF Keyed, Tables, TypeOK, Row
      <3>7. a.uuid # e.book
        BY <1>1, <2>2, <3>6 DEF Placed, Handles, Tables
      <3>8. PICK c \in ledger : c.uuid = a.uuid /\ c.key = e.key
        BY <3>5, <3>7 DEF Names, Tables
      <3>9. c = a
        BY <1>1, <2>2, <3>8 DEF TypeOK
      <3> QED BY <2>2, <3>2, <3>4, <3>5, <3>8, <3>9
    <2>5. Backed(Tables, f)
      BY <1>1, <1>2, <2>2 DEF Backed, Placed, Handles, Tables
    <2>6. f \in AfterRemoved.files
      <3>1. AfterRemoved.files =
              {e \in files : /\ e.book \in pass.removed \cap live => Backed(Tables, e)
                             /\ ~\E m \in ledger :
                                   m.uuid \in pass.removed /\ m.book = e.book /\ m.key = e.key}
        BY <1>1, FirstStage
      <3> QED BY <1>2, <2>3, <2>4, <2>5, <3>1
    <2> QED BY <1>2, <2>1, <2>6 DEF HasRow
  <1>4. ASSUME NEW n \in Paths, n - 1 \in S
        PROVE  n \in S
    <2>1. n \in 0 .. LastPath /\ n - 1 \in 0 .. LastPath
      BY Bounds DEF Paths
    <2>2. PICK T, U : T = g[n - 1] /\ U = g[n]
      OBVIOUS
    <2>3. Keyed(T) /\ T \in Db /\ Moving(T, n - 1) /\ HasRow(T.files, b, p)
      BY <1>1, <1>4, <2>1, <2>2 DEF Keyed
    <2>4. CASE U = T /\ \A m \in pass.moved : m.to # n
      BY <2>1, <2>2, <2>3, <2>4
    <2>5. CASE \E m \in pass.moved : m.to = n /\ U = relocate_one(T, m)
      <3>1. PICK m \in pass.moved : m.to = n /\ U = relocate_one(T, m)
        BY <2>5
      <3>2. m.to \in Paths /\ p # n
        BY <1>1, <1>2, <3>1 DEF Departing
      <3>3. U = T \/ MovesBook(T, U, m) \/ MovesAttached(T, U, m)
        BY <2>3, <3>1, <3>2, RelocateDoes
      <3>4. HasRow(U.files, b, p)
        BY <1>1, <2>3, <3>1, <3>2, <3>3, RowStays
      <3> QED BY <2>1, <2>2, <3>4
    <2> QED BY <2>2, <2>4, <2>5 DEF Course, MovedStage
  <1> HIDE DEF S
  <1>5. LastPath \in S
    BY <1>3, <1>4, UpToTheLast
  <1> QED BY <1>5 DEF S, Course


(* A book that moves takes its own file along, and no other file of that   *)
(* format is the book's.                                                   *)
LEMMA MovesFree ==
    ASSUME Clear, NEW g, NEW h, NEW k, Course(g, h, k), NEW b \in live, NEW p \in OnDisk,
           SlotFree(books[b].key, p), NEW f \in files, f.book = b, FormatOf[f.key] = FormatOf[p],
           f.key = p \/ \E u : Departs(f, u, p)
    PROVE  SlotFree(AfterMoved.books[b].key, p)
  <1>1. /\ PlanWell /\ Placed(Tables) /\ TypeOK /\ Departing /\ Moving(AfterMoved, LastPath)
    <2>1. LastPath \in 0 .. LastPath
      BY Bounds
    <2> QED BY <2>1, CoursePlaces, ClearDeparts DEF Clear, Calmly, Course
  <1>2. PICK key, to : key = books[b].key /\ to = AfterMoved.books[b].key
    OBVIOUS
  <1>3. b \in Id /\ Went(b, key, to, LastPath)
    BY <1>1, <1>2 DEF Moving, BooksWent, live
  <1>4. CASE to = key
    BY <1>2, <1>4
  <1>5. CASE to # key
    <2>1. PICK m \in pass.moved : m.uuid = b /\ m.to = to
      BY <1>3, <1>5 DEF Went
    <2>2. key \notin OnDisk /\ FormatOf[key] = FormatOf[to]
      BY <1>1, <1>2, <2>1, ClearSees DEF PlanWell
    <2>3. SUFFICES ASSUME to # p, FormatOf[to] = FormatOf[p] PROVE FALSE
      BY <1>2 DEF SlotFree
    <2>4. PICK e \in files : Names(Tables, e, b)
      <3>1. PICK plan, seen, native, merged, db :
              /\ plan = pass /\ seen = pass.seen /\ native = native_rows /\ merged = merged_rows
              /\ db = native \cup merged
        OBVIOUS
      <3>2. Listed(db) /\ Paired(plan, seen, db)
        BY <1>1, <3>1, ClearSees, IndexListed, PlanPairs DEF Clear
      <3>3. PICK r \in db : r.uuid = b /\ r.has_file
        BY <2>1, <3>1, <3>2 DEF Paired
      <3> QED BY <3>2, <3>3 DEF Listed
    <2>5. \A a \in ledger : a.uuid # b
      BY <1>1, <1>3 DEF Placed, Handles, Stands, Tables, live
    <2>6. e.book = b /\ e.key = key
      BY <1>2, <2>4, <2>5 DEF Names, Tables
    <2>7. e = f
      BY <1>1, <2>2, <2>3, <2>6 DEF Placed, OneSlot, Tables
    <2>8. f.key # p
      BY <2>2, <2>6, <2>7
    <2>9. PICK u : Departs(f, u, p)
      BY <2>8
    <2>10. u = b
      BY <2>4, <2>7, <2>9 DEF Departs
    <2> QED BY <1>1, <2>1, <2>3, <2>9, <2>10 DEF Departs, Departing
  <1> QED BY <1>4, <1>5

(* A file of book b at p, when another file, or this one, is written.      *)
Holds(T, b, p) == HasRow(T.files, b, p) /\ SlotFree(T.books[b].key, p)

LEMMA WroteHolds ==
    ASSUME NEW T0, NEW T, NEW U, NEW c \in Id, NEW n \in OnDisk, Wrote(T0, T, U, c, n),
           NEW b \in Id, NEW p, Holds(T, b, p), SlotFree(T0.books[b].key, p)
    PROVE  Holds(U, b, p)
  <1>1. PICK f \in T.files : f.book = b /\ f.key = p
    BY DEF Holds, HasRow
  <1>2. /\ \A d \in Id \ {c} : U.books[d] = T.books[d]
        /\ U.files = {e \in T.files : ~(e.book = c /\ FormatOf[e.key] = FormatOf[n])} \cup {NewRow(c, n)}
    BY DEF Wrote, Puts
  <1>3. CASE c # b
    BY <1>1, <1>2, <1>3 DEF Holds, HasRow
  <1>4. CASE c = b /\ n = p
    <2>1. NewRow(c, n) \in U.files /\ NewRow(c, n).book = b /\ NewRow(c, n).key = p
      BY <1>2, <1>4 DEF NewRow
    <2>2. U.books[b].key = p \/ U.books[b].key = T.books[b].key
      BY <1>4 DEF Wrote
    <2> QED BY <2>1, <2>2 DEF Holds, HasRow, SlotFree
  <1>5. CASE c = b /\ n # p /\ FormatOf[n] # FormatOf[p]
    <2>1. f \in U.files
      BY <1>1, <1>2, <1>5
    <2>2. U.books[b].key = n \/ U.books[b].key = T.books[b].key
      BY <1>5 DEF Wrote
    <2> QED BY <1>1, <1>5, <2>1, <2>2 DEF Holds, HasRow, SlotFree
  <1>6. CASE c = b /\ n # p /\ FormatOf[n] = FormatOf[p]
    <2>1. ~Alone(T, c, n)
      BY <1>1, <1>6 DEF Alone
    <2>2. T0.books[b].key = n
      BY <1>6, <2>1 DEF Wrote, HolderOf
    <2> QED BY <1>6, <2>2 DEF SlotFree
  <1> QED BY <1>3, <1>4, <1>5, <1>6

LEMMA BucketHolds ==
    ASSUME NEW T0, NEW todo \in SUBSET OnDisk, NEW g, Goes(T0, g, todo),
           NEW b \in Id, NEW p, Holds(T0, b, p)
    PROVE  Holds(g[LastPath], b, p)
  <1> DEFINE S == {n \in 0 .. LastPath : Holds(g[n], b, p)}
  <1>1. 0 \in S
    BY Bounds DEF Goes
  <1>2. ASSUME NEW n \in Paths, n - 1 \in S
        PROVE  n \in S
    <2>1. n \in 0 .. LastPath
      BY Bounds DEF Paths
    <2>2. PICK T, U : T = g[n - 1] /\ U = g[n]
      OBVIOUS
    <2>3. Holds(T, b, p)
      BY <1>2, <2>2
    <2>4. CASE n \in todo
      <3>1. PICK c \in Id : Wrote(T0, T, U, c, n)
        BY <2>2, <2>4 DEF Goes
      <3>2. SlotFree(T0.books[b].key, p) /\ n \in OnDisk
        BY <2>4 DEF Holds
      <3>3. Holds(U, b, p)
        BY <2>3, <3>1, <3>2, WroteHolds
      <3> QED BY <2>1, <2>2, <3>3
    <2>5. CASE n \notin todo
      BY <2>1, <2>2, <2>3, <2>5 DEF Goes
    <2> QED BY <2>4, <2>5
  <1> HIDE DEF S
  <1>3. LastPath \in S
    BY <1>1, <1>2, UpToTheLast
  <1> QED BY <1>3 DEF S


(* What a transaction leaves of the file p and its book b.                 *)
KeptAt(T, b, p) ==
    Stands(T, b) /\ SlotFree(T.books[b].key, p) /\ (T.books[b].key = p \/ HasRow(T.files, b, p))

LEMMA ScanKeeps ==
    ASSUME Clear, Cardinality(pass.changed \cup pass.new) <= Cardinality(Spare(Tables)),
           NEW T, T = sync_books(Tables, pass), NEW p \in Paths, NEW b, TracedAt(p, b)
    PROVE  KeptAt(T, b, p)
  <1>1. /\ Calmly /\ PlanWell /\ Placed(Tables) /\ TypeOK /\ PlanTyped
        /\ DOMAIN pass.seen = OnDisk
        /\ pass.changed \in SUBSET OnDisk /\ pass.new \in SUBSET OnDisk
    BY ClearSees DEF Clear, Calmly
  <1>2. PICK g, h, k : Course(g, h, k)
    BY <1>1, EveryCourse
  <1>3. T = AfterNew
    BY DEF sync_books, AfterNew, AfterChanged, AfterMoved, AfterRemoved
  <1>4. PICK M, C : M = AfterMoved /\ C = AfterChanged
    OBVIOUS
  <1>5. /\ Goes(M, h, pass.changed) /\ h[LastPath] = C
        /\ Goes(C, k, pass.new) /\ k[LastPath] = T
    BY <1>1, <1>2, <1>3, <1>4, CourseGoes DEF Course
  <1>6. p \in OnDisk /\ b \in live /\ b \in Id /\ SlotFree(books[b].key, p)
    BY DEF TracedAt, live
  <1>7. Moving(M, LastPath) /\ KeepsPaths(M, C) /\ KeepsPaths(C, T)
    <2>1. LastPath \in 0 .. LastPath
      BY Bounds
    <2> QED BY <1>1, <1>2, <1>3, <1>4, <2>1, CoursePlaces DEF Course
  <1>8. Stands(M, b) /\ Stands(C, b) /\ Stands(T, b)
    <2>1. Stands(M, b)
      BY <1>6, <1>7 DEF Moving, BooksWent
    <2>2. Grown(M, C, LastPath) /\ Grown(C, T, LastPath)
      <3>1. LastPath \in 0 .. LastPath
        BY Bounds
      <3> QED BY <1>2, <1>3, <1>4, <3>1 DEF Course
    <2> QED BY <1>6, <2>1, <2>2 DEF Grown
  <1>9. CASE books[b].key = p
    <2>1. b \notin pass.removed
      BY <1>1, <1>6, <1>9 DEF PlanWell
    <2>2. M.books[b].key = p
      <3>1. Went(b, p, M.books[b].key, LastPath)
        BY <1>6, <1>7, <1>8, <1>9 DEF Moving, BooksWent
      <3>2. \A m \in pass.moved : m.uuid # b
        BY <1>1, <1>6, <1>9 DEF PlanWell
      <3> QED BY <3>1, <3>2 DEF Went
    <2>3. T.books[b].key = p
      BY <1>6, <1>7, <1>8, <2>1, <2>2 DEF KeepsPaths
    <2> QED BY <1>8, <2>3 DEF KeptAt, SlotFree
  <1>10. CASE books[b].key # p
    <2>1. Holds(M, b, p)
      <3>1. CASE HasRow(files, b, p)
        <4>1. PICK f \in files : f.book = b /\ f.key = p
          BY <3>1 DEF HasRow
        <4>2. SlotFree(AfterMoved.books[b].key, p)
          BY <1>2, <1>6, <4>1, MovesFree
        <4>3. HasRow(AfterMoved.files, b, p)
          BY <1>1, <1>2, <1>6, <1>10, <3>1, MovesKeep
        <4> QED BY <1>4, <4>2, <4>3 DEF Holds
      <3>2. CASE Away(p, b)
        <4>1. PICK f \in files, u \in Int :
                f.book = b /\ FormatOf[f.key] = FormatOf[p] /\ Departs(f, u, p)
          BY <1>6, <3>2, AwayDeparts
        <4>2. SlotFree(AfterMoved.books[b].key, p)
          BY <1>2, <1>6, <4>1, MovesFree
        <4>3. HasRow(AfterMoved.files, f.book, p)
          BY <1>2, <4>1, MovesTrace
        <4> QED BY <1>4, <4>1, <4>2, <4>3 DEF Holds
      <3> QED BY <1>10, <3>1, <3>2 DEF TracedAt
    <2>2. Holds(C, b, p)
      BY <1>1, <1>5, <1>6, <2>1, BucketHolds
    <2>3. Holds(T, b, p)
      BY <1>1, <1>5, <1>6, <2>2, BucketHolds
    <2> QED BY <1>8, <2>3 DEF Holds, KeptAt
  <1> QED BY <1>9, <1>10

(* A file found at a row is that book's, and no other of the book's is in  *)
(* its slot.                                                               *)
LEMMA ScanFinds ==
    ASSUME Clear, Cardinality(pass.changed \cup pass.new) <= Cardinality(Spare(Tables)),
           NEW T, T = sync_books(Tables, pass), \A m \in pass.moved : \E f \in T.files : f.key = m.to,
           NEW p, NEW f \in T.files, f.key = p
    PROVE  KeptAt(T, f.book, p)
  <1>1. Indexed(T, {}) /\ Keyed(T) /\ Placed(T)
    BY ScanIndexes
  <1>2. f.book \in Id /\ Stands(T, f.book)
    BY <1>1 DEF Keyed, Db, Row
  <1>3. SlotFree(T.books[f.book].key, p)
    <2>1. SUFFICES ASSUME FormatOf[T.books[f.book].key] = FormatOf[p], T.books[f.book].key \in OnDisk
                   PROVE  T.books[f.book].key = p
      BY DEF SlotFree
    <2>2. PICK e \in T.files : e.key = T.books[f.book].key
      BY <1>1, <1>2, <2>1, ClearSees DEF Indexed
    <2>3. e.book = f.book
      BY <1>1, <1>2, <2>2, OwnRow
    <2> QED BY <1>1, <2>1, <2>2, <2>3 DEF Placed, OneSlot
  <1> QED BY <1>2, <1>3 DEF KeptAt, HasRow

LEMMA SyncTraced ==
    ASSUME troubled' = {}, Typed, Agreed, Whole, Traced, Sync
    PROVE  Traced'
  <1>1. TypeOK /\ PlanTyped /\ PlanWell /\ Placed(Tables) /\ step = "sync"
    BY DEF Typed, PassTyped, Agreed, Held, Sync
  <1>2. Calmly
    BY <1>1, SyncTroubles DEF Calmly
  <1>3. PICK T : T = sync_books(Tables, pass)
    OBVIOUS
  <1>4. PICK landed \in BOOLEAN : landed <=> \A m \in pass.moved : \E f \in T.files : f.key = m.to
    OBVIOUS
  <1>5. /\ Cardinality(pass.changed \cup pass.new) <= Cardinality(Spare(Tables)) /\ SetTables(T)
        /\ disk' = disk
        /\ owner' = [p \in Paths |->
              IF /\ disk[p] # None /\ owner[p] # None
                 /\ calm >= 0 \/ Backs(T, owner[p], p)
              THEN owner[p]
              ELSE IF /\ disk[p] # None /\ owner[p] = None
                      /\ calm >= 0 /\ landed /\ \E f \in T.files : f.key = p
                   THEN (CHOOSE f \in T.files : f.key = p).book ELSE None]
    BY <1>3, <1>4 DEF Sync
  <1>6. books' = T.books /\ files' = T.files /\ OnDisk' = OnDisk /\ T \in Db
    <2>1. Keyed(T)
      BY <1>1, <1>3, <1>5, TransactionKeyed
    <2> QED BY <1>5, <2>1 DEF SetTables, OnDisk, Keyed
  <1>7. calm >= 0 => Clear
    BY <1>1, <1>2 DEF Whole, Clear
  <1>8. SUFFICES ASSUME NEW x \in Paths, NEW b, b = owner'[x], b # None
                 PROVE  TracedAt(x, b)'
    BY DEF Traced, TracedAt, HasRow, Away, SlotFree
  <1>9. disk[x] # None /\ x \in OnDisk
    BY <1>5, <1>8 DEF OnDisk
  <1>10. b \in Id /\ KeptAt(T, b, x)
    <2>1. CASE owner[x] # None
      <3>1. b = owner[x] /\ (calm >= 0 \/ Backs(T, b, x))
        BY <1>5, <1>8, <2>1
      <3>2. TracedAt(x, b)
        BY <2>1, <3>1 DEF Traced
      <3>3. b \in Id
        BY <3>2 DEF TracedAt, live
      <3>4. CASE calm >= 0
        BY <1>3, <1>5, <1>7, <3>2, <3>3, <3>4, ScanKeeps
      <3>5. CASE Backs(T, b, x)
        BY <3>3, <3>5 DEF Backs, KeptAt, SlotFree, Stands, HasRow, OnDisk
      <3> QED BY <3>1, <3>4, <3>5
    <2>2. CASE owner[x] = None
      <3>1. /\ calm >= 0 /\ landed /\ \E f \in T.files : f.key = x
            /\ b = (CHOOSE f \in T.files : f.key = x).book
        BY <1>5, <1>8, <2>2
      <3>2. PICK f \in T.files : f.key = x /\ b = f.book
        BY <3>1
      <3>3. KeptAt(T, b, x)
        BY <1>3, <1>4, <1>5, <1>7, <3>1, <3>2, ScanFinds
      <3>4. b \in Id
        BY <1>6, <3>2 DEF Db, Row
      <3> QED BY <3>3, <3>4
    <2> QED BY <2>1, <2>2
  <1>11. b \in live' /\ SlotFree(books[b].key, x)' /\ (books[b].key = x \/ HasRow(files, b, x))'
    BY <1>6, <1>10 DEF KeptAt, live, Stands, SlotFree, HasRow
  <1> QED BY <1>6, <1>9, <1>11 DEF TracedAt


(* What touches neither the disk, nor the tables, nor the history. *)
LEMMA StillTraced ==
    ASSUME Traced, UNCHANGED <<disk, tables, owner>>
    PROVE  Traced'
  BY DEF tables, Traced, TracedAt, HasRow, Away, SlotFree, Known, Alike, RowsAlike, live, OnDisk

LEMMA NextTraced ==
    ASSUME troubled' = {}, Typed, Agreed, Whole, Traced, [Next]_vars
    PROVE  Traced'
  <1>1. CASE \/ StartScan \/ Walk \/ WalkMisses \/ Diff \/ GcSelect \/ ScanFails
             \/ UNCHANGED vars
    <2>1. UNCHANGED <<disk, tables, owner>>
      BY <1>1 DEF StartScan, Walk, WalkMisses, Diff, GcSelect, ScanFails, vars
    <2> QED BY <2>1, StillTraced
  <1>2. CASE Sync \/ GcDelete
    BY <1>2, SyncTraced, PurgeTraced
  <1>3. CASE \E p \in Paths : \/ \E w \in Works : AddFile(p, w) \/ EditFile(p, w)
                              \/ \E q \in Paths : MoveFile(p, q) \/ CopyFile(p, q)
                              \/ RemoveFile(p) \/ Unlink(p)
    <2>1. PICK p \in Paths : \/ \E w \in Works : AddFile(p, w) \/ EditFile(p, w)
                             \/ \E q \in Paths : MoveFile(p, q) \/ CopyFile(p, q)
                             \/ RemoveFile(p) \/ Unlink(p)
      BY <1>3
    <2>2. CASE \E w \in Works : AddFile(p, w) \/ EditFile(p, w)
      BY <2>2, LandsTraced, EditTraced
    <2>3. CASE \E q \in Paths : MoveFile(p, q) \/ CopyFile(p, q)
      BY <2>3, LandsTraced, MoveTraced
    <2> QED BY <2>1, <2>2, <2>3, RemoveTraced, UnlinkTraced
  <1>4. CASE Restart \/ \E b \in Id : Read(b) \/ RetentionPasses(b)
    BY <1>4, FlagsTraced
  <1>5. CASE \E s \in Id, t \in Id : merge_books(s, t)
    BY <1>5, MergeTraced
  <1>6. CASE \E b \in Id : \E chosen \in SUBSET FilesOf(Tables, b) : delete_book_items(b, chosen)
    BY <1>6, DeleteTraced
  <1> QED BY <1>1, <1>2, <1>3, <1>4, <1>5, <1>6 DEF Next

LEMMA InitTraced ==
    ASSUME Init
    PROVE  Traced
  BY DEF Init, Traced

(* Until one of the Troubles has come, a file that is moved, or edited     *)
(* where it is (match_moved_files, relocate_one, reattach), is found again *)
(* in the book it was in once two scans in a row had the library to        *)
(* themselves, through scans that ended early, read a changing library or  *)
(* missed the book's own file on the way, and through merges of its book   *)
(* with books of other formats.                                            *)
THEOREM BooksFollowFiles == Spec => []BookFollowsFile
  <1>1. Init => Typed /\ (untroubled => Agreed /\ Whole /\ Traced)
    BY InitTyped, InitAgreed, InitWhole, InitTraced
  <1>2. Typed /\ (untroubled => Agreed /\ Whole /\ Traced) /\ [Next]_vars
           => (Typed /\ (untroubled => Agreed /\ Whole /\ Traced))'
    BY NextTyped, NextAgreed, NextWhole, NextTraced, MoreTroubles DEF untroubled
  <1>3. (untroubled => Agreed /\ Whole /\ Traced) => BookFollowsFile
    <2>1. SUFFICES ASSUME Whole, Traced, settled, NEW p \in OnDisk, NEW b, b = owner[p], b # None
                   PROVE  \E f \in files : f.key = p /\ f.book = b
      BY DEF BookFollowsFile, settled
    <2>2. Half
      BY <2>1 DEF settled, Whole
    <2>3. TracedAt(p, b)
      BY <2>1 DEF Traced, OnDisk
    <2>4. CASE books[b].key = p
      BY <2>1, <2>2, <2>3, <2>4 DEF Half, TracedAt
    <2>5. CASE HasRow(files, b, p)
      BY <2>5 DEF HasRow
    <2>6. ~Away(p, b)
      BY <2>2 DEF Half, Away
    <2> QED BY <2>3, <2>4, <2>5, <2>6 DEF TracedAt
  <1> QED BY <1>1, <1>2, <1>3, PTL DEF Spec
=============================================================================
