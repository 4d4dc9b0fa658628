--------------------------- MODULE KoboSyncProofs ---------------------------
(***************************************************************************)
(* Proofs about KoboSync for every library, every number of Kobos, every   *)
(* page size and any number of edits, shelf changes, reading state changes *)
(* and faults.                                                             *)
(***************************************************************************)
EXTENDS KoboSync, NumberFacts, FiniteSetTheorems, TLAPS

(* The bounds that keep the numbers inside their types: stamps run ahead   *)
(* of the clock by no more than the edits so far.                          *)
Bounded ==
    \A b \in Books :
        /\ library[b].modified <= now + edits
        /\ library[b].edition <= edits
        /\ library[b].state <= states

(* A book that never moved is on the shelves, and every request read it.   *)
Untouched ==
    \A b \in Books \ moved :
        /\ library[b].wanted
        /\ \A d \in Devices : sync[d] # None => sync[d].wanted[b] # None

(* Metadata that was read is of the book's past, and a stamp tells one     *)
(* edition from another.                                                   *)
Past(c, b) ==
    /\ c.modified <= library[b].modified
    /\ c.modified = library[b].modified => c.edition = library[b].edition

Read ==
    \A d \in Devices, b \in Books :
        /\ sync[d] # None /\ sync[d].wanted[b] # None =>
              Past(sync[d].wanted[b], b)
        /\ device[d][b] # None => Past(device[d][b], b)

(* A row is no newer than the book, nor than what a request read of it.    *)
RowsRead ==
    \A d \in Devices, b \in Books : held[d][b] # None =>
        /\ held[d][b].seen <= library[b].modified
        /\ sync[d] # None /\ sync[d].wanted[b] # None =>
              held[d][b].seen <= sync[d].wanted[b].modified

(* A page takes books off for no shelf, and sends the rest as they were    *)
(* read.                                                                   *)
Pages ==
    \A d \in Devices : sync[d] # None =>
        \A c \in sync[d].page :
            IF sync[d].wanted[c.book] = None THEN c.kind = "Removed"
            ELSE c.kind # "Removed" /\ c.content = sync[d].wanted[c.book]

(* What a device shows once it has read the body on its way to it.         *)
AfterBody(d) ==
    IF sync[d] # None /\ sync[d].step = "sent" THEN body_applied(d)
    ELSE device[d]

(* Without a lost body, a failed record or a wiped device, the snapshot    *)
(* says what the device holds, at the stamp it holds it at.                *)
SnapshotIsTrue ==
    \A d \in Devices, b \in Books :
        LET holds == AfterBody(d)[b] IN
        IF held[d][b] = None THEN holds = None
        ELSE holds # None /\ held[d][b].seen = holds.modified

(* Of the books that never moved, even a failed record or a wiped device   *)
(* leaves a device that has our token, or whose rows this sync has marked, *)
(* with every one that is not about to be sent again, no older than its    *)
(* row says.                                                               *)
UnmarkedIsHeld ==
    \A d \in Devices, b \in Books \ moved :
        /\ \/ token[d]
           \/ sync[d] # None /\ sync[d].step # "wanted"
        /\ held[d][b] # None /\ ~held[d][b].resend
        => /\ AfterBody(d)[b] # None
           /\ held[d][b].seen <= AfterBody(d)[b].modified

Agreement ==
    faults["lost"] = 0 =>
        /\ faults["failed"] = 0 /\ faults["wiped"] = 0 => SnapshotIsTrue
        /\ UnmarkedIsHeld

IInv ==
    TypeOK /\ Bounded /\ Untouched /\ Read /\ RowsRead /\ Pages /\ Agreement
-----------------------------------------------------------------------------
(* Numbers. *)

(* Times, stamps and counters are numbers. *)
LEMMA Numbers ==
    ASSUME TypeOK
    PROVE  /\ now \in Nat /\ edits \in Nat /\ states \in Nat
           /\ MaxTime \in Nat /\ MaxEdits \in Nat /\ MaxStates \in Nat
           /\ MaxFaults \in Nat /\ now <= MaxTime
           /\ \A b \in Books : /\ library[b].modified \in Nat
                               /\ library[b].edition \in Nat
                               /\ library[b].state \in Nat
           /\ \A k \in Fault : faults[k] \in Nat
           /\ \A c \in Content \cup Sent : c.modified \in Nat /\ c.edition \in Nat
           /\ \A h \in HeldRow : h.seen \in Nat
  <1>1. /\ MaxTime \in Nat /\ MaxEdits \in Nat /\ MaxStates \in Nat
        /\ MaxFaults \in Nat
    BY KoboConstants
  <1>2. now \in Nat /\ edits \in Nat /\ states \in Nat /\ now <= MaxTime
    BY <1>1 DEF TypeOK, Time
  <1>3. \A x \in Stamp : x \in Nat
    BY <1>1 DEF Stamp
  <1>4. \A b \in Books : /\ library[b].modified \in Stamp
                         /\ library[b].edition \in 0 .. MaxEdits
                         /\ library[b].state \in 0 .. MaxStates
    BY DEF TypeOK
  <1>5. \A k \in Fault : faults[k] \in Nat
    BY <1>1 DEF TypeOK
  <1>6. \A c \in Content \cup Sent : c.modified \in Nat /\ c.edition \in Nat
    BY <1>1, <1>3 DEF Content, Sent
  <1>7. \A h \in HeldRow : h.seen \in Nat
    BY <1>3 DEF HeldRow
  <1> QED BY <1>1, <1>2, <1>3, <1>4, <1>5, <1>6, <1>7

(* A row, a book or a request that is there is not NULL. *)
LEMMA NotNull ==
    None \notin Content /\ None \notin Sent /\ None \notin HeldRow
    /\ None \notin Request
  BY NoneAssumption

(* A fault is counted, within the bound. *)
LEMMA FaultCounted ==
    ASSUME TypeOK, NEW kind \in Fault, fault(kind)
    PROVE  /\ faults' \in [Fault -> 0 .. MaxFaults]
           /\ faults'[kind] > 0
           /\ \A k \in Fault : faults'[k] = 0 => faults[k] = 0
  <1>1. MaxFaults \in Nat /\ faults \in [Fault -> 0 .. MaxFaults]
    BY KoboConstants DEF TypeOK
  <1>2. \A k \in Fault : faults[k] \in Nat
    BY <1>1
  <1>3. AllFaults < MaxFaults /\ faults' = [faults EXCEPT ![kind] = faults[kind] + 1]
    BY DEF fault
  <1>4. faults[kind] < MaxFaults
    <2>1. /\ faults["dropped"] \in Nat /\ faults["lost"] \in Nat
          /\ faults["failed"] \in Nat /\ faults["signed_in"] \in Nat
          /\ faults["wiped"] \in Nat
      BY <1>2 DEF Fault
    <2>2. /\ faults["dropped"] <= AllFaults /\ faults["lost"] <= AllFaults
          /\ faults["failed"] <= AllFaults /\ faults["signed_in"] <= AllFaults
          /\ faults["wiped"] <= AllFaults /\ AllFaults \in Nat
      BY <2>1 DEF AllFaults
    <2> QED BY <1>1, <1>3, <2>1, <2>2 DEF Fault
  <1>5. faults[kind] + 1 \in 0 .. MaxFaults /\ faults[kind] + 1 > 0
    BY <1>1, <1>2, <1>4
  <1> QED BY <1>1, <1>2, <1>3, <1>5

-----------------------------------------------------------------------------
(* The delta and its page. *)

(* A change to a book, and what the delta makes of it. *)
LEMMA DeltaChanges ==
    ASSUME NEW wanted \in [Books -> Content \cup {None}],
           NEW snapshot \in [Books -> HeldRow \cup {None}],
           NEW c \in sent_changes(wanted, snapshot) \cup removals(wanted, snapshot)
    PROVE  /\ c \in Change
           /\ IF wanted[c.book] = None THEN c.kind = "Removed"
              ELSE c.kind # "Removed" /\ c.content = wanted[c.book]
  <1> USE DEF Change
  <1>1. CASE c \in removals(wanted, snapshot)
    BY <1>1 DEF removals
  <1>2. CASE c \in sent_changes(wanted, snapshot)
    BY <1>2 DEF sent_changes
  <1> QED BY <1>1, <1>2

(* The delta holds one change to a book at most. *)
LEMMA OneChangePerBook ==
    ASSUME NEW wanted, NEW snapshot,
           NEW c \in sent_changes(wanted, snapshot) \cup removals(wanted, snapshot),
           NEW e \in sent_changes(wanted, snapshot) \cup removals(wanted, snapshot),
           c.book = e.book
    PROVE  c = e
  <1> DEFINE new(b) == is_new(snapshot[b])
             chg(b) == is_changed(snapshot[b], wanted[b])
             stc(b) == is_state_changed(snapshot[b], wanted[b], state_updated_at(b))
             Rec(k, b, x) == [kind |-> k, book |-> b, content |-> x]
  <1>1. \A b : /\ chg(b) => ~new(b)
               /\ stc(b) => ~new(b) /\ ~chg(b)
    BY DEF is_changed, is_state_changed
  <1>2. ASSUME NEW x \in sent_changes(wanted, snapshot) \cup removals(wanted, snapshot)
        PROVE  /\ x.book \in Books
               /\ \/ wanted[x.book] # None /\ new(x.book)
                     /\ x = Rec("New", x.book, wanted[x.book])
                  \/ wanted[x.book] # None /\ chg(x.book)
                     /\ x = Rec("Changed", x.book, wanted[x.book])
                  \/ wanted[x.book] # None /\ stc(x.book)
                     /\ x = Rec("StateChanged", x.book, wanted[x.book])
                  \/ wanted[x.book] = None /\ x = Rec("Removed", x.book, None)
    <2> HIDE DEF new, chg, stc
    <2>1. CASE x \in removals(wanted, snapshot)
      BY <2>1 DEF removals
    <2>2. CASE x \in sent_changes(wanted, snapshot)
      BY <2>2 DEF sent_changes, new, chg, stc
    <2> QED BY <1>2, <2>1, <2>2
  <1> HIDE DEF new, chg, stc, Rec
  <1> QED BY <1>1, <1>2

(* A page is no longer than SYNC_PAGE_SIZE. *)
LEMMA PageLength ==
    ASSUME NEW wanted, NEW snapshot, NEW page,
           LET all == sent_changes(wanted, snapshot)
                         \cup removals(wanted, snapshot)
           IN  Cardinality(page) = page_length(Cardinality(all))
    PROVE  Cardinality(page) <= SYNC_PAGE_SIZE
  <1> DEFINE all == sent_changes(wanted, snapshot) \cup removals(wanted, snapshot)
             at == [c \in all |-> c.book]
  <1>1. \A c \in all : c.book \in Books
    BY DEF sent_changes, removals
  <1>2. \A c, e \in all : c.book = e.book => c = e
    BY OneChangePerBook
  <1> HIDE DEF all
  <1>3. at \in Injection(all, Books)
    BY <1>1, <1>2 DEF Injection, IsInjective
  <1>4. IsFiniteSet(all)
    <2> HIDE DEF at
    <2> QED BY <1>3, FS_Injection, KoboConstants
  <1>5. Cardinality(all) \in Nat
    BY <1>4, FS_CardinalityType
  <1>6. SYNC_PAGE_SIZE \in Nat
    BY KoboConstants
  <1>7. Cardinality(page) = Min({SYNC_PAGE_SIZE, Cardinality(all)})
    BY DEF page_length, all
  <1> DEFINE n == Cardinality(all)
  <1> HIDE DEF n
  <1>8. n \in Int /\ SYNC_PAGE_SIZE \in Int /\ Cardinality(page) = Min({SYNC_PAGE_SIZE, n})
    BY <1>5, <1>6, <1>7 DEF n
  <1>9. Min({SYNC_PAGE_SIZE, n}) = IF SYNC_PAGE_SIZE <= n THEN SYNC_PAGE_SIZE ELSE n
    BY <1>8, MinOfTwo
  <1> QED BY <1>8, <1>9
-----------------------------------------------------------------------------
(* What a step keeps. *)

(* Books move forward: a new edition has a stamp of its own. *)
LibraryAdvances ==
    \A b \in Books :
        /\ library[b].modified <= library'[b].modified
        /\ library'[b].modified = library[b].modified =>
              library'[b].edition = library[b].edition

(* What was read of a book stays of its past. *)
LEMMA PastKept ==
    ASSUME TypeOK, TypeOK', LibraryAdvances,
           NEW b \in Books, NEW c \in Content \cup Sent, Past(c, b)
    PROVE  /\ c.modified <= library'[b].modified
           /\ c.modified = library'[b].modified =>
                 c.edition = library'[b].edition
  <1> DEFINE m == library[b].modified
             n == library'[b].modified
  <1>1. m \in Nat /\ c.modified \in Nat
    BY Numbers
  <1>2. n \in Nat
    <2>1. n \in Stamp /\ MaxTime \in Nat /\ MaxEdits \in Nat
      BY KoboConstants DEF TypeOK
    <2> QED BY <2>1 DEF Stamp
  <1>3. /\ m <= n /\ (n = m => library'[b].edition = library[b].edition)
        /\ c.modified <= m /\ (c.modified = m => c.edition = library[b].edition)
    BY DEF LibraryAdvances, Past
  <1> HIDE DEF m, n
  <1>4. c.modified <= n /\ (c.modified = n => c.modified = m /\ n = m)
    BY <1>1, <1>2, <1>3
  <1> QED BY <1>3, <1>4 DEF n

(* The types of a device's request and of what it shows. *)
LEMMA DeviceTypes ==
    ASSUME TypeOK, NEW d \in Devices
    PROVE  /\ sync[d] # None =>
                 /\ sync[d] \in Request
                 /\ sync[d].wanted \in [Books -> Content \cup {None}]
                 /\ sync[d].held \in [Books -> HeldRow \cup {None}]
                 /\ sync[d].page \subseteq Change
                 /\ sync[d].states \in [Books -> 0 .. MaxStates]
           /\ \A b \in Books : /\ device[d][b] \in Sent \cup {None}
                               /\ held[d][b] \in HeldRow \cup {None}
  BY DEF TypeOK, Request

(* What was read stays of the past while requests read nothing new and     *)
(* devices show nothing new.                                               *)
LEMMA ReadKept ==
    ASSUME IInv, TypeOK', LibraryAdvances,
           \A d \in Devices, b \in Books :
              /\ sync'[d] # None /\ sync'[d].wanted[b] # None =>
                    sync[d] # None /\ sync'[d].wanted[b] = sync[d].wanted[b]
              /\ device'[d][b] # None => device'[d][b] = device[d][b]
    PROVE  Read'
  <1> SUFFICES ASSUME NEW d \in Devices, NEW b \in Books
               PROVE  /\ sync'[d] # None /\ sync'[d].wanted[b] # None =>
                            Past(sync[d].wanted[b], b)'
                      /\ device'[d][b] # None => Past(device[d][b], b)'
    BY DEF Read
  <1>1. ASSUME sync'[d] # None, sync'[d].wanted[b] # None
        PROVE  Past(sync[d].wanted[b], b)'
    <2>1. sync[d] # None /\ sync'[d].wanted[b] = sync[d].wanted[b]
      BY <1>1
    <2>2. sync[d].wanted[b] \in Content /\ Past(sync[d].wanted[b], b)
      BY <1>1, <2>1, DeviceTypes DEF IInv, Read
    <2> QED BY <2>1, <2>2, PastKept DEF IInv, Past
  <1>2. ASSUME device'[d][b] # None
        PROVE  Past(device[d][b], b)'
    <2>1. device'[d][b] = device[d][b]
      BY <1>2
    <2>2. device[d][b] \in Sent /\ Past(device[d][b], b)
      BY <1>2, <2>1, DeviceTypes DEF IInv, Read
    <2> QED BY <2>1, <2>2, PastKept DEF IInv, Past
  <1> QED BY <1>1, <1>2

(* Faults are not forgotten. *)
FaultsStay == \A k \in Fault : faults'[k] = 0 => faults[k] = 0

(* The two halves of the agreement are kept one by one. *)
LEMMA AgreementKept ==
    ASSUME Agreement, FaultsStay,
           faults'["lost"] = 0 /\ faults'["failed"] = 0 /\ faults'["wiped"] = 0
              /\ SnapshotIsTrue => SnapshotIsTrue',
           faults'["lost"] = 0 /\ UnmarkedIsHeld => UnmarkedIsHeld'
    PROVE  Agreement'
  BY DEF Agreement, FaultsStay, Fault

(* A step of the library: the sync's own variables but held stay, and held *)
(* moves only the times its states were announced.                         *)
LEMMA LibraryMoved ==
    ASSUME IInv, TypeOK', LibraryAdvances, Bounded',
           moved \subseteq moved',
           \A b \in Books \ moved' : library'[b].wanted = library[b].wanted,
           \A d \in Devices, b \in Books :
              /\ held'[d][b] = None <=> held[d][b] = None
              /\ held[d][b] # None => /\ held'[d][b].seen = held[d][b].seen
                                      /\ held'[d][b].resend = held[d][b].resend,
           UNCHANGED <<device, token, sync, faults>>
    PROVE  IInv'
  <1>1. Untouched'
    BY DEF IInv, Untouched
  <1>2. Read'
    BY ReadKept
  <1>8. RowsRead'
    <2> SUFFICES ASSUME NEW d \in Devices, NEW b \in Books, held'[d][b] # None
                 PROVE  /\ held'[d][b].seen <= library'[b].modified
                        /\ sync[d] # None /\ sync[d].wanted[b] # None =>
                              held'[d][b].seen <= sync[d].wanted[b].modified
      BY DEF RowsRead
    <2> DEFINE h == held[d][b].seen
               m == library[b].modified
               n == library'[b].modified
    <2>1. held[d][b] # None /\ held'[d][b].seen = h
      OBVIOUS
    <2>2. held[d][b] \in HeldRow
      BY <2>1, DeviceTypes DEF IInv
    <2>3. h \in Nat /\ m \in Nat
      BY <2>2, Numbers DEF IInv
    <2>4. n \in Nat
      <3>1. n \in Stamp /\ MaxTime \in Nat /\ MaxEdits \in Nat
        BY KoboConstants DEF TypeOK
      <3> QED BY <3>1 DEF Stamp
    <2>5. h <= m /\ m <= n
      BY <2>1 DEF IInv, RowsRead, LibraryAdvances
    <2>6. sync[d] # None /\ sync[d].wanted[b] # None =>
             h <= sync[d].wanted[b].modified
      BY <2>1 DEF IInv, RowsRead
    <2> HIDE DEF m, n
    <2>7. h <= n
      <3> HIDE DEF h
      <3> QED BY <2>3, <2>4, <2>5
    <2> QED BY <2>1, <2>6, <2>7 DEF n
  <1>3. Pages'
    BY DEF IInv, Pages
  <1>4. \A d \in Devices : AfterBody(d)' = AfterBody(d)
    BY DEF AfterBody, body_applied, applied
  <1>5. SnapshotIsTrue => SnapshotIsTrue'
    BY <1>4 DEF SnapshotIsTrue
  <1>6. UnmarkedIsHeld => UnmarkedIsHeld'
    BY <1>4 DEF UnmarkedIsHeld
  <1>7. Agreement'
    BY <1>5, <1>6, AgreementKept DEF IInv, FaultsStay
  <1> QED BY <1>1, <1>2, <1>3, <1>7, <1>8 DEF IInv

-----------------------------------------------------------------------------
(* The library and the reading state move on. *)

(* A metadata edit takes a stamp no edition of the book had. *)
LEMMA step_touch_book_last_modified ==
    ASSUME IInv, touch_book_last_modified
    PROVE  IInv'
  <1>1. PICK b \in Books :
           library' = [library EXCEPT ![b].modified = touched(b),
                                      ![b].edition = library[b].edition + 1]
    BY DEF touch_book_last_modified
  <1>2. /\ edits < MaxEdits /\ edits' = edits + 1
        /\ UNCHANGED <<now, held, device, token, sync, moved, states, faults>>
    BY DEF touch_book_last_modified
  <1> DEFINE old == library[b].modified
             t == touched(b)
             row == [library[b] EXCEPT !.modified = t,
                                       !.edition = library[b].edition + 1]
  <1>3. /\ now \in Nat /\ edits \in Nat /\ MaxTime \in Nat /\ MaxEdits \in Nat
        /\ old \in Nat /\ now <= MaxTime /\ library[b].edition \in Nat
        /\ old <= now + edits /\ library[b].edition <= edits
    BY Numbers DEF IInv, Bounded
  <1>4. t = IF now <= old + 1 THEN old + 1 ELSE now
    <2> HIDE DEF old
    <2>1. now \in Int /\ old + 1 \in Int
      BY <1>3
    <2>2. t = Max({now, old + 1})
      BY DEF touched, old
    <2> HIDE DEF t
    <2> QED BY <2>1, <2>2, MaxOfTwo
  <1> HIDE DEF old, t
  <1>5. t \in Nat /\ old < t /\ t <= now + edits' /\ edits' \in 0 .. MaxEdits
        /\ t \in Stamp
    BY <1>2, <1>3, <1>4 DEF Stamp
  <1>6. library[b].edition + 1 \in 0 .. MaxEdits
        /\ library[b].edition + 1 <= edits'
    BY <1>2, <1>3
  <1>7. /\ library' = [library EXCEPT ![b] = row]
        /\ \A x \in Books : library'[x] = IF x = b THEN row ELSE library[x]
    BY <1>1 DEF IInv, TypeOK, t
  <1>8. /\ row \in [wanted : BOOLEAN, modified : Stamp,
                    edition : 0 .. MaxEdits, status_at : Time,
                    position_at : Time, state : 0 .. MaxStates]
        /\ row.modified = t /\ row.edition = library[b].edition + 1
        /\ row.state = library[b].state /\ row.wanted = library[b].wanted
    BY <1>5, <1>6 DEF IInv, TypeOK
  <1> HIDE DEF row
  <1>9. TypeOK'
    BY <1>2, <1>5, <1>7, <1>8 DEF IInv, TypeOK
  <1>10. LibraryAdvances
    <2> SUFFICES ASSUME NEW x \in Books
                 PROVE  /\ library[x].modified <= library'[x].modified
                        /\ library'[x].modified = library[x].modified =>
                              library'[x].edition = library[x].edition
      BY DEF LibraryAdvances
    <2>1. library[x].modified \in Nat
      BY Numbers DEF IInv
    <2> QED BY <1>3, <1>5, <1>7, <1>8, <2>1 DEF old
  <1>11. Bounded'
    <2> SUFFICES ASSUME NEW x \in Books
                 PROVE  /\ library'[x].modified <= now + edits'
                        /\ library'[x].edition <= edits'
                        /\ library'[x].state <= states
      BY <1>2 DEF Bounded
    <2>1. /\ library[x].modified \in Nat /\ library[x].edition \in Nat
          /\ library[x].modified <= now + edits /\ library[x].edition <= edits
          /\ library[x].state <= states
      BY Numbers DEF IInv, Bounded
    <2> QED BY <1>2, <1>3, <1>5, <1>6, <1>7, <1>8, <2>1
  <1>12. \A x \in Books : library'[x].wanted = library[x].wanted
    BY <1>7, <1>8
  <1> QED BY <1>2, <1>9, <1>10, <1>11, <1>12, LibraryMoved

(* A book enters or leaves the shelves. *)
LEMMA step_change_shelf ==
    ASSUME IInv, change_shelf
    PROVE  IInv'
  <1>1. PICK b \in Books :
           /\ library' = [library EXCEPT ![b].wanted = ~library[b].wanted]
           /\ moved' = moved \cup {b}
    BY DEF change_shelf
  <1>2. /\ edits < MaxEdits /\ edits' = edits + 1
        /\ UNCHANGED <<now, held, device, token, sync, states, faults>>
    BY DEF change_shelf
  <1>3. \A x \in Books :
           /\ library'[x].modified = library[x].modified
           /\ library'[x].edition = library[x].edition
           /\ library'[x].state = library[x].state
           /\ x # b => library'[x].wanted = library[x].wanted
    BY <1>1 DEF IInv, TypeOK
  <1>4. edits \in Nat /\ MaxEdits \in Nat /\ now \in Nat
    BY Numbers DEF IInv
  <1>5. edits' \in 0 .. MaxEdits /\ edits <= edits'
    BY <1>2, <1>4
  <1>6. TypeOK'
    BY <1>1, <1>2, <1>5, ZenonT(60) DEF IInv, TypeOK
  <1>7. LibraryAdvances
    BY <1>3, Numbers DEF LibraryAdvances, IInv
  <1>8. Bounded'
    <2> SUFFICES ASSUME NEW x \in Books
                 PROVE  /\ library'[x].modified <= now + edits'
                        /\ library'[x].edition <= edits'
                        /\ library'[x].state <= states
      BY <1>2 DEF Bounded
    <2>1. /\ library[x].modified \in Nat /\ library[x].edition \in Nat
          /\ library[x].modified <= now + edits /\ library[x].edition <= edits
          /\ library[x].state <= states
      BY Numbers DEF IInv, Bounded
    <2> QED BY <1>2, <1>3, <1>4, <2>1
  <1>9. moved \subseteq moved'
        /\ \A x \in Books \ moved' : library'[x].wanted = library[x].wanted
    BY <1>1, <1>3
  <1> QED BY <1>2, <1>6, <1>7, <1>8, <1>9, LibraryMoved
(* What the library keeps of a book. *)
BookRow == [wanted : BOOLEAN, modified : Stamp, edition : 0 .. MaxEdits,
            status_at : Time, position_at : Time, state : 0 .. MaxStates]

(* A step that moves one book's reading state. *)
LEMMA StateMoved ==
    ASSUME IInv, NEW b \in Books, states < MaxStates, states' = states + 1,
           NEW row,
           library[b].state + 1 \in 0 .. MaxStates => row \in BookRow,
           row.modified = library[b].modified,
           row.edition = library[b].edition, row.wanted = library[b].wanted,
           row.state = library[b].state + 1,
           library' = [library EXCEPT ![b] = row],
           held' \in [Devices -> [Books -> HeldRow \cup {None}]],
           \A d \in Devices, x \in Books :
              /\ held'[d][x] = None <=> held[d][x] = None
              /\ held[d][x] # None => /\ held'[d][x].seen = held[d][x].seen
                                      /\ held'[d][x].resend = held[d][x].resend,
           UNCHANGED <<now, device, token, sync, edits, moved, faults>>
    PROVE  IInv'
  <1>1. states \in Nat /\ MaxStates \in Nat /\ library[b].state \in Nat
        /\ library[b].state <= states
    BY Numbers DEF IInv, Bounded
  <1>2. states' \in 0 .. MaxStates /\ states <= states'
        /\ library[b].state + 1 \in 0 .. MaxStates
        /\ library[b].state + 1 <= states'
    <2> DEFINE s == library[b].state
    <2>1. s \in Nat /\ s <= states
      BY <1>1
    <2> HIDE DEF s
    <2>2. /\ states + 1 \in 0 .. MaxStates /\ states <= states + 1
          /\ s + 1 \in 0 .. MaxStates /\ s + 1 <= states + 1
      BY <1>1, <2>1
    <2> QED BY <2>2 DEF s
  <1>5. /\ row \in BookRow /\ library \in [Books -> BookRow]
        /\ \A x \in Books : library'[x] = IF x = b THEN row ELSE library[x]
    BY <1>2 DEF IInv, TypeOK, BookRow
  <1>6. \A x \in Books :
           /\ library'[x].modified = library[x].modified
           /\ library'[x].edition = library[x].edition
           /\ library'[x].wanted = library[x].wanted
           /\ library'[x].state <= states'
    <2> SUFFICES ASSUME NEW x \in Books
                 PROVE  /\ library'[x].modified = library[x].modified
                        /\ library'[x].edition = library[x].edition
                        /\ library'[x].wanted = library[x].wanted
                        /\ library'[x].state <= states'
      OBVIOUS
    <2>1. library[x].state \in Nat /\ library[x].state <= states
      BY Numbers DEF IInv, Bounded
    <2>2. CASE x = b
      BY <1>2, <1>5, <2>2
    <2>3. CASE x # b
      <3>1. library[x].state <= states'
        <4>1. states' = states + 1
          OBVIOUS
        <4> QED BY <1>1, <2>1, <4>1
      <3> QED BY <1>5, <2>3, <3>1
    <2> QED BY <2>2, <2>3
  <1>7. TypeOK'
    BY <1>2, <1>5 DEF IInv, TypeOK, BookRow
  <1>8. LibraryAdvances
    <2> SUFFICES ASSUME NEW x \in Books
                 PROVE  /\ library[x].modified <= library'[x].modified
                        /\ library'[x].edition = library[x].edition
      BY DEF LibraryAdvances
    <2>1. library[x].modified \in Nat
      BY Numbers DEF IInv
    <2> QED BY <1>6, <2>1
  <1>9. Bounded'
    BY <1>6 DEF IInv, Bounded
  <1> QED BY <1>6, <1>7, <1>8, <1>9, LibraryMoved

(* A status chosen on the web or iOS. *)
LEMMA step_set_read_status_tx ==
    ASSUME IInv, set_read_status_tx
    PROVE  IInv'
  <1>1. PICK b \in Books :
           library' = [library EXCEPT ![b].status_at = now,
                                      ![b].state = library[b].state + 1]
    BY DEF set_read_status_tx
  <1> DEFINE row == [library[b] EXCEPT !.status_at = now,
                                       !.state = library[b].state + 1]
  <1>2. library' = [library EXCEPT ![b] = row]
    BY <1>1 DEF IInv, TypeOK
  <1>3. now \in Time
        /\ held' \in [Devices -> [Books -> HeldRow \cup {None}]]
    BY DEF IInv, TypeOK, set_read_status_tx
  <1>6. /\ library[b].state + 1 \in 0 .. MaxStates => row \in BookRow
        /\ row.modified = library[b].modified
        /\ row.edition = library[b].edition /\ row.wanted = library[b].wanted
        /\ row.state = library[b].state + 1
    <2>1. library[b] \in BookRow
      BY DEF IInv, TypeOK, BookRow
    <2> QED BY <1>3, <2>1 DEF BookRow
  <1> HIDE DEF row
  <1> QED BY <1>2, <1>3, <1>6, StateMoved DEF set_read_status_tx

(* A status with its own event time is announced again. *)
LEMMA step_set_read_status_at_tx ==
    ASSUME IInv, set_read_status_at_tx
    PROVE  IInv'
  <1>1. PICK b \in Books, at \in 0 .. now :
           /\ library' = [library EXCEPT ![b].status_at = at,
                                         ![b].state = library[b].state + 1]
           /\ held' = reannounce_state_since(b, at)
    BY DEF set_read_status_at_tx
  <1> DEFINE row == [library[b] EXCEPT !.status_at = at,
                                       !.state = library[b].state + 1]
  <1>2. library' = [library EXCEPT ![b] = row]
    BY <1>1 DEF IInv, TypeOK
  <1>3. at \in Time /\ at - 1 \in -1 .. MaxTime
    <2>1. now \in Nat /\ MaxTime \in Nat /\ now <= MaxTime
      BY Numbers DEF IInv
    <2> QED BY <2>1 DEF Time
  <1>4. ASSUME NEW d \in Devices
        PROVE  /\ held'[d] \in [Books -> HeldRow \cup {None}]
               /\ \A x \in Books :
                    /\ held'[d][x] = None <=> held[d][x] = None
                    /\ held[d][x] # None =>
                          /\ held'[d][x].seen = held[d][x].seen
                          /\ held'[d][x].resend = held[d][x].resend
    <2> DEFINE h == held[d][b]
               again == IF h # None /\ h.synced >= at
                        THEN [h EXCEPT !.synced = at - 1] ELSE h
    <2>1. held[d] \in [Books -> HeldRow \cup {None}]
      BY DEF IInv, TypeOK
    <2>2. held'[d] = [held[d] EXCEPT ![b] = again]
      BY <1>1 DEF reannounce_state_since
    <2>3. h \in HeldRow \cup {None}
      BY <2>1
    <2>4. /\ again \in HeldRow \cup {None} /\ (again = None <=> h = None)
          /\ h # None => again.seen = h.seen /\ again.resend = h.resend
      <3>1. CASE again = h
        BY <2>3, <3>1
      <3>2. CASE again # h
        <4>1. h \in HeldRow /\ again = [h EXCEPT !.synced = at - 1]
          BY <2>3, <3>2
        <4>2. again \in HeldRow /\ again.seen = h.seen /\ again.resend = h.resend
          <5> HIDE DEF again, h
          <5> QED BY <1>3, <4>1 DEF HeldRow
        <4> QED BY <4>1, <4>2, NotNull
      <3> QED BY <3>1, <3>2
    <2> HIDE DEF again
    <2> QED BY <2>1, <2>2, <2>4
  <1>5. held' \in [Devices -> [Books -> HeldRow \cup {None}]]
    BY <1>1, <1>4 DEF reannounce_state_since
  <1>6. /\ library[b].state + 1 \in 0 .. MaxStates => row \in BookRow
        /\ row.modified = library[b].modified
        /\ row.edition = library[b].edition /\ row.wanted = library[b].wanted
        /\ row.state = library[b].state + 1
    <2>1. library[b] \in BookRow
      BY DEF IInv, TypeOK, BookRow
    <2> QED BY <1>3, <2>1 DEF BookRow
  <1> HIDE DEF row
  <1> QED BY <1>2, <1>4, <1>5, <1>6, StateMoved DEF set_read_status_at_tx

(* A position with its own event time. *)
LEMMA step_upsert_progress_tx ==
    ASSUME IInv, upsert_progress_tx
    PROVE  IInv'
  <1>1. PICK b \in Books, at \in 0 .. now :
           library' = [library EXCEPT ![b].position_at = at,
                                      ![b].state = library[b].state + 1]
    BY DEF upsert_progress_tx
  <1> DEFINE row == [library[b] EXCEPT !.position_at = at,
                                       !.state = library[b].state + 1]
  <1>2. library' = [library EXCEPT ![b] = row]
    BY <1>1 DEF IInv, TypeOK
  <1>3. at \in Time
    <2>1. now \in Nat /\ MaxTime \in Nat /\ now <= MaxTime
      BY Numbers DEF IInv
    <2> QED BY <2>1 DEF Time
  <1>4. held' \in [Devices -> [Books -> HeldRow \cup {None}]]
    BY DEF IInv, TypeOK, upsert_progress_tx
  <1>6. /\ library[b].state + 1 \in 0 .. MaxStates => row \in BookRow
        /\ row.modified = library[b].modified
        /\ row.edition = library[b].edition /\ row.wanted = library[b].wanted
        /\ row.state = library[b].state + 1
    <2>1. library[b] \in BookRow
      BY DEF IInv, TypeOK, BookRow
    <2> QED BY <1>3, <2>1 DEF BookRow
  <1> HIDE DEF row
  <1> QED BY <1>2, <1>4, <1>6, StateMoved DEF upsert_progress_tx

(* The clock moves. *)
LEMMA step_Tick ==
    ASSUME IInv, Tick
    PROVE  IInv'
  <1>1. /\ now < MaxTime /\ now' = now + 1
        /\ UNCHANGED <<library, held, device, token, sync, edits, moved, states,
                       faults>>
    BY DEF Tick, events
  <1>2. now \in Nat /\ MaxTime \in Nat /\ edits \in Nat
    BY Numbers DEF IInv
  <1>3. now' \in Time
    BY <1>1, <1>2 DEF Time
  <1>4. TypeOK'
    BY <1>1, <1>3 DEF IInv, TypeOK
  <1>5. Bounded'
    <2> SUFFICES ASSUME NEW x \in Books
                 PROVE  /\ library[x].modified <= now' + edits
                        /\ library[x].edition <= edits
                        /\ library[x].state <= states
      BY <1>1 DEF Bounded
    <2>1. /\ library[x].modified \in Nat /\ library[x].modified <= now + edits
          /\ library[x].edition <= edits /\ library[x].state <= states
      BY Numbers DEF IInv, Bounded
    <2> QED BY <1>1, <1>2, <2>1
  <1>6. LibraryAdvances
    BY <1>1, Numbers DEF LibraryAdvances, IInv
  <1> QED BY <1>1, <1>4, <1>5, <1>6, LibraryMoved
-----------------------------------------------------------------------------
(* One sync request. *)

(* A step of the request of one device that leaves the library, the clock  *)
(* and every other device alone.                                           *)
LEMMA RequestMoved ==
    ASSUME IInv, TypeOK', NEW d \in Devices,
           edits' = edits /\ moved' = moved /\ states' = states,
           now' = now /\ library' = library,
           FaultsStay,
           \A e \in Devices : e # d =>
              /\ sync'[e] = sync[e] /\ held'[e] = held[e]
              /\ device'[e] = device[e] /\ token'[e] = token[e],
           sync'[d] # None =>
              \A b \in Books \ moved : sync'[d].wanted[b] # None,
           \A b \in Books : held'[d][b] # None =>
              /\ held'[d][b].seen <= library[b].modified
              /\ sync'[d] # None /\ sync'[d].wanted[b] # None =>
                    held'[d][b].seen <= sync'[d].wanted[b].modified,
           \A b \in Books :
              /\ sync'[d] # None /\ sync'[d].wanted[b] # None =>
                    Past(sync'[d].wanted[b], b)
              /\ device'[d][b] # None => Past(device'[d][b], b),
           sync'[d] # None =>
              \A c \in sync'[d].page :
                 IF sync'[d].wanted[c.book] = None THEN c.kind = "Removed"
                 ELSE c.kind # "Removed" /\ c.content = sync'[d].wanted[c.book],
           faults'["lost"] = 0 /\ faults'["failed"] = 0 /\ faults'["wiped"] = 0
              /\ SnapshotIsTrue =>
                 \A b \in Books :
                    LET holds == AfterBody(d)'[b] IN
                    IF held'[d][b] = None THEN holds = None
                    ELSE holds # None /\ held'[d][b].seen = holds.modified,
           faults'["lost"] = 0 /\ UnmarkedIsHeld =>
              \A b \in Books \ moved :
                 /\ \/ token'[d]
                    \/ sync'[d] # None /\ sync'[d].step # "wanted"
                 /\ held'[d][b] # None /\ ~held'[d][b].resend
                 => /\ AfterBody(d)'[b] # None
                    /\ held'[d][b].seen <= AfterBody(d)'[b].modified
    PROVE  IInv'
  <1>1. Bounded'
    BY DEF IInv, Bounded
  <1>2. Untouched'
    BY DEF IInv, Untouched
  <1>3. ASSUME NEW e \in Devices, e # d
        PROVE  AfterBody(e)' = AfterBody(e)
    <2>1. sync'[e] = sync[e] /\ device'[e] = device[e]
      BY <1>3
    <2>2. body_applied(e)' = body_applied(e)
      BY <2>1 DEF body_applied, applied
    <2> QED BY <2>1, <2>2 DEF AfterBody
  <1>4. Read'
    <2>1. \A c : \A b \in Books :
             Past(c, b) => /\ c.modified <= library'[b].modified
                           /\ c.modified = library'[b].modified =>
                                 c.edition = library'[b].edition
      BY DEF Past
    <2> SUFFICES ASSUME NEW e \in Devices, NEW b \in Books
                 PROVE  /\ sync'[e] # None /\ sync'[e].wanted[b] # None =>
                              Past(sync[e].wanted[b], b)'
                        /\ device'[e][b] # None => Past(device[e][b], b)'
      BY DEF Read
    <2>2. /\ sync'[e] # None /\ sync'[e].wanted[b] # None =>
                Past(sync'[e].wanted[b], b)
          /\ device'[e][b] # None => Past(device'[e][b], b)
      BY DEF IInv, Read
    <2> QED BY <2>1, <2>2 DEF Past
  <1>9. RowsRead'
    <2> SUFFICES ASSUME NEW e \in Devices, NEW b \in Books, held'[e][b] # None
                 PROVE  /\ held'[e][b].seen <= library[b].modified
                        /\ sync'[e] # None /\ sync'[e].wanted[b] # None =>
                              held'[e][b].seen <= sync'[e].wanted[b].modified
      BY DEF RowsRead
    <2>1. CASE e = d
      BY <2>1
    <2>2. CASE e # d
      BY <2>2 DEF IInv, RowsRead
    <2> QED BY <2>1, <2>2
  <1>5. Pages'
    BY DEF IInv, Pages
  <1>6. faults'["lost"] = 0 /\ faults'["failed"] = 0 /\ faults'["wiped"] = 0
           /\ SnapshotIsTrue => SnapshotIsTrue'
    BY <1>3 DEF SnapshotIsTrue
  <1>7. faults'["lost"] = 0 /\ UnmarkedIsHeld => UnmarkedIsHeld'
    <2> SUFFICES ASSUME faults'["lost"] = 0, UnmarkedIsHeld,
                        NEW e \in Devices, NEW b \in Books \ moved,
                        \/ token'[e]
                        \/ sync'[e] # None /\ sync'[e].step # "wanted",
                        held'[e][b] # None, ~held'[e][b].resend
                 PROVE  /\ AfterBody(e)'[b] # None
                        /\ held'[e][b].seen <= AfterBody(e)'[b].modified
      BY DEF UnmarkedIsHeld
    <2>1. CASE e = d
      BY <2>1
    <2>2. CASE e # d
      BY <1>3, <2>2 DEF UnmarkedIsHeld
    <2> QED BY <2>1, <2>2
  <1>8. Agreement'
    BY <1>6, <1>7, AgreementKept DEF IInv
  <1> QED BY <1>1, <1>2, <1>4, <1>5, <1>8, <1>9 DEF IInv

(* The request reads the opted-in books. *)
LEMMA step_library_sync ==
    ASSUME IInv, NEW d \in Devices, library_sync(d)
    PROVE  IInv'
  <1> DEFINE r == [step |-> IF token[d] THEN "marked" ELSE "wanted",
                   wanted |-> sync_books,
                   held |-> [b \in Books |-> None],
                   page |-> {}, states |-> idle_page]
  <1>1. /\ sync[d] = None /\ sync' = [sync EXCEPT ![d] = r]
        /\ UNCHANGED <<now, library, held, device, token, edits, moved, states,
                       faults>>
    BY DEF library_sync, events
  <1>2. sync_books \in [Books -> Content \cup {None}]
        /\ \A b \in Books : /\ sync_books[b] # None =>
                                  /\ Past(sync_books[b], b)
                                  /\ sync_books[b].modified = library[b].modified
                            /\ library[b].wanted => sync_books[b] # None
    <2>1. ASSUME NEW b \in Books
          PROVE  /\ [modified |-> library[b].modified,
                     edition |-> library[b].edition] \in Content
                 /\ library[b].modified <= library[b].modified
      <3>1. library[b].modified \in Nat
        BY Numbers DEF IInv
      <3> QED BY <3>1 DEF IInv, TypeOK, Content
    <2> QED BY <2>1, NotNull DEF sync_books, Past
  <1>3. /\ r \in Request /\ r.wanted = sync_books /\ r.page = {}
        /\ r.step # "sent" /\ (r.step # "wanted" => token[d])
    <2>1. MaxStates \in Nat
      BY KoboConstants
    <2>2. idle_page \in [Books -> 0 .. MaxStates]
      BY <2>1 DEF idle_page
    <2>3. (IF token[d] THEN "marked" ELSE "wanted") \in
              {"wanted", "marked", "held", "delta", "stream", "sent"}
      OBVIOUS
    <2> QED BY <1>2, <2>2, <2>3 DEF Request
  <1> HIDE DEF r
  <1>4. Cardinality(r.page) <= SYNC_PAGE_SIZE
    BY <1>3, FS_EmptySet, KoboConstants
  <1>5. sync'[d] = r /\ \A e \in Devices : e # d => sync'[e] = sync[e]
    BY <1>1 DEF IInv, TypeOK
  <1>6. TypeOK'
    BY <1>1, <1>3, <1>4, <1>5 DEF IInv, TypeOK
  <1>7. AfterBody(d)' = AfterBody(d)
    BY <1>1, <1>3, <1>5 DEF AfterBody
  <1>8. \A b \in Books \ moved : sync'[d].wanted[b] # None
    BY <1>2, <1>3, <1>5 DEF IInv, Untouched
  <1>13. \A b \in Books : held'[d][b] # None =>
            /\ held'[d][b].seen <= library[b].modified
            /\ sync'[d].wanted[b] # None =>
                  held'[d][b].seen <= sync'[d].wanted[b].modified
    BY <1>1, <1>2, <1>3, <1>5 DEF IInv, RowsRead
  <1>9. \A b \in Books :
           /\ sync'[d].wanted[b] # None => Past(sync'[d].wanted[b], b)
           /\ device'[d][b] # None => Past(device'[d][b], b)
    BY <1>1, <1>2, <1>3, <1>5 DEF IInv, Read
  <1>10. sync'[d].page = {} /\ FaultsStay
    BY <1>1, <1>3, <1>5 DEF FaultsStay
  <1>11. SnapshotIsTrue =>
            \A b \in Books :
               LET holds == AfterBody(d)'[b] IN
               IF held'[d][b] = None THEN holds = None
               ELSE holds # None /\ held'[d][b].seen = holds.modified
    BY <1>1, <1>7 DEF SnapshotIsTrue
  <1>12. UnmarkedIsHeld =>
              \A b \in Books \ moved :
                 /\ \/ token'[d]
                    \/ sync'[d] # None /\ sync'[d].step # "wanted"
                 /\ held'[d][b] # None /\ ~held'[d][b].resend
                 => /\ AfterBody(d)'[b] # None
                    /\ held'[d][b].seen <= AfterBody(d)'[b].modified
    BY <1>1, <1>3, <1>5, <1>7 DEF UnmarkedIsHeld
  <1> QED BY <1>1, <1>5, <1>6, <1>8, <1>9, <1>10, <1>11, <1>12, <1>13,
             RequestMoved

(* A device without our token has its rows marked. *)
LEMMA step_mark_resend ==
    ASSUME IInv, NEW d \in Devices, mark_resend(d)
    PROVE  IInv'
  <1> DEFINE r == [sync[d] EXCEPT !.step = "marked"]
  <1>1. /\ sync[d] # None /\ sync[d].step = "wanted"
        /\ held' = [held EXCEPT ![d] = marked(d)]
        /\ sync' = [sync EXCEPT ![d] = r]
        /\ UNCHANGED <<now, library, device, token, edits, moved, states, faults>>
    BY DEF mark_resend, events, IInv, TypeOK
  <1>2. sync[d] \in Request /\ Cardinality(sync[d].page) <= SYNC_PAGE_SIZE
    BY <1>1 DEF IInv, TypeOK
  <1>3. /\ r \in Request /\ r.wanted = sync[d].wanted /\ r.page = sync[d].page
        /\ r.step = "marked"
    BY <1>2 DEF Request
  <1> HIDE DEF r
  <1>4. /\ held'[d] = marked(d) /\ sync'[d] = r
        /\ \A e \in Devices : e # d => sync'[e] = sync[e] /\ held'[e] = held[e]
    BY <1>1 DEF IInv, TypeOK
  <1>5. ASSUME NEW b \in Books
        PROVE  /\ marked(d)[b] \in HeldRow \cup {None}
               /\ marked(d)[b] = None <=> held[d][b] = None
               /\ held[d][b] # None => marked(d)[b].seen = held[d][b].seen
               /\ held[d][b] # None /\ sync[d].wanted[b] # None =>
                     marked(d)[b].resend
    <2>1. held[d][b] \in HeldRow \cup {None}
      BY DEF IInv, TypeOK
    <2>2. CASE held[d][b] # None /\ sync[d].wanted[b] # None
      <3>1. marked(d)[b] = [held[d][b] EXCEPT !.resend = TRUE]
        BY <2>2 DEF marked
      <3>2. marked(d)[b] \in HeldRow /\ marked(d)[b].resend
            /\ marked(d)[b].seen = held[d][b].seen
        BY <2>1, <2>2, <3>1 DEF HeldRow
      <3> QED BY <2>2, <3>2, NotNull
    <2>3. CASE ~(held[d][b] # None /\ sync[d].wanted[b] # None)
      <3>1. marked(d)[b] = held[d][b]
        BY <2>3 DEF marked
      <3> QED BY <2>1, <2>3, <3>1
    <2> QED BY <2>2, <2>3
  <1>6. marked(d) \in [Books -> HeldRow \cup {None}]
    BY <1>5 DEF marked
  <1>7. TypeOK'
    BY <1>1, <1>2, <1>3, <1>4, <1>6 DEF IInv, TypeOK
  <1>8. AfterBody(d)' = device[d] /\ AfterBody(d) = device[d]
    BY <1>1, <1>3, <1>4, NotNull DEF AfterBody
  <1>9. \A b \in Books \ moved : sync[d].wanted[b] # None
    BY <1>1 DEF IInv, Untouched
  <1>15. \A b \in Books : held'[d][b] # None =>
            /\ held'[d][b].seen <= library[b].modified
            /\ sync'[d].wanted[b] # None =>
                  held'[d][b].seen <= sync'[d].wanted[b].modified
    BY <1>1, <1>3, <1>4, <1>5 DEF IInv, RowsRead
  <1>10. \A b \in Books :
           /\ sync'[d].wanted[b] # None => Past(sync'[d].wanted[b], b)
           /\ device'[d][b] # None => Past(device'[d][b], b)
    BY <1>1, <1>3, <1>4 DEF IInv, Read
  <1>11. \A c \in sync'[d].page :
            IF sync'[d].wanted[c.book] = None THEN c.kind = "Removed"
            ELSE c.kind # "Removed" /\ c.content = sync'[d].wanted[c.book]
    BY <1>1, <1>3, <1>4 DEF IInv, Pages
  <1>12. SnapshotIsTrue =>
            \A b \in Books :
               LET holds == AfterBody(d)'[b] IN
               IF held'[d][b] = None THEN holds = None
               ELSE holds # None /\ held'[d][b].seen = holds.modified
    <2> SUFFICES ASSUME SnapshotIsTrue, NEW b \in Books
                 PROVE  IF marked(d)[b] = None THEN device[d][b] = None
                        ELSE /\ device[d][b] # None
                             /\ marked(d)[b].seen = device[d][b].modified
      BY <1>4, <1>8
    <2> QED BY <1>5, <1>8 DEF SnapshotIsTrue
  <1>13. \A b \in Books \ moved : ~(held'[d][b] # None /\ ~held'[d][b].resend)
    BY <1>4, <1>5, <1>9
  <1>14. FaultsStay
    BY <1>1 DEF FaultsStay
  <1> QED BY <1>1, <1>3, <1>4, <1>7, <1>9, <1>10, <1>11, <1>12, <1>13, <1>14,
             <1>15, RequestMoved

(* A request goes on, neither sent nor unmarked, with a page of the delta  *)
(* or none.                                                                *)
LEMMA RequestGoesOn ==
    ASSUME IInv, NEW d \in Devices, sync[d] # None,
           sync[d].step # "wanted", sync[d].step # "sent",
           NEW r \in Request, r.wanted = sync[d].wanted,
           r.step # "wanted", r.step # "sent",
           Cardinality(r.page) <= SYNC_PAGE_SIZE,
           \A c \in r.page :
              IF r.wanted[c.book] = None THEN c.kind = "Removed"
              ELSE c.kind # "Removed" /\ c.content = r.wanted[c.book],
           sync' = [sync EXCEPT ![d] = r],
           UNCHANGED <<now, library, held, device, token, events>>
    PROVE  IInv'
  <1>1. edits' = edits /\ moved' = moved /\ states' = states /\ faults' = faults
    BY DEF events
  <1>2. sync'[d] = r /\ \A e \in Devices : e # d => sync'[e] = sync[e]
    BY DEF IInv, TypeOK
  <1>3. TypeOK'
    BY <1>1, <1>2 DEF IInv, TypeOK
  <1>4. r # None /\ AfterBody(d)' = AfterBody(d)
    BY <1>2, NotNull DEF AfterBody
  <1>5. \A b \in Books \ moved : sync'[d].wanted[b] # None
    BY <1>2 DEF IInv, Untouched
  <1>10. \A b \in Books : held'[d][b] # None =>
            /\ held'[d][b].seen <= library[b].modified
            /\ sync'[d].wanted[b] # None =>
                  held'[d][b].seen <= sync'[d].wanted[b].modified
    BY <1>2 DEF IInv, RowsRead
  <1>6. \A b \in Books :
           /\ sync'[d].wanted[b] # None => Past(sync'[d].wanted[b], b)
           /\ device'[d][b] # None => Past(device'[d][b], b)
    BY <1>2 DEF IInv, Read
  <1>7. SnapshotIsTrue =>
            \A b \in Books :
               LET holds == AfterBody(d)'[b] IN
               IF held'[d][b] = None THEN holds = None
               ELSE holds # None /\ held'[d][b].seen = holds.modified
    BY <1>4 DEF SnapshotIsTrue
  <1>8. UnmarkedIsHeld =>
              \A b \in Books \ moved :
                 held'[d][b] # None /\ ~held'[d][b].resend
                 => /\ AfterBody(d)'[b] # None
                    /\ held'[d][b].seen <= AfterBody(d)'[b].modified
    BY <1>4 DEF UnmarkedIsHeld
  <1>9. FaultsStay
    BY <1>1 DEF FaultsStay
  <1> QED BY <1>1, <1>2, <1>3, <1>5, <1>6, <1>7, <1>8, <1>9, <1>10, RequestMoved

(* The snapshot of the device is read. *)
LEMMA step_held_snapshot ==
    ASSUME IInv, NEW d \in Devices, held_snapshot(d)
    PROVE  IInv'
  <1> DEFINE r == [sync[d] EXCEPT !.step = "held", !.held = held[d]]
  <1>1. sync[d] # None /\ sync[d].step = "marked"
        /\ UNCHANGED <<now, library, held, device, token, events>>
    BY DEF held_snapshot
  <1>2. sync[d] \in Request /\ Cardinality(sync[d].page) <= SYNC_PAGE_SIZE
    BY <1>1 DEF IInv, TypeOK
  <1>3. sync' = [sync EXCEPT ![d] = r]
    BY DEF held_snapshot, IInv, TypeOK
  <1>4. held[d] \in [Books -> HeldRow \cup {None}]
    BY DEF IInv, TypeOK
  <1>5. r \in Request /\ r.wanted = sync[d].wanted /\ r.page = sync[d].page
        /\ r.step = "held"
    BY <1>2, <1>4 DEF Request
  <1>6. \A c \in r.page :
            IF r.wanted[c.book] = None THEN c.kind = "Removed"
            ELSE c.kind # "Removed" /\ c.content = r.wanted[c.book]
    BY <1>1, <1>5 DEF IInv, Pages
  <1> HIDE DEF r
  <1> QED BY <1>1, <1>2, <1>3, <1>5, <1>6, RequestGoesOn

(* The delta is cut to a page. *)
LEMMA step_delta ==
    ASSUME IInv, NEW d \in Devices, delta(d)
    PROVE  IInv'
  <1> DEFINE wanted == sync[d].wanted
             snapshot == sync[d].held
             all == sent_changes(wanted, snapshot) \cup removals(wanted, snapshot)
  <1>1. sync[d] # None /\ sync[d].step = "held"
        /\ UNCHANGED <<now, library, held, device, token, events>>
    BY DEF delta
  <1>2. PICK page \in SUBSET all :
           /\ Cardinality(page) = page_length(Cardinality(all))
           /\ sync' = [sync EXCEPT ![d].step = "delta", ![d].page = page]
    BY DEF delta
  <1> DEFINE r == [sync[d] EXCEPT !.step = "delta", !.page = page]
  <1>3. sync[d] \in Request
    BY <1>1 DEF IInv, TypeOK
  <1>4. sync' = [sync EXCEPT ![d] = r]
    BY <1>2 DEF IInv, TypeOK
  <1>5. wanted \in [Books -> Content \cup {None}]
        /\ snapshot \in [Books -> HeldRow \cup {None}]
    BY <1>3 DEF Request
  <1>6. Cardinality(page) <= SYNC_PAGE_SIZE
    <2> HIDE DEF wanted, snapshot
    <2> QED BY <1>2, PageLength
  <1>7. ASSUME NEW c \in page
        PROVE  /\ c \in Change
               /\ IF wanted[c.book] = None THEN c.kind = "Removed"
                  ELSE c.kind # "Removed" /\ c.content = wanted[c.book]
    <2> HIDE DEF wanted, snapshot
    <2> QED BY <1>5, DeltaChanges
  <1> HIDE DEF all
  <1>8. r \in Request /\ r.wanted = wanted /\ r.page = page /\ r.step = "delta"
    BY <1>3, <1>7 DEF Request
  <1> HIDE DEF r
  <1> QED BY <1>1, <1>4, <1>6, <1>7, <1>8, RequestGoesOn

(* The reading states of the page are read. *)
LEMMA step_load_sync_page_states ==
    ASSUME IInv, NEW d \in Devices, load_sync_page_states(d)
    PROVE  IInv'
  <1> DEFINE now_states == [b \in Books |-> library[b].state]
             r == [sync[d] EXCEPT !.step = "stream", !.states = now_states]
  <1>1. sync[d] # None /\ sync[d].step = "delta"
        /\ UNCHANGED <<now, library, held, device, token, events>>
    BY DEF load_sync_page_states
  <1>2. sync[d] \in Request /\ Cardinality(sync[d].page) <= SYNC_PAGE_SIZE
    BY <1>1 DEF IInv, TypeOK
  <1>3. sync' = [sync EXCEPT ![d] = r]
    BY DEF load_sync_page_states, IInv, TypeOK
  <1>4. now_states \in [Books -> 0 .. MaxStates]
    BY DEF IInv, TypeOK
  <1> HIDE DEF now_states
  <1>5. r \in Request /\ r.wanted = sync[d].wanted /\ r.page = sync[d].page
        /\ r.step = "stream"
    BY <1>2, <1>4 DEF Request
  <1>6. \A c \in r.page :
            IF r.wanted[c.book] = None THEN c.kind = "Removed"
            ELSE c.kind # "Removed" /\ c.content = r.wanted[c.book]
    BY <1>1, <1>5 DEF IInv, Pages
  <1> HIDE DEF r
  <1> QED BY <1>1, <1>2, <1>3, <1>5, <1>6, RequestGoesOn
(* What a change of a page carries. *)
LEMMA PageChange ==
    ASSUME IInv, NEW d \in Devices, sync[d] # None, NEW c \in sync[d].page
    PROVE  /\ c \in Change
           /\ c.kind \in {"New", "Changed", "StateChanged", "Removed"}
           /\ c.kind = "Removed" => sync[d].wanted[c.book] = None
           /\ c.kind # "Removed" => c.content \in Content /\ Past(c.content, c.book)
  <1>1. c \in Change /\ c.book \in Books
        /\ c.kind \in {"New", "Changed", "StateChanged", "Removed"}
    BY DeviceTypes DEF IInv, Change
  <1>2. IF sync[d].wanted[c.book] = None THEN c.kind = "Removed"
        ELSE c.kind # "Removed" /\ c.content = sync[d].wanted[c.book]
    BY DEF IInv, Pages
  <1>3. sync[d].wanted[c.book] # None =>
           /\ sync[d].wanted[c.book] \in Content
           /\ Past(sync[d].wanted[c.book], c.book)
    BY <1>1, DeviceTypes DEF IInv, Read
  <1> QED BY <1>1, <1>2, <1>3

(* What record_synced leaves in a row. *)
LEMMA Recorded ==
    ASSUME now \in Time, NEW h \in HeldRow \cup {None}, NEW c,
           c.kind \in {"New", "Changed", "StateChanged", "Removed"},
           c.kind # "Removed" => c.content \in Content
    PROVE  /\ recorded(h, c) \in HeldRow \cup {None}
           /\ c.kind \in {"New", "Changed"} =>
                 /\ recorded(h, c) # None
                 /\ recorded(h, c).seen = c.content.modified
           /\ c.kind = "StateChanged" =>
                 /\ recorded(h, c) = None <=> h = None
                 /\ h # None => /\ recorded(h, c).seen = h.seen
                                /\ recorded(h, c).resend = h.resend
           /\ c.kind = "Removed" => recorded(h, c) = None
  <1>1. MaxTime \in Nat /\ now \in -1 .. MaxTime
    BY KoboConstants DEF Time
  <1>2. CASE c.kind \in {"New", "Changed"}
    <2>1. recorded(h, c) = upsert_synced(h, c)
      BY <1>2 DEF recorded
    <2>2. c.content \in Content
      BY <1>2
    <2>3. upsert_synced(h, c) \in HeldRow
          /\ upsert_synced(h, c).seen = c.content.modified
      BY <1>1, <2>2 DEF upsert_synced, HeldRow, Content
    <2> QED BY <1>2, <2>1, <2>3, NotNull
  <1>3. CASE c.kind = "StateChanged"
    <2>1. recorded(h, c) = IF h = None THEN None ELSE touch_state_changed(h, c)
      BY <1>3 DEF recorded
    <2>2. h # None => /\ touch_state_changed(h, c) \in HeldRow
                      /\ touch_state_changed(h, c).seen = h.seen
                      /\ touch_state_changed(h, c).resend = h.resend
      BY <1>1 DEF touch_state_changed, HeldRow
    <2> QED BY <1>3, <2>1, <2>2, NotNull
  <1>4. CASE c.kind = "Removed"
    BY <1>4 DEF recorded
  <1> QED BY <1>2, <1>3, <1>4

(* What a change leaves on the device. *)
LEMMA Applied ==
    ASSUME NEW h \in Sent \cup {None}, NEW s \in 0 .. MaxStates, NEW c,
           c.kind \in {"New", "Changed", "StateChanged", "Removed"},
           c.kind # "Removed" => c.content \in Content
    PROVE  /\ applied(h, c, s) \in Sent \cup {None}
           /\ c.kind \in {"New", "Changed"} =>
                 /\ applied(h, c, s) # None
                 /\ applied(h, c, s).modified = c.content.modified
                 /\ applied(h, c, s).edition = c.content.edition
           /\ c.kind = "StateChanged" =>
                 /\ applied(h, c, s) = None <=> h = None
                 /\ h # None => /\ applied(h, c, s).modified = h.modified
                                /\ applied(h, c, s).edition = h.edition
           /\ c.kind = "Removed" => applied(h, c, s) = None
  <1>1. CASE c.kind \in {"New", "Changed"}
    <2> DEFINE r == [modified |-> c.content.modified,
                     edition |-> c.content.edition, state |-> s]
    <2>1. applied(h, c, s) = r
      BY <1>1 DEF applied
    <2>2. c.content \in Content
      BY <1>1
    <2>3. r \in Sent
      BY <2>2 DEF Sent, Content
    <2> QED BY <1>1, <2>1, <2>3, NotNull
  <1>2. CASE c.kind = "StateChanged"
    <2>1. applied(h, c, s) = IF h = None THEN None ELSE [h EXCEPT !.state = s]
      BY <1>2 DEF applied
    <2>2. h # None => /\ [h EXCEPT !.state = s] \in Sent
                      /\ [h EXCEPT !.state = s].modified = h.modified
                      /\ [h EXCEPT !.state = s].edition = h.edition
      BY DEF Sent
    <2> QED BY <1>2, <2>1, <2>2, NotNull
  <1>3. CASE c.kind = "Removed"
    BY <1>3 DEF applied
  <1> QED BY <1>1, <1>2, <1>3

(* A body shows the device metadata of its books' past. *)
LEMMA BodyApplied ==
    ASSUME IInv, NEW d \in Devices, sync[d] # None
    PROVE  /\ body_applied(d) \in [Books -> Sent \cup {None}]
           /\ \A b \in Books :
                 body_applied(d)[b] # None => Past(body_applied(d)[b], b)
  <1> SUFFICES ASSUME NEW b \in Books
               PROVE  /\ body_applied(d)[b] \in Sent \cup {None}
                      /\ body_applied(d)[b] # None => Past(body_applied(d)[b], b)
    BY DEF body_applied
  <1>1. device[d][b] \in Sent \cup {None} /\ sync[d].states[b] \in 0 .. MaxStates
        /\ (device[d][b] # None => Past(device[d][b], b))
    BY DeviceTypes DEF IInv, Read
  <1>2. CASE \E c \in sync[d].page : c.book = b
    <2> DEFINE c == CHOOSE x \in sync[d].page : x.book = b
    <2>1. c \in sync[d].page /\ c.book = b
      BY <1>2
    <2>2. body_applied(d)[b] = applied(device[d][b], c, sync[d].states[b])
      BY <1>2 DEF body_applied
    <2> HIDE DEF c
    <2>3. /\ c.kind \in {"New", "Changed", "StateChanged", "Removed"}
          /\ c.kind # "Removed" => c.content \in Content /\ Past(c.content, b)
      BY <2>1, PageChange
    <2> QED BY <1>1, <2>2, <2>3, Applied DEF Past
  <1>3. CASE ~ \E c \in sync[d].page : c.book = b
    BY <1>1, <1>3 DEF body_applied
  <1> QED BY <1>2, <1>3

(* The final poll records the page, or fails to. *)
LEMMA step_sync_stream_close ==
    ASSUME IInv, NEW d \in Devices, sync_stream_close(d)
    PROVE  IInv'
  <1> DEFINE r == [sync[d] EXCEPT !.step = "sent"]
  <1>1. /\ sync[d] # None /\ sync[d].step = "stream"
        /\ sync' = [sync EXCEPT ![d] = r]
        /\ UNCHANGED <<now, library, device, token, edits, moved, states>>
    BY DEF sync_stream_close, IInv, TypeOK
  <1>2. \/ held' = [held EXCEPT ![d] = record_synced(d)] /\ UNCHANGED faults
        \/ fault("failed") /\ UNCHANGED held
    BY DEF sync_stream_close
  <1>3. sync[d] \in Request /\ Cardinality(sync[d].page) <= SYNC_PAGE_SIZE
    BY <1>1 DEF IInv, TypeOK
  <1>4. /\ r \in Request /\ r.wanted = sync[d].wanted /\ r.page = sync[d].page
        /\ r.states = sync[d].states /\ r.step = "sent" /\ r # None
    BY <1>3, NotNull DEF Request
  <1> HIDE DEF r
  <1>5. sync'[d] = r /\ \A e \in Devices : e # d => sync'[e] = sync[e]
    BY <1>1 DEF IInv, TypeOK
  <1>6. AfterBody(d) = device[d] /\ AfterBody(d)' = body_applied(d)
    <2>1. sync'[d].page = sync[d].page /\ sync'[d].states = sync[d].states
          /\ device' = device
      BY <1>1, <1>4, <1>5
    <2>2. body_applied(d)' = body_applied(d)
      BY <2>1 DEF body_applied, applied
    <2> QED BY <1>1, <1>4, <1>5, <2>2 DEF AfterBody
  <1>7. ASSUME NEW b \in Books, ~ \E c \in sync[d].page : c.book = b
        PROVE  record_synced(d)[b] = held[d][b] /\ body_applied(d)[b] = device[d][b]
    BY <1>7 DEF record_synced, body_applied
  <1>8. ASSUME NEW b \in Books, \E c \in sync[d].page : c.book = b
        PROVE  \E c \in sync[d].page :
                  /\ c.book = b
                  /\ record_synced(d)[b] = recorded(held[d][b], c)
                  /\ body_applied(d)[b] =
                        applied(device[d][b], c, sync[d].states[b])
                  /\ c.kind \in {"New", "Changed", "StateChanged", "Removed"}
                  /\ c.kind = "Removed" => sync[d].wanted[b] = None
                  /\ c.kind # "Removed" => c.content \in Content
    <2> DEFINE c == CHOOSE x \in sync[d].page : x.book = b
    <2>1. c \in sync[d].page /\ c.book = b
      BY <1>8
    <2>2. /\ record_synced(d)[b] = recorded(held[d][b], c)
          /\ body_applied(d)[b] = applied(device[d][b], c, sync[d].states[b])
      BY <1>8 DEF record_synced, body_applied
    <2> HIDE DEF c
    <2>3. /\ c.kind \in {"New", "Changed", "StateChanged", "Removed"}
          /\ c.kind = "Removed" => sync[d].wanted[b] = None
          /\ c.kind # "Removed" => c.content \in Content
      BY <1>1, <2>1, PageChange
    <2> QED BY <2>1, <2>2, <2>3
  <1>9. now \in Time /\ \A b \in Books :
           /\ held[d][b] \in HeldRow \cup {None}
           /\ device[d][b] \in Sent \cup {None}
           /\ sync[d].states[b] \in 0 .. MaxStates
    BY <1>1, DeviceTypes DEF IInv, TypeOK
  <1>10. record_synced(d) \in [Books -> HeldRow \cup {None}]
    <2> SUFFICES ASSUME NEW b \in Books
                 PROVE  record_synced(d)[b] \in HeldRow \cup {None}
      BY DEF record_synced
    <2> QED BY <1>7, <1>8, <1>9, Recorded
  <1>11. FaultsStay /\ faults' \in [Fault -> 0 .. MaxFaults]
         /\ held' \in [Devices -> [Books -> HeldRow \cup {None}]]
         /\ \A e \in Devices : e # d => held'[e] = held[e]
    <2>1. CASE held' = [held EXCEPT ![d] = record_synced(d)] /\ UNCHANGED faults
      BY <1>10, <2>1 DEF FaultsStay, IInv, TypeOK
    <2>2. CASE fault("failed") /\ UNCHANGED held
      BY <2>2, FaultCounted DEF FaultsStay, IInv, TypeOK, Fault
    <2> QED BY <1>2, <2>1, <2>2
  <1>12. TypeOK'
    BY <1>1, <1>3, <1>4, <1>5, <1>11 DEF IInv, TypeOK
  <1>13. \A b \in Books \ moved : sync[d].wanted[b] # None
    BY <1>1 DEF IInv, Untouched
  <1>14. \A b \in Books :
           /\ sync'[d].wanted[b] # None => Past(sync'[d].wanted[b], b)
           /\ device'[d][b] # None => Past(device'[d][b], b)
    BY <1>1, <1>4, <1>5 DEF IInv, Read
  <1>15. \A c \in sync'[d].page :
            IF sync'[d].wanted[c.book] = None THEN c.kind = "Removed"
            ELSE c.kind # "Removed" /\ c.content = sync'[d].wanted[c.book]
    BY <1>1, <1>4, <1>5 DEF IInv, Pages
  <1>16. ASSUME faults'["failed"] = 0, SnapshotIsTrue, NEW b \in Books
         PROVE  LET holds == body_applied(d)[b] IN
                IF held'[d][b] = None THEN holds = None
                ELSE holds # None /\ held'[d][b].seen = holds.modified
    <2>1. held'[d] = record_synced(d)
      <3>1. CASE fault("failed")
        <4>1. faults'["failed"] > 0
          BY <3>1, FaultCounted DEF IInv, Fault
        <4> QED BY <1>16, <4>1
      <3> QED BY <1>2, <3>1 DEF IInv, TypeOK
    <2>2. IF held[d][b] = None THEN device[d][b] = None
          ELSE device[d][b] # None /\ held[d][b].seen = device[d][b].modified
      BY <1>6, <1>16 DEF SnapshotIsTrue
    <2>3. CASE ~ \E c \in sync[d].page : c.book = b
      BY <1>7, <2>1, <2>2, <2>3
    <2>4. CASE \E c \in sync[d].page : c.book = b
      <3>1. PICK c \in sync[d].page :
                  /\ record_synced(d)[b] = recorded(held[d][b], c)
                  /\ body_applied(d)[b] =
                        applied(device[d][b], c, sync[d].states[b])
                  /\ c.kind \in {"New", "Changed", "StateChanged", "Removed"}
                  /\ c.kind # "Removed" => c.content \in Content
        BY <1>8, <2>4
      <3> DEFINE h == held[d][b]
                 s == device[d][b]
                 n == recorded(h, c)
                 a == applied(s, c, sync[d].states[b])
      <3>2. /\ c.kind \in {"New", "Changed"} =>
                 n # None /\ n.seen = c.content.modified
            /\ c.kind = "StateChanged" =>
                 (n = None <=> h = None) /\ (h # None => n.seen = h.seen)
            /\ c.kind = "Removed" => n = None
        BY <1>9, <3>1, Recorded
      <3>3. /\ c.kind \in {"New", "Changed"} =>
                 a # None /\ a.modified = c.content.modified
            /\ c.kind = "StateChanged" =>
                 (a = None <=> s = None) /\ (s # None => a.modified = s.modified)
            /\ c.kind = "Removed" => a = None
        BY <1>9, <3>1, Applied
      <3>4. held'[d][b] = n /\ body_applied(d)[b] = a
        BY <2>1, <3>1
      <3>5. IF h = None THEN s = None ELSE s # None /\ h.seen = s.modified
        BY <2>2
      <3> HIDE DEF n, a, h, s
      <3> QED BY <3>1, <3>2, <3>3, <3>4, <3>5
    <2> QED BY <2>3, <2>4
  <1>17. ASSUME NEW b \in Books
         PROVE  /\ held[d][b] # None => held[d][b].seen \in Nat
                /\ device[d][b] # None => device[d][b].modified \in Nat
                /\ \A c \in Content : c.modified \in Nat
    BY <1>9, Numbers DEF IInv
  <1>18. ASSUME NEW b \in Books, NEW c \in sync[d].page, c.book = b,
                c.kind # "Removed"
         PROVE  /\ c.content = sync[d].wanted[b] /\ sync[d].wanted[b] # None
                /\ held[d][b] # None => held[d][b].seen <= c.content.modified
                /\ c.content.modified <= library[b].modified
    <2>1. c.content = sync[d].wanted[b] /\ sync[d].wanted[b] # None
      BY <1>1, <1>18 DEF IInv, Pages
    <2>2. Past(sync[d].wanted[b], b)
      BY <1>1, <2>1 DEF IInv, Read
    <2>3. held[d][b] # None => held[d][b].seen <= sync[d].wanted[b].modified
      BY <1>1, <2>1 DEF IInv, RowsRead
    <2> QED BY <2>1, <2>2, <2>3 DEF Past
  <1>19. ASSUME NEW b \in Books
         PROVE  held'[d][b] = held[d][b] \/ held'[d][b] = record_synced(d)[b]
    BY <1>2 DEF IInv, TypeOK
  <1>20. ASSUME NEW b \in Books, held'[d][b] # None
         PROVE  /\ held'[d][b].seen <= library[b].modified
                /\ sync'[d].wanted[b] # None =>
                      held'[d][b].seen <= sync'[d].wanted[b].modified
    <2>1. sync'[d].wanted = sync[d].wanted
      BY <1>4, <1>5
    <2>2. held[d][b] # None =>
             /\ held[d][b].seen <= library[b].modified
             /\ sync[d].wanted[b] # None =>
                   held[d][b].seen <= sync[d].wanted[b].modified
      BY <1>1 DEF IInv, RowsRead
    <2>3. CASE held'[d][b] = held[d][b]
      BY <1>20, <2>1, <2>2, <2>3
    <2>4. CASE held'[d][b] = record_synced(d)[b] /\ held'[d][b] # held[d][b]
      <3>1. \E c \in sync[d].page : c.book = b
        BY <1>7, <2>4
      <3>2. PICK c \in sync[d].page :
                  /\ c.book = b
                  /\ record_synced(d)[b] = recorded(held[d][b], c)
                  /\ c.kind \in {"New", "Changed", "StateChanged", "Removed"}
                  /\ c.kind # "Removed" => c.content \in Content
        BY <1>8, <3>1
      <3>3. CASE c.kind \in {"New", "Changed"}
        <4>1. held'[d][b].seen = c.content.modified
          BY <1>9, <2>4, <3>2, <3>3, Recorded
        <4>2. c.content = sync[d].wanted[b]
              /\ c.content.modified <= library[b].modified
          BY <1>18, <3>2, <3>3
        <4>3. c.content.modified \in Nat
          BY <1>17, <3>2, <3>3
        <4> QED BY <2>1, <4>1, <4>2, <4>3
      <3>4. CASE c.kind = "StateChanged"
        <4>1. held[d][b] # None /\ held'[d][b].seen = held[d][b].seen
          BY <1>9, <1>20, <2>4, <3>2, <3>4, Recorded
        <4> QED BY <2>1, <2>2, <4>1
      <3>5. CASE c.kind = "Removed"
        BY <1>9, <1>20, <2>4, <3>2, <3>5, Recorded
      <3> QED BY <3>2, <3>3, <3>4, <3>5
    <2> QED BY <1>19, <2>3, <2>4
  <1>21. ASSUME UnmarkedIsHeld, NEW b \in Books \ moved,
                held'[d][b] # None, ~held'[d][b].resend
         PROVE  /\ body_applied(d)[b] # None
                /\ held'[d][b].seen <= body_applied(d)[b].modified
    <2>1. held[d][b] # None /\ ~held[d][b].resend =>
             device[d][b] # None /\ held[d][b].seen <= device[d][b].modified
      BY <1>1, <1>6, <1>21 DEF UnmarkedIsHeld
    <2>2. sync[d].wanted[b] # None
      BY <1>13, <1>21
    <2>4. CASE ~ \E c \in sync[d].page : c.book = b
      BY <1>7, <1>19, <1>21, <2>1, <2>4
    <2>5. CASE \E c \in sync[d].page : c.book = b
      <3>1. PICK c \in sync[d].page :
                  /\ c.book = b
                  /\ record_synced(d)[b] = recorded(held[d][b], c)
                  /\ body_applied(d)[b] =
                        applied(device[d][b], c, sync[d].states[b])
                  /\ c.kind \in {"New", "Changed", "StateChanged", "Removed"}
                  /\ c.kind = "Removed" => sync[d].wanted[b] = None
                  /\ c.kind # "Removed" => c.content \in Content
        BY <1>8, <2>5
      <3>2. CASE c.kind \in {"New", "Changed"}
        <4>1. /\ body_applied(d)[b] # None
              /\ body_applied(d)[b].modified = c.content.modified
          <5> DEFINE h == device[d][b]
                     n == sync[d].states[b]
          <5>1. /\ h \in Sent \cup {None} /\ n \in 0 .. MaxStates
                /\ body_applied(d)[b] = applied(h, c, n)
            BY <1>9, <3>1
          <5>2. c.kind # "Removed" => c.content \in Content
            BY <3>1
          <5> HIDE DEF h, n
          <5> QED BY <3>2, <5>1, <5>2, Applied
        <4>2. c.content.modified \in Nat
          BY <1>17, <3>1, <3>2
        <4>3. CASE held'[d][b] = held[d][b]
          <5>1. held[d][b].seen <= c.content.modified
            BY <1>18, <1>21, <3>1, <3>2, <4>3
          <5> QED BY <4>1, <4>3, <5>1
        <4>4. CASE held'[d][b] = record_synced(d)[b]
          <5>1. held'[d][b].seen = c.content.modified
            BY <1>9, <3>1, <3>2, <4>4, Recorded
          <5> QED BY <4>1, <4>2, <5>1
        <4> QED BY <1>19, <4>3, <4>4
      <3>3. CASE c.kind = "StateChanged"
        <4>1. /\ held[d][b] # None /\ ~held[d][b].resend
              /\ held'[d][b].seen = held[d][b].seen
          BY <1>9, <1>19, <1>21, <3>1, <3>3, Recorded
        <4>2. /\ body_applied(d)[b] # None
              /\ body_applied(d)[b].modified = device[d][b].modified
          BY <1>9, <2>1, <3>1, <3>3, <4>1, Applied
        <4> QED BY <2>1, <4>1, <4>2
      <3> QED BY <2>2, <3>1, <3>2, <3>3
    <2> QED BY <2>4, <2>5
  <1> QED BY <1>1, <1>4, <1>5, <1>6, <1>11, <1>12, <1>13, <1>14, <1>15, <1>16,
             <1>20, <1>21, RequestMoved

(* The device applies the whole body. *)
LEMMA step_receive ==
    ASSUME IInv, NEW d \in Devices, receive(d)
    PROVE  IInv'
  <1>1. /\ sync[d] # None /\ sync[d].step = "sent"
        /\ device' = [device EXCEPT ![d] = body_applied(d)]
        /\ token' = [token EXCEPT ![d] = TRUE]
        /\ sync' = [sync EXCEPT ![d] = None]
        /\ UNCHANGED <<now, library, held, edits, moved, states, faults>>
    BY DEF receive, events
  <1>2. /\ body_applied(d) \in [Books -> Sent \cup {None}]
        /\ \A b \in Books : body_applied(d)[b] # None => Past(body_applied(d)[b], b)
    BY <1>1, BodyApplied
  <1>3. /\ sync'[d] = None /\ device'[d] = body_applied(d)
        /\ \A e \in Devices : e # d => /\ sync'[e] = sync[e]
                                       /\ device'[e] = device[e]
                                       /\ token'[e] = token[e]
    BY <1>1 DEF IInv, TypeOK
  <1>4. TypeOK'
    BY <1>1, <1>2, <1>3 DEF IInv, TypeOK
  <1>5. AfterBody(d) = body_applied(d) /\ AfterBody(d)' = body_applied(d)
    BY <1>1, <1>3 DEF AfterBody
  <1>6. FaultsStay
    BY <1>1 DEF FaultsStay
  <1>7. SnapshotIsTrue =>
            \A b \in Books :
               LET holds == AfterBody(d)'[b] IN
               IF held'[d][b] = None THEN holds = None
               ELSE holds # None /\ held'[d][b].seen = holds.modified
    BY <1>1, <1>5 DEF SnapshotIsTrue
  <1>8. UnmarkedIsHeld =>
              \A b \in Books \ moved :
                 held'[d][b] # None /\ ~held'[d][b].resend
                 => /\ AfterBody(d)'[b] # None
                    /\ held'[d][b].seen <= AfterBody(d)'[b].modified
    BY <1>1, <1>5 DEF UnmarkedIsHeld
  <1>9. \A b \in Books : device'[d][b] # None => Past(device'[d][b], b)
    BY <1>2, <1>3
  <1>10. \A b \in Books : held'[d][b] # None =>
            held'[d][b].seen <= library[b].modified
    BY <1>1 DEF IInv, RowsRead
  <1> QED BY <1>1, <1>3, <1>4, <1>6, <1>7, <1>8, <1>9, <1>10, RequestMoved

(* A body that nobody reads: before its final poll nothing was recorded,   *)
(* after it the server is mistaken.                                        *)
LEMMA BodyGone ==
    ASSUME IInv, NEW d \in Devices, sync[d] # None,
           NEW kind \in {"dropped", "lost"}, fault(kind),
           sync[d].step # "sent" \/ kind = "lost",
           sync' = [sync EXCEPT ![d] = None],
           UNCHANGED <<now, library, held, device, token, edits, moved, states>>
    PROVE  IInv'
  <1>1. /\ faults' \in [Fault -> 0 .. MaxFaults] /\ faults'[kind] > 0
        /\ FaultsStay
    BY FaultCounted DEF IInv, Fault, FaultsStay
  <1>2. sync'[d] = None /\ \A e \in Devices : e # d => sync'[e] = sync[e]
    BY DEF IInv, TypeOK
  <1>3. TypeOK'
    BY <1>1, <1>2 DEF IInv, TypeOK
  <1>4. faults'["lost"] = 0 => AfterBody(d) = device[d]
    BY <1>1 DEF AfterBody
  <1>5. AfterBody(d)' = device[d]
    BY <1>2 DEF AfterBody
  <1>6. faults'["lost"] = 0 /\ SnapshotIsTrue =>
            \A b \in Books :
               LET holds == AfterBody(d)'[b] IN
               IF held'[d][b] = None THEN holds = None
               ELSE holds # None /\ held'[d][b].seen = holds.modified
    BY <1>4, <1>5 DEF SnapshotIsTrue
  <1>7. faults'["lost"] = 0 /\ UnmarkedIsHeld =>
              \A b \in Books \ moved :
                 token[d] /\ held'[d][b] # None /\ ~held'[d][b].resend
                 => /\ AfterBody(d)'[b] # None
                    /\ held'[d][b].seen <= AfterBody(d)'[b].modified
    BY <1>4, <1>5 DEF UnmarkedIsHeld
  <1>8. \A b \in Books : device'[d][b] # None => Past(device'[d][b], b)
    BY DEF IInv, Read
  <1>9. \A b \in Books : held'[d][b] # None =>
            held'[d][b].seen <= library[b].modified
    BY DEF IInv, RowsRead
  <1> QED BY <1>1, <1>2, <1>3, <1>6, <1>7, <1>8, <1>9, RequestMoved

(* The connection is lost before the final poll. *)
LEMMA step_drop_body ==
    ASSUME IInv, NEW d \in Devices, drop_body(d)
    PROVE  IInv'
  <1> DEFINE kind == "dropped"
  <1>1. kind \in {"dropped", "lost"} /\ fault(kind)
    BY DEF drop_body
  <1> HIDE DEF kind
  <1> QED BY <1>1, BodyGone DEF drop_body

(* The connection is lost after it. *)
LEMMA step_lose_body ==
    ASSUME IInv, NEW d \in Devices, lose_body(d)
    PROVE  IInv'
  <1> DEFINE kind == "lost"
  <1>1. kind \in {"dropped", "lost"} /\ fault(kind) /\ kind = "lost"
    BY DEF lose_body
  <1> HIDE DEF kind
  <1> QED BY <1>1, BodyGone DEF lose_body

(* A new sign-in, with the books or without. *)
LEMMA step_reset_device ==
    ASSUME IInv, NEW d \in Devices, reset_device(d)
    PROVE  IInv'
  <1>1. /\ sync[d] = None /\ token' = [token EXCEPT ![d] = FALSE]
        /\ UNCHANGED <<now, library, held, sync, edits, moved, states>>
    BY DEF reset_device
  <1>2. \/ fault("signed_in") /\ UNCHANGED device
        \/ fault("wiped") /\ device' = [device EXCEPT ![d] = [b \in Books |-> None]]
    BY DEF reset_device
  <1>3. /\ FaultsStay /\ faults' \in [Fault -> 0 .. MaxFaults]
        /\ device' \in [Devices -> [Books -> Sent \cup {None}]]
        /\ \A e \in Devices : e # d => device'[e] = device[e]
        /\ \A b \in Books : device'[d][b] # None => device'[d][b] = device[d][b]
        /\ faults'["wiped"] = 0 => device'[d] = device[d]
    <2>1. CASE fault("signed_in") /\ UNCHANGED device
      BY <2>1, FaultCounted DEF FaultsStay, IInv, TypeOK, Fault
    <2>2. CASE fault("wiped") /\ device' = [device EXCEPT ![d] = [b \in Books |-> None]]
      <3>1. faults' \in [Fault -> 0 .. MaxFaults] /\ faults'["wiped"] > 0 /\ FaultsStay
        BY <2>2, FaultCounted DEF FaultsStay, IInv, Fault
      <3>2. /\ device' \in [Devices -> [Books -> Sent \cup {None}]]
            /\ device'[d] = [b \in Books |-> None]
            /\ \A e \in Devices : e # d => device'[e] = device[e]
        BY <2>2 DEF IInv, TypeOK
      <3> QED BY <3>1, <3>2
    <2> QED BY <1>2, <2>1, <2>2
  <1>4. token'[d] = FALSE /\ sync'[d] = None
        /\ \A e \in Devices : e # d => token'[e] = token[e]
    BY <1>1 DEF IInv, TypeOK
  <1>5. TypeOK'
    BY <1>1, <1>3 DEF IInv, TypeOK
  <1>6. AfterBody(d)' = device'[d] /\ AfterBody(d) = device[d]
    BY <1>1, <1>4 DEF AfterBody
  <1>7. faults'["wiped"] = 0 /\ SnapshotIsTrue =>
            \A b \in Books :
               LET holds == AfterBody(d)'[b] IN
               IF held'[d][b] = None THEN holds = None
               ELSE holds # None /\ held'[d][b].seen = holds.modified
    BY <1>1, <1>3, <1>6 DEF SnapshotIsTrue
  <1>8. \A b \in Books : device'[d][b] # None => Past(device'[d][b], b)
    BY <1>3 DEF IInv, Read
  <1>9. \A b \in Books : held'[d][b] # None =>
            held'[d][b].seen <= library[b].modified
    BY <1>1 DEF IInv, RowsRead
  <1> QED BY <1>1, <1>3, <1>4, <1>5, <1>7, <1>8, <1>9, RequestMoved

-----------------------------------------------------------------------------
(* Init, Next, and what the invariant says. *)

(* No device holds anything at first. *)
LEMMA Initially == Init => IInv
  <1> SUFFICES ASSUME Init PROVE IInv
    OBVIOUS
  <1>1. /\ MaxTime \in Nat /\ MaxEdits \in Nat /\ MaxStates \in Nat
        /\ MaxFaults \in Nat
    BY KoboConstants
  <1>2. now \in Time /\ edits \in 0 .. MaxEdits /\ states \in 0 .. MaxStates
        /\ moved = {} /\ faults \in [Fault -> 0 .. MaxFaults] /\ 0 \in Stamp /\ 0 \in Time
        /\ 0 \in 0 .. MaxEdits /\ 0 \in 0 .. MaxStates
    BY <1>1 DEF Init, Time, Stamp
  <1>3. library \in [Books -> BookRow]
    BY <1>2 DEF Init, BookRow
  <1>4. /\ held \in [Devices -> [Books -> HeldRow \cup {None}]]
        /\ device \in [Devices -> [Books -> Sent \cup {None}]]
        /\ token \in [Devices -> BOOLEAN]
        /\ sync \in [Devices -> Request \cup {None}]
        /\ \A d \in Devices : sync[d] = None
    BY DEF Init
  <1>5. TypeOK
    BY <1>2, <1>3, <1>4 DEF TypeOK, BookRow
  <1>6. Bounded /\ Untouched
    BY <1>4 DEF Init, Bounded, Untouched
  <1>7. Read /\ RowsRead /\ Pages
    BY <1>4 DEF Init, Read, RowsRead, Pages
  <1>8. \A d \in Devices : AfterBody(d) = device[d]
    BY <1>4 DEF AfterBody
  <1>9. Agreement
    BY <1>8 DEF Init, Agreement, SnapshotIsTrue, UnmarkedIsHeld
  <1> QED BY <1>5, <1>6, <1>7, <1>9 DEF IInv

(* Every step keeps the invariant. *)
LEMMA Step == IInv /\ [Next]_vars => IInv'
  <1> SUFFICES ASSUME IInv, [Next]_vars PROVE IInv'
    OBVIOUS
  <1>1. CASE touch_book_last_modified
    BY <1>1, step_touch_book_last_modified
  <1>2. CASE change_shelf
    BY <1>2, step_change_shelf
  <1>3. CASE set_read_status_tx
    BY <1>3, step_set_read_status_tx
  <1>4. CASE set_read_status_at_tx
    BY <1>4, step_set_read_status_at_tx
  <1>5. CASE upsert_progress_tx
    BY <1>5, step_upsert_progress_tx
  <1>6. ASSUME NEW d \in Devices, Sync(d) PROVE IInv'
    BY <1>6, step_library_sync, step_mark_resend, step_held_snapshot, step_delta,
       step_load_sync_page_states, step_sync_stream_close, step_receive DEF Sync
  <1>7. ASSUME NEW d \in Devices, drop_body(d) PROVE IInv'
    BY <1>7, step_drop_body
  <1>8. ASSUME NEW d \in Devices, lose_body(d) PROVE IInv'
    BY <1>8, step_lose_body
  <1>9. ASSUME NEW d \in Devices, reset_device(d) PROVE IInv'
    BY <1>9, step_reset_device
  <1>10. CASE Tick
    BY <1>10, step_Tick
  <1>11. CASE UNCHANGED vars
    <2>1. UNCHANGED <<now, library, held, device, token, sync, edits, moved,
                      states, faults>>
      BY <1>11 DEF vars, events
    <2>2. TypeOK' /\ Bounded' /\ Untouched' /\ Pages'
      BY <2>1 DEF IInv, TypeOK, Bounded, Untouched, Pages
    <2>3. LibraryAdvances
      BY <2>1, Numbers DEF LibraryAdvances, IInv
    <2> QED BY <2>1, <2>2, <2>3, LibraryMoved
  <1> QED BY <1>1, <1>2, <1>3, <1>4, <1>5, <1>6, <1>7, <1>8, <1>9, <1>10, <1>11
          DEF Next

(* A book nothing is owed for is on the device as it is in the library: a  *)
(* row is never newer than what was read for it, and a stamp never stands  *)
(* for two editions.                                                       *)
LEMMA OwedFollows == IInv => DifferenceIsOwed
  <1> SUFFICES ASSUME IInv, NEW d \in Devices, sync[d] = None, token[d],
                      NEW b \in Books, ~mistaken(b), b \notin owed(d)
               PROVE  \/ ~library[b].wanted /\ device[d][b] = None
                      \/ /\ library[b].wanted /\ device[d][b] # None
                         /\ device[d][b].edition = library[b].edition
    BY DEF DifferenceIsOwed
  <1> DEFINE h == held[d][b]
             shown == device[d][b]
  <1>1. /\ h \in HeldRow \cup {None} /\ shown \in Sent \cup {None}
        /\ shown # None => Past(shown, b)
        /\ edits \in Nat /\ \A k \in Fault : faults[k] \in Nat
        /\ AfterBody(d) = device[d]
    BY DeviceTypes, Numbers DEF IInv, Read, AfterBody
  <1>2. faults["lost"] = 0
        /\ (b \notin moved \/ (faults["failed"] = 0 /\ faults["wiped"] = 0))
    <2>1. /\ faults["lost"] \in Nat /\ faults["failed"] \in Nat
          /\ faults["wiped"] \in Nat
      BY <1>1 DEF Fault
    <2> QED BY <1>1, <2>1 DEF mistaken
  <1>3. library[b].wanted => /\ h # None /\ ~h.resend
                             /\ ~(library[b].modified > h.seen)
    <2> SUFFICES ASSUME library[b].wanted
                 PROVE  h # None /\ ~h.resend /\ ~(library[b].modified > h.seen)
      OBVIOUS
    <2>1. sync_books[b] = [modified |-> library[b].modified,
                           edition |-> library[b].edition]
      BY DEF sync_books
    <2>2. sync_books[b] # None
      BY <2>1, NotNull DEF IInv, TypeOK, Content
    <2>3. ~is_new(h) /\ ~is_changed(h, sync_books[b])
      <3>1. \A k \in {"New", "Changed"} :
               [kind |-> k, book |-> b, content |-> sync_books[b]]
                  \notin sent_changes(sync_books, held[d])
        BY DEF owed
      <3> QED BY <2>2, <3>1 DEF sent_changes
    <2> QED BY <2>1, <2>3 DEF is_new, is_changed
  <1>4. ~library[b].wanted => h = None
    <2> SUFFICES ASSUME ~library[b].wanted, h # None PROVE FALSE
      OBVIOUS
    <2>1. sync_books[b] = None
      BY DEF sync_books
    <2>2. [kind |-> "Removed", book |-> b, content |-> None]
             \in removals(sync_books, held[d])
      BY <2>1 DEF removals
    <2> QED BY <2>2 DEF owed
  <1>5. CASE faults["failed"] = 0 /\ faults["wiped"] = 0
    <2>1. IF h = None THEN shown = None
          ELSE shown # None /\ h.seen = shown.modified
      BY <1>1, <1>2, <1>5 DEF IInv, Agreement, SnapshotIsTrue
    <2>2. CASE ~library[b].wanted
      BY <1>4, <2>1, <2>2
    <2>3. CASE library[b].wanted
      <3>1. shown # None /\ ~(library[b].modified > shown.modified)
        BY <1>3, <2>1, <2>3
      <3>2. /\ shown.modified \in Nat /\ library[b].modified \in Nat
            /\ shown.modified <= library[b].modified
        BY <1>1, <3>1, Numbers DEF IInv, Past
      <3>3. shown.modified = library[b].modified
        <4> DEFINE m == library[b].modified
                   n == shown.modified
        <4>1. m \in Nat /\ n \in Nat /\ n <= m /\ ~(m > n)
          BY <3>1, <3>2
        <4> HIDE DEF m, n
        <4>2. n = m
          BY <4>1
        <4> QED BY <4>2 DEF m, n
      <3> QED BY <1>1, <2>3, <3>1, <3>3 DEF Past
    <2> QED BY <2>2, <2>3
  <1>6. CASE b \notin moved
    <2>1. library[b].wanted
      BY <1>6 DEF IInv, Untouched
    <2>2. h # None /\ ~h.resend /\ ~(library[b].modified > h.seen)
      BY <1>3, <2>1
    <2>3. shown # None /\ h.seen <= shown.modified
      BY <1>1, <1>2, <1>6, <2>2 DEF IInv, Agreement, UnmarkedIsHeld
    <2>4. shown.modified = library[b].modified
      <3> DEFINE m == library[b].modified
                 n == shown.modified
                 k == h.seen
      <3>1. m \in Nat /\ n \in Nat /\ k \in Nat
        BY <1>1, <2>2, <2>3, Numbers DEF IInv
      <3>2. n <= m /\ k <= n /\ ~(m > k)
        BY <1>1, <2>2, <2>3 DEF Past
      <3> HIDE DEF m, n, k
      <3>3. n = m
        BY <3>1, <3>2
      <3> QED BY <3>3 DEF m, n
    <2> QED BY <1>1, <2>1, <2>3, <2>4 DEF Past
  <1> QED BY <1>2, <1>5, <1>6

-----------------------------------------------------------------------------
(* The theorems. *)

(* The invariant holds in every reachable state, for every library, every  *)
(* number of Kobos, every page size and every number of faults.            *)
THEOREM Invariance == Spec => []IInv
  <1>1. Init => IInv
    BY Initially
  <1>2. IInv /\ [Next]_vars => IInv'
    BY Step
  <1> QED BY <1>1, <1>2, PTL DEF Spec

(* Every variable keeps its type: a page is never longer than              *)
(* SYNC_PAGE_SIZE, and a stamp that ran ahead of the clock is still one.   *)
THEOREM TypeCorrectness == Spec => []TypeOK
  <1>1. IInv => TypeOK
    BY DEF IInv
  <1> QED BY <1>1, Invariance, PTL

(* The delta loses no edit: whatever falls between the read and the record *)
(* of a sync (kobo/delta.rs), a device that differs is owed the difference.*)
THEOREM NoEditLost == Spec => []DifferenceIsOwed
  <1> QED BY OwedFollows, Invariance, PTL
=============================================================================
