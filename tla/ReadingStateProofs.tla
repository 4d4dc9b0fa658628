------------------------- MODULE ReadingStateProofs -------------------------
(***************************************************************************)
(* Proofs about ReadingState for every set of places and files, every idle *)
(* gap, every device clock and every number of writes, replays, restarts.  *)
(***************************************************************************)
EXTENDS ReadingState, NumberFacts, TLAPS

(* What a derivation works from was the epub's at the second it carries,   *)
(* and the row is of that second or of a later one.                        *)
Origin(place, at) ==
    /\ "epub" \in Formats /\ row["epub"] # None
    /\ at <= row["epub"].at
    /\ \E d \in delivered :
          /\ d.format = "epub" /\ d.stamp = at
          /\ place \in {d.position[h] : h \in {"cfi", "percent", "audio"}}

Derivations ==
    /\ \A r \in spawning : Origin(r.place, r.at)
    /\ walk # None => Origin(walk.place, walk.at)
    /\ enrich # None => Origin(enrich.place, enrich.at)

(* The mark is dated by the last observation, which is no later than the   *)
(* row, and no observation of that second is past it.                      *)
Marked(f) ==
    /\ heard[f] = {} <=> mark[f] = None
    /\ mark[f] = None => credited[f] = 0
    /\ mark[f] # None =>
          /\ row[f] # None /\ mark[f].at <= row[f].at
          /\ \E o \in heard[f] : o.at = mark[f].at
          /\ \A o \in heard[f] :
                o.at <= mark[f].at /\ (o.at = mark[f].at => o.place <= mark[f].max)

(* As long as all that was heard is of one sitting, the mark is the        *)
(* furthest place heard and the credit is no more than the ground from     *)
(* some place heard up to it.                                              *)
OneSitting(f) ==
    mark[f] # None /\ (\A o \in heard[f] : mark[f].at - o.at <= IDLE_GAP_SECS) =>
        /\ \E o \in heard[f] : o.place = mark[f].max
        /\ \A o \in heard[f] : o.place <= mark[f].max
        /\ \E o \in heard[f] : credited[f] <= mark[f].max - o.place

Ledger == \A f \in Formats : Marked(f) /\ OneSitting(f)

(* The ledger has heard of every percent delivered for the row's second.   *)
Observed ==
    \A d \in delivered :
        d.stamp = row[d.format].at /\ d.position.percent # None =>
            [place |-> d.position.percent, at |-> d.stamp] \in heard[d.format]

(* A choice is of a moment the server has seen, and a chosen `unread` is   *)
(* remembered as one.                                                      *)
Sane(ch, time) ==
    ch # None => ch.at <= time /\ (ch.status = "unread" => ch.unread)

(* Status st stands by choice ch: the part of StartedOrChosen that speaks  *)
(* of the two, given the writes D that were delivered.                     *)
Stands(st, ch, D) ==
    /\ st # None /\ ch = None => st.auto /\ st.status = "reading"
    /\ ch # None =>
          /\ st # None /\ ~st.auto
          /\ \/ st.status = ch.status /\ st.at = ch.at
             \/ /\ st.status = "reading" /\ ch.unread
                /\ \E d \in D : d.stamp = st.at
                /\ \/ ch.at < st.at
                   \/ ch.at = st.at /\ ch.status = "unread"

IInv ==
    /\ TypeOK /\ Derivations /\ Ledger /\ Observed
    /\ Sane(chosen, now)
    /\ NewestPositionStands /\ HalvesOfOneMoment /\ StartedOrChosen

-----------------------------------------------------------------------------
(* What the model's operators return. *)

(* The bounds and the places are numbers. *)
LEMMA Bounds ==
    /\ Places \subseteq Nat /\ 0 \in Places /\ IDLE_GAP_SECS \in Nat
    /\ MaxTime \in Nat /\ MaxAhead \in Nat
    /\ MaxMessages \in Nat /\ MaxCrashes \in Nat
  BY ReadingConstants

(* Places and times are numbers. *)
LEMMA PlaceIsNumber == \A p \in Places : p \in Nat
  BY ReadingConstants

(* Times are numbers up to the end of time. *)
LEMMA TimeIsNumber == \A t \in Time : t \in Nat /\ t <= MaxTime
  BY ReadingConstants DEF Time

(* A row that is there is not NULL. *)
LEMMA Rows ==
    None \notin Row /\ None \notin Derivation /\ None \notin Mark
    /\ None \notin StatusRow /\ None \notin Choice
    /\ None \notin Places /\ None \notin Files /\ None \notin Nat
  BY NoneAssumption, ReadingConstants

(* The mark after an observation (forward_progress.rs observe): its place  *)
(* and its date never step back inside a sitting.                          *)
LEMMA NextMark ==
    ASSUME NEW m \in Mark, NEW place \in Places, NEW at \in Time
    PROVE  LET n == next_mark(m, place, at) IN
           /\ n \in Mark
           /\ n.at = IF m.at <= at THEN at ELSE m.at
           /\ n.max = IF at - m.at <= IDLE_GAP_SECS
                      THEN IF m.max <= place THEN place ELSE m.max
                      ELSE place
  <1>1. m.max \in Places /\ m.at \in Time
    BY DEF Mark
  <1>2. m.max \in Int /\ place \in Int
    BY <1>1, PlaceIsNumber
  <1>3. at \in Int /\ m.at \in Int
    BY <1>1, TimeIsNumber
  <1>4. Max({m.at, at}) = IF m.at <= at THEN at ELSE m.at
    BY <1>3, MaxOfTwo
  <1>5. Max({m.max, place}) = IF m.max <= place THEN place ELSE m.max
    BY <1>2, MaxOfTwo
  <1> QED BY <1>1, <1>4, <1>5 DEF next_mark, continues, Mark

(* Only ground past the mark is credited. *)
LEMMA Gain ==
    ASSUME NEW m \in Mark, NEW place \in Places
    PROVE  /\ gain(m, place) \in Nat
           /\ gain(m, place) = IF m.max <= place THEN place - m.max ELSE 0
  <1>1. m.max \in Nat /\ place \in Nat
    BY Bounds DEF Mark
  <1> QED BY <1>1 DEF gain

-----------------------------------------------------------------------------
(* The ledger. *)

(* No write and no derivation dates a row back or removes it. *)
RowsAdvance ==
    \A f \in Formats :
        row[f] # None => row'[f] # None /\ row[f].at <= row'[f].at

(* Times and numbers of the state. *)
LEMMA Numbers ==
    ASSUME TypeOK, NEW f \in Formats
    PROVE  /\ row[f] # None => row[f] \in Row /\ row[f].at \in Nat
                               /\ row[f].at <= now
           /\ mark[f] # None => mark[f] \in Mark /\ mark[f].at \in Nat
                                /\ mark[f].max \in Nat
           /\ credited[f] \in Nat /\ now \in Nat
           /\ \A o \in heard[f] : /\ o \in Observation /\ o.at \in Nat
                                  /\ o.place \in Nat
  BY PlaceIsNumber, TimeIsNumber DEF TypeOK, Row, Mark, Observation

(* An observation that is no later than the row keeps the ledger's books,  *)
(* whether it comes with a write, late, or twice.                          *)
LEMMA ObservedLedger ==
    ASSUME TypeOK, Ledger, RowsAdvance,
           row' \in [Formats -> Row \cup {None}],
           NEW f \in Formats, NEW place \in Places, NEW at \in Time,
           row'[f] # None, at <= row'[f].at,
           observe_percent_tx(f, place, at)
    PROVE  /\ Ledger'
           /\ mark' \in [Formats -> Mark \cup {None}]
           /\ credited' \in [Formats -> Nat]
           /\ heard' \in [Formats -> SUBSET Observation]
           /\ [place |-> place, at |-> at] \in heard'[f]
           /\ \A g \in Formats : heard[g] \subseteq heard'[g]
  <1> DEFINE new == [place |-> place, at |-> at]
             n == next_mark(mark[f], place, at)
             cr == IF mark[f] = None THEN credited[f]
                   ELSE credited[f] + gain(mark[f], place)
             first == [max |-> place, at |-> at]
             mk == IF mark[f] = None THEN first ELSE n
  <1>1. /\ mark' = [mark EXCEPT ![f] = mk]
        /\ credited' = [credited EXCEPT ![f] = cr]
        /\ heard' = [heard EXCEPT ![f] = heard[f] \cup {new}]
    BY DEF observe_percent_tx
  <1>2. /\ place \in Nat /\ at \in Nat /\ IDLE_GAP_SECS \in Nat
        /\ new \in Observation /\ new.place = place /\ new.at = at
        /\ first \in Mark /\ first.max = place /\ first.at = at
    BY Bounds DEF Time, Observation, Mark
  <1>3. mark[f] # None =>
           /\ n \in Mark
           /\ n.at = IF mark[f].at <= at THEN at ELSE mark[f].at
           /\ n.max = IF at - mark[f].at <= IDLE_GAP_SECS
                      THEN IF mark[f].max <= place THEN place ELSE mark[f].max
                      ELSE place
           /\ cr \in Nat
           /\ cr = credited[f] + IF mark[f].max <= place
                                 THEN place - mark[f].max ELSE 0
    BY NextMark, Gain, Numbers
  <1> HIDE DEF n, new, first
  <1>4. mk \in Mark /\ cr \in Nat
    BY <1>2, <1>3, Numbers
  <1>5. mark[f] = None => mk = first /\ cr = credited[f]
    OBVIOUS
  <1>6. mark[f] # None => mk = n
    OBVIOUS
  <1> HIDE DEF mk, cr
  <1>7. /\ mark'[f] = mk /\ credited'[f] = cr /\ heard'[f] = heard[f] \cup {new}
        /\ \A g \in Formats : g # f => /\ mark'[g] = mark[g]
                                       /\ credited'[g] = credited[g]
                                       /\ heard'[g] = heard[g]
    BY <1>1 DEF TypeOK
  <1>8. /\ mark' \in [Formats -> Mark \cup {None}]
        /\ credited' \in [Formats -> Nat]
        /\ heard' \in [Formats -> SUBSET Observation]
    BY <1>1, <1>2, <1>4 DEF TypeOK
  <1>9. mk # None /\ mk.at \in Nat /\ mk.max \in Nat
    <2>1. mk.at \in Time /\ mk.max \in Places
      BY <1>4 DEF Mark
    <2>2. mk # None
      BY <1>4, Rows
    <2> QED BY <2>1, <2>2, PlaceIsNumber, TimeIsNumber
  <1>10. row'[f].at \in Nat
    BY Bounds DEF Row, Time
  <1>11. Marked(f) /\ OneSitting(f)
    BY DEF Ledger
  <1>12. \A o \in heard[f] : o.at \in Nat /\ o.place \in Nat
    BY Numbers
  <1>13. mark[f] # None => /\ mark[f].at \in Nat /\ mark[f].max \in Nat
                           /\ credited[f] \in Nat
    BY Numbers
  <1>14. Marked(f)'
    <2>1. heard'[f] # {} /\ mark'[f] # None
      BY <1>7, <1>9
    <2>2. mk.at <= row'[f].at
      <3>1. CASE mark[f] = None
        BY <1>2, <1>5, <3>1
      <3>2. CASE mark[f] # None
        <4>1. mark[f].at <= row[f].at /\ row[f] # None
          BY <1>11, <3>2 DEF Marked
        <4>2. row[f].at <= row'[f].at /\ row[f].at \in Nat
          BY <4>1, Numbers DEF RowsAdvance
        <4> QED BY <1>2, <1>3, <1>6, <1>10, <1>13, <3>2, <4>1, <4>2
      <3> QED BY <3>1, <3>2
    <2>3. \E o \in heard'[f] : o.at = mk.at
      BY <1>2, <1>3, <1>5, <1>6, <1>7, <1>11 DEF Marked
    <2>4. \A o \in heard'[f] :
             o.at <= mk.at /\ (o.at = mk.at => o.place <= mk.max)
      <3>1. CASE mark[f] = None
        BY <1>2, <1>5, <1>7, <1>11, <3>1 DEF Marked
      <3>2. CASE mark[f] # None
        <4>1. \A o \in heard[f] :
                 /\ o.at <= mark[f].at
                 /\ o.at = mark[f].at => o.place <= mark[f].max
          BY <1>11, <3>2 DEF Marked
        <4>2. new.at <= mk.at /\ (new.at = mk.at => new.place <= mk.max)
          BY <1>2, <1>3, <1>6, <1>13, <3>2
        <4>3. ASSUME NEW o \in heard[f]
              PROVE  o.at <= mk.at /\ (o.at = mk.at => o.place <= mk.max)
          BY <1>2, <1>3, <1>6, <1>12, <1>13, <3>2, <4>1
        <4> QED BY <1>7, <4>2, <4>3
      <3> QED BY <3>1, <3>2
    <2> QED BY <1>7, <2>1, <2>2, <2>3, <2>4 DEF Marked
  <1>15. OneSitting(f)'
    <2> SUFFICES ASSUME \A o \in heard'[f] : mk.at - o.at <= IDLE_GAP_SECS
                 PROVE  /\ \E o \in heard'[f] : o.place = mk.max
                        /\ \A o \in heard'[f] : o.place <= mk.max
                        /\ \E o \in heard'[f] : cr <= mk.max - o.place
      BY <1>7 DEF OneSitting
    <2>1. CASE mark[f] = None
      <3>1. heard'[f] = {new} /\ cr = 0
        BY <1>5, <1>7, <1>11, <2>1 DEF Marked
      <3> QED BY <1>2, <1>5, <2>1, <3>1
    <2>2. CASE mark[f] # None
      <3>1. at - mark[f].at <= IDLE_GAP_SECS
        <4>1. PICK o \in heard[f] : o.at = mark[f].at
          BY <1>11, <2>2 DEF Marked
        <4>2. mk.at - o.at <= IDLE_GAP_SECS
          BY <1>7, <4>1
        <4> QED BY <1>2, <1>3, <1>6, <1>13, <2>2, <4>1, <4>2
      <3>2. ASSUME NEW o \in heard[f]
            PROVE  mark[f].at - o.at <= IDLE_GAP_SECS
        <4>1. mk.at - o.at <= IDLE_GAP_SECS
          BY <1>7
        <4> QED BY <1>2, <1>3, <1>6, <1>12, <1>13, <2>2, <4>1
      <3>3. /\ \E o \in heard[f] : o.place = mark[f].max
            /\ \A o \in heard[f] : o.place <= mark[f].max
            /\ \E o \in heard[f] : credited[f] <= mark[f].max - o.place
        BY <1>11, <2>2, <3>2 DEF OneSitting
      <3>4. mk.max = IF mark[f].max <= place THEN place ELSE mark[f].max
        BY <1>3, <1>6, <2>2, <3>1
      <3>5. \E o \in heard'[f] : o.place = mk.max
        BY <1>2, <1>7, <3>3, <3>4
      <3>6. \A o \in heard'[f] : o.place <= mk.max
        <4>1. \A o \in heard[f] : o.place <= mk.max
          BY <1>2, <1>12, <1>13, <2>2, <3>3, <3>4
        <4> QED BY <1>2, <1>7, <1>13, <2>2, <3>4, <4>1
      <3>7. \E o \in heard'[f] : cr <= mk.max - o.place
        <4>1. PICK o \in heard[f] : credited[f] <= mark[f].max - o.place
          BY <3>3
        <4>2. cr <= mk.max - o.place
          BY <1>2, <1>3, <1>12, <1>13, <2>2, <3>4, <4>1
        <4> QED BY <1>7, <4>2
      <3> QED BY <3>5, <3>6, <3>7
    <2> QED BY <2>1, <2>2
  <1>16. ASSUME NEW g \in Formats, g # f
         PROVE  Marked(g)' /\ OneSitting(g)'
    <2>1. Marked(g) /\ OneSitting(g)
      BY DEF Ledger
    <2>2. mark[g] # None => mark[g].at <= row'[g].at /\ row'[g] # None
      <3> SUFFICES ASSUME mark[g] # None
                   PROVE  mark[g].at <= row'[g].at /\ row'[g] # None
        OBVIOUS
      <3>1. row[g] # None /\ mark[g].at <= row[g].at
        BY <2>1 DEF Marked
      <3>2. row'[g] # None /\ row[g].at <= row'[g].at
        BY <3>1 DEF RowsAdvance
      <3>3. row'[g].at \in Nat /\ row[g].at \in Nat /\ mark[g].at \in Nat
        BY <3>1, <3>2, Bounds, Numbers DEF Row, Time
      <3> QED BY <3>1, <3>2, <3>3
    <2> QED BY <1>7, <1>16, <2>1, <2>2 DEF Marked, OneSitting
  <1> QED BY <1>7, <1>8, <1>14, <1>15, <1>16 DEF Ledger, new

(* A step that observes nothing keeps the ledger's books. *)
LEMMA UnobservedLedger ==
    ASSUME TypeOK, Ledger, RowsAdvance,
           row' \in [Formats -> Row \cup {None}], observe_nothing
    PROVE  Ledger'
  <1>1. UNCHANGED <<mark, credited, heard>>
    BY DEF observe_nothing
  <1> SUFFICES ASSUME NEW g \in Formats
               PROVE  Marked(g)' /\ OneSitting(g)'
    BY DEF Ledger
  <1>2. Marked(g) /\ OneSitting(g)
    BY DEF Ledger
  <1>3. mark[g] # None => mark[g].at <= row'[g].at /\ row'[g] # None
    <2> SUFFICES ASSUME mark[g] # None
                 PROVE  mark[g].at <= row'[g].at /\ row'[g] # None
      OBVIOUS
    <2>1. row[g] # None /\ mark[g].at <= row[g].at
      BY <1>2 DEF Marked
    <2>2. row'[g] # None /\ row[g].at <= row'[g].at
      BY <2>1 DEF RowsAdvance
    <2>3. row'[g].at \in Nat /\ row[g].at \in Nat /\ mark[g].at \in Nat
      BY <2>1, <2>2, Bounds, Numbers DEF Row, Time
    <2> QED BY <2>1, <2>2, <2>3
  <1> QED BY <1>1, <1>2, <1>3 DEF Marked, OneSitting

-----------------------------------------------------------------------------
(* Writes. *)

Halves == {"cfi", "percent", "audio"}

(* A typed position whose span is where its percent or its CFI is. *)
Sound(p) ==
    p \in Position /\ (p.span # None => p.percent = p.span \/ p.cfi = p.span)

(* Every position a surface sends is one (web and iOS, Kobo, KOReader). *)
LEMMA Offers ==
    /\ \A f \in Formats : \A p \in posted(f) : Sound(p)
    /\ \A p \in bookmarks : Sound(p)
    /\ \A p \in pushes : Sound(p)
  <1>1. ASSUME NEW p \in Places, NEW cfi \in BOOLEAN, NEW percent \in BOOLEAN,
               NEW span \in BOOLEAN, span => percent \/ cfi
        PROVE  Sound(EpubAt(p, cfi, percent, span))
    <2> DEFINE c == IF cfi THEN p ELSE None
               q == IF percent THEN p ELSE None
               s == IF span THEN p ELSE None
    <2>1. c \in MaybePlace /\ q \in MaybePlace /\ s \in MaybePlace
          /\ (s # None => q = s \/ c = s)
      BY <1>1 DEF MaybePlace
    <2>2. EpubAt(p, cfi, percent, span) =
             [cfi |-> c, percent |-> q, span |-> s, audio |-> None, file |-> None]
      BY DEF EpubAt
    <2> HIDE DEF c, q, s
    <2>3. None \in MaybePlace /\ None \in MaybeFile
      BY DEF MaybePlace, MaybeFile
    <2> QED BY <2>1, <2>2, <2>3 DEF Sound, Position
  <1>2. ASSUME NEW p \in Places, NEW k \in MaybeFile
        PROVE  Sound([cfi |-> None, percent |-> None, span |-> None,
                      audio |-> p, file |-> k])
    BY DEF Sound, Position, MaybePlace
  <1>3. ASSUME NEW f \in Formats, NEW p \in posted(f), f = "epub" PROVE Sound(p)
    <2>1. PICK q \in Places :
             \/ p = EpubAt(q, TRUE, FALSE, FALSE)
             \/ p = EpubAt(q, FALSE, TRUE, FALSE)
             \/ p = EpubAt(q, TRUE, TRUE, FALSE)
      <3>1. PICK q \in Places,
                 has \in {<<TRUE, FALSE>>, <<FALSE, TRUE>>, <<TRUE, TRUE>>} :
                p = EpubAt(q, has[1], has[2], FALSE)
        <4> DEFINE E(q, has) == EpubAt(q, has[1], has[2], FALSE)
                   H == {<<TRUE, FALSE>>, <<FALSE, TRUE>>, <<TRUE, TRUE>>}
        <4>1. posted(f) = {E(q, has) : q \in Places, has \in H}
          BY <1>3 DEF posted
        <4>2. \E q \in Places, has \in H : p = E(q, has)
          <5> HIDE DEF E, H
          <5> QED BY <1>3, <4>1
        <4> QED BY <4>2
      <3>2. CASE has = <<TRUE, FALSE>>
        <4>1. has[1] = TRUE /\ has[2] = FALSE
          BY <3>2
        <4>2. p = EpubAt(q, TRUE, FALSE, FALSE)
          BY <3>1, <4>1
        <4> QED BY <4>2
      <3>3. CASE has = <<FALSE, TRUE>>
        <4>1. has[1] = FALSE /\ has[2] = TRUE
          BY <3>3
        <4>2. p = EpubAt(q, FALSE, TRUE, FALSE)
          BY <3>1, <4>1
        <4> QED BY <4>2
      <3>4. CASE has = <<TRUE, TRUE>>
        <4>1. has[1] = TRUE /\ has[2] = TRUE
          BY <3>4
        <4>2. p = EpubAt(q, TRUE, TRUE, FALSE)
          BY <3>1, <4>1
        <4> QED BY <4>2
      <3> QED BY <3>2, <3>3, <3>4
    <2>2. /\ Sound(EpubAt(q, TRUE, FALSE, FALSE))
          /\ Sound(EpubAt(q, FALSE, TRUE, FALSE))
          /\ Sound(EpubAt(q, TRUE, TRUE, FALSE))
      BY <1>1
    <2> QED BY <2>1, <2>2
  <1>4. ASSUME NEW f \in Formats, NEW p \in posted(f), f # "epub" PROVE Sound(p)
    <2>1. PICK q \in Places : \E k \in MaybeFile :
              p = [cfi |-> None, percent |-> None, span |-> None,
                   audio |-> q, file |-> k]
      BY <1>4 DEF posted
    <2> QED BY <1>2, <2>1
  <1>5. ASSUME NEW p \in bookmarks PROVE Sound(p)
    <2>1. PICK q \in Places :
             \/ p = EpubAt(q, FALSE, TRUE, FALSE)
             \/ p = EpubAt(q, FALSE, TRUE, TRUE)
             \/ p = EpubAt(q, TRUE, TRUE, TRUE)
             \/ p = EpubAt(q, TRUE, FALSE, TRUE)
      <3>1. PICK q \in Places,
                 has \in {<<FALSE, TRUE, FALSE>>, <<FALSE, TRUE, TRUE>>,
                          <<TRUE, TRUE, TRUE>>, <<TRUE, FALSE, TRUE>>} :
                p = EpubAt(q, has[1], has[2], has[3])
        <4> DEFINE E(q, has) == EpubAt(q, has[1], has[2], has[3])
                   H == {<<FALSE, TRUE, FALSE>>, <<FALSE, TRUE, TRUE>>,
                         <<TRUE, TRUE, TRUE>>, <<TRUE, FALSE, TRUE>>}
        <4>1. bookmarks = {E(q, has) : q \in Places, has \in H}
          BY DEF bookmarks
        <4>2. \E q \in Places, has \in H : p = E(q, has)
          <5> HIDE DEF E, H
          <5> QED BY <1>5, <4>1
        <4> QED BY <4>2
      <3>2. CASE has = <<FALSE, TRUE, FALSE>>
        <4>1. has[1] = FALSE /\ has[2] = TRUE /\ has[3] = FALSE
          BY <3>2
        <4>2. p = EpubAt(q, FALSE, TRUE, FALSE)
          BY <3>1, <4>1
        <4> QED BY <4>2
      <3>3. CASE has = <<FALSE, TRUE, TRUE>>
        <4>1. has[1] = FALSE /\ has[2] = TRUE /\ has[3] = TRUE
          BY <3>3
        <4>2. p = EpubAt(q, FALSE, TRUE, TRUE)
          BY <3>1, <4>1
        <4> QED BY <4>2
      <3>4. CASE has = <<TRUE, TRUE, TRUE>>
        <4>1. has[1] = TRUE /\ has[2] = TRUE /\ has[3] = TRUE
          BY <3>4
        <4>2. p = EpubAt(q, TRUE, TRUE, TRUE)
          BY <3>1, <4>1
        <4> QED BY <4>2
      <3>5. CASE has = <<TRUE, FALSE, TRUE>>
        <4>1. has[1] = TRUE /\ has[2] = FALSE /\ has[3] = TRUE
          BY <3>5
        <4>2. p = EpubAt(q, TRUE, FALSE, TRUE)
          BY <3>1, <4>1
        <4> QED BY <4>2
      <3> QED BY <3>2, <3>3, <3>4, <3>5
    <2>2. /\ Sound(EpubAt(q, FALSE, TRUE, FALSE))
          /\ Sound(EpubAt(q, FALSE, TRUE, TRUE))
          /\ Sound(EpubAt(q, TRUE, TRUE, TRUE))
          /\ Sound(EpubAt(q, TRUE, FALSE, TRUE))
      BY <1>1
    <2> QED BY <2>1, <2>2
  <1>6. ASSUME NEW p \in pushes PROVE Sound(p)
    <2> DEFINE E(q, b) == EpubAt(q, b, TRUE, FALSE)
               B == BOOLEAN
    <2>1. pushes = {E(q, b) : q \in Places, b \in B}
      BY DEF pushes
    <2>2. \A q \in Places, b \in B : Sound(E(q, b))
      BY <1>1
    <2> HIDE DEF E, B
    <2> QED BY <2>1, <2>2
  <1> QED BY <1>3, <1>4, <1>5, <1>6

(* An event time is clamped to the server's clock. *)
LEMMA Clamped ==
    ASSUME now \in Time, NEW at \in Time
    PROVE  /\ Min({at, now}) \in Time /\ Min({at, now}) <= now
           /\ Min({at, now}) = IF at <= now THEN at ELSE now
  <1>1. at \in Int /\ now \in Int
    BY TimeIsNumber
  <1> QED BY <1>1, MinOfTwo

(* A status set by the reader is a status, and no longer one a position    *)
(* began (read_status set_read_status_tx, set_read_status_at_tx).          *)
LEMMA StatusSet ==
    ASSUME TypeOK, NEW s \in Status, NEW at \in Time,
           NEW st \in StatusRow \cup {None}
    PROVE  /\ set_read_status_tx(s, st) \in StatusRow
           /\ ~set_read_status_tx(s, st).auto
           /\ set_read_status_at_tx(s, at, st) \in StatusRow
           /\ ~set_read_status_at_tx(s, at, st).auto
  <1>1. now \in Time /\ Min({at, now}) \in Time
    BY Clamped DEF TypeOK
  <1>2. \A t \in Time : (IF s # "finished" THEN None
                         ELSE IF st # None /\ st.finished # None
                              THEN st.finished ELSE t) \in Time \cup {None}
    BY DEF StatusRow
  <1> DEFINE fin(t) == IF s # "finished" THEN None
                       ELSE IF st # None /\ st.finished # None
                            THEN st.finished ELSE t
             m == Min({at, now})
             rec(t) == [status |-> s, at |-> t, auto |-> FALSE,
                        finished |-> fin(t)]
  <1>3. \A t \in Time : rec(t) \in StatusRow /\ ~rec(t).auto
    <2> HIDE DEF fin
    <2> SUFFICES ASSUME NEW t \in Time
                 PROVE  rec(t) \in StatusRow /\ ~rec(t).auto
      OBVIOUS
    <2>1. fin(t) \in Time \cup {None}
      BY <1>2 DEF fin
    <2> QED BY <2>1 DEF StatusRow
  <1>4. set_read_status_tx(s, st) = rec(now)
    BY DEF set_read_status_tx
  <1>5. set_read_status_at_tx(s, at, st) =
            IF st # None /\ ~outranks(m, st) THEN st ELSE rec(m)
    BY DEF set_read_status_at_tx
  <1>6. st # None /\ ~outranks(m, st) => st \in StatusRow /\ ~st.auto
    BY DEF outranks
  <1> HIDE DEF rec, m
  <1> QED BY <1>1, <1>3, <1>4, <1>5, <1>6 DEF m

(* What the history remembers of a choice. *)
LEMMA Chosen ==
    ASSUME TypeOK, Sane(chosen, now), NEW s \in Status, NEW at \in Time,
           at <= now, chooses(s, at)
    PROVE  /\ chosen' \in Choice /\ Sane(chosen', now)
           /\ chosen' # None
           /\ chosen # None /\ chosen.unread => chosen'.unread
           /\ \/ /\ chosen # None /\ at < chosen.at
                 /\ chosen'.status = chosen.status /\ chosen'.at = chosen.at
              \/ /\ ~(chosen # None /\ at < chosen.at)
                 /\ chosen'.status = s /\ chosen'.at = at
  <1> DEFINE u == s = "unread" \/ (chosen # None /\ chosen.unread)
  <1>1. chosen' = IF chosen # None /\ at < chosen.at
                  THEN [chosen EXCEPT !.unread = u]
                  ELSE [status |-> s, at |-> at, unread |-> u]
    BY DEF chooses
  <1>2. chosen # None => chosen \in Choice
    BY DEF TypeOK
  <1>3. u \in BOOLEAN /\ (s = "unread" => u)
        /\ (chosen # None /\ chosen.unread => u)
    BY <1>2 DEF Choice
  <1> HIDE DEF u
  <1>4. CASE chosen # None /\ at < chosen.at
    <2>1. chosen' = [chosen EXCEPT !.unread = u]
      BY <1>1, <1>4
    <2>2. chosen' \in Choice /\ chosen'.status = chosen.status
          /\ chosen'.at = chosen.at /\ chosen'.unread = u
      BY <1>2, <1>3, <1>4, <2>1 DEF Choice
    <2> QED BY <1>3, <1>4, <2>2, Rows DEF Sane
  <1>5. CASE ~(chosen # None /\ at < chosen.at)
    <2>1. chosen' = [status |-> s, at |-> at, unread |-> u]
      BY <1>1, <1>5
    <2>2. chosen' \in Choice /\ chosen'.status = s
          /\ chosen'.at = at /\ chosen'.unread = u
      BY <1>3, <2>1 DEF Choice
    <2> QED BY <1>3, <1>5, <2>2, Rows DEF Sane
  <1> QED BY <1>4, <1>5

(* StartedOrChosen is that a stored position has a status and that the     *)
(* status stands by the choice.                                            *)
LEMMA StandsBy ==
    StartedOrChosen <=> /\ (\E f \in Formats : row[f] # None) => status # None
                        /\ Stands(status, chosen, delivered)
  BY DEF StartedOrChosen, Stands

(* A status chosen now stands. *)
LEMMA ChoiceNow ==
    ASSUME TypeOK, Sane(chosen, now), NEW s \in Status, chooses(s, now)
    PROVE  Stands(set_read_status_tx(s, status), chosen', delivered)
  <1> DEFINE st == set_read_status_tx(s, status)
  <1>1. st.status = s /\ st.at = now /\ ~st.auto /\ st \in StatusRow
    <2>1. now \in Time /\ status \in StatusRow \cup {None}
      BY DEF TypeOK
    <2> QED BY <2>1, StatusSet DEF set_read_status_tx
  <1>2. now \in Time /\ now <= now /\ now \in Nat
    BY TimeIsNumber DEF TypeOK
  <1>3. ~(chosen # None /\ now < chosen.at)
    <2>1. chosen # None => chosen.at \in Nat /\ chosen.at <= now
      BY TimeIsNumber DEF TypeOK, Choice, Sane
    <2> QED BY <1>2, <2>1
  <1>4. chosen' # None /\ chosen'.status = s /\ chosen'.at = now
    BY <1>2, <1>3, Chosen
  <1> HIDE DEF st
  <1>5. Stands(st, chosen', delivered)
    BY <1>1, <1>4, Rows DEF Stands
  <1> QED BY <1>5 DEF st

(* A status chosen for an earlier moment stands, or is the older choice,   *)
(* or comes after a position began the book again.                         *)
LEMMA ChoiceAt ==
    ASSUME TypeOK, Sane(chosen, now), Stands(status, chosen, delivered),
           NEW s \in Status, NEW at \in Time, chooses(s, Min({at, now}))
    PROVE  Stands(set_read_status_at_tx(s, at, status), chosen', delivered)
  <1> DEFINE m == Min({at, now})
             st == set_read_status_at_tx(s, at, status)
             fin == IF s # "finished" THEN None
                    ELSE IF status # None /\ status.finished # None
                         THEN status.finished ELSE m
             rec == [status |-> s, at |-> m, auto |-> FALSE, finished |-> fin]
  <1>1. m \in Time /\ m <= now /\ m \in Nat
    BY Clamped, TimeIsNumber DEF TypeOK
  <1>2. st = IF status # None /\ ~outranks(m, status) THEN status ELSE rec
    BY DEF set_read_status_at_tx
  <1>3. chooses(s, m)
    OBVIOUS
  <1>4. rec.status = s /\ rec.at = m /\ rec.auto = FALSE
    OBVIOUS
  <1>5. rec # None
    <2>1. status \in StatusRow \cup {None}
      BY DEF TypeOK
    <2>2. fin \in Time \cup {None}
      BY <1>1, <2>1 DEF StatusRow
    <2> HIDE DEF fin, m
    <2>3. rec \in StatusRow
      BY <1>1, <2>2 DEF StatusRow
    <2> HIDE DEF rec
    <2> QED BY <2>3, Rows
  <1> HIDE DEF m, st, rec, fin
  <1>6. /\ chosen' # None
        /\ chosen # None /\ chosen.unread => chosen'.unread
        /\ \/ /\ chosen # None /\ m < chosen.at
              /\ chosen'.status = chosen.status /\ chosen'.at = chosen.at
           \/ /\ ~(chosen # None /\ m < chosen.at)
              /\ chosen'.status = s /\ chosen'.at = m
    BY <1>1, <1>3, Chosen
  <1>7. chosen # None => chosen.at \in Nat
    BY TimeIsNumber DEF TypeOK, Choice
  <1>8. status # None => status.at \in Nat /\ status.auto \in BOOLEAN
    BY TimeIsNumber DEF TypeOK, StatusRow
  <1>9. chosen # None => status # None /\ ~status.auto /\ chosen.at <= status.at
    BY <1>7, <1>8 DEF Stands
  <1>10. ASSUME status # None, ~outranks(m, status)
         PROVE  Stands(st, chosen', delivered)
    <2>1. st = status /\ m < status.at /\ ~status.auto
      BY <1>1, <1>2, <1>8, <1>10 DEF outranks
    <2>2. chosen # None
      BY <1>10, <2>1 DEF Stands
    <2>3. \/ status.status = chosen.status /\ status.at = chosen.at
          \/ /\ status.status = "reading" /\ chosen.unread
             /\ \E d \in delivered : d.stamp = status.at
             /\ \/ chosen.at < status.at
                \/ chosen.at = status.at /\ chosen.status = "unread"
      BY <2>2 DEF Stands
    <2>4. CASE m < chosen.at
      <3>1. chosen'.status = chosen.status /\ chosen'.at = chosen.at
        BY <1>6, <2>2, <2>4
      <3>2. chosen.unread => chosen'.unread
        BY <1>6, <2>2
      <3>3. \/ status.status = chosen'.status /\ status.at = chosen'.at
            \/ /\ status.status = "reading" /\ chosen'.unread
               /\ \E d \in delivered : d.stamp = status.at
               /\ \/ chosen'.at < status.at
                  \/ chosen'.at = status.at /\ chosen'.status = "unread"
        BY <2>3, <3>1, <3>2, Zenon
      <3> QED BY <1>6, <1>10, <2>1, <3>3 DEF Stands
    <2>5. CASE ~(m < chosen.at)
      <3>1. chosen'.status = s /\ chosen'.at = m
        BY <1>6, <2>5
      <3>2. status.at # chosen.at
        BY <1>1, <1>7, <2>1, <2>2, <2>5
      <3>3. /\ status.status = "reading" /\ chosen.unread
            /\ \E d \in delivered : d.stamp = status.at
        BY <2>3, <3>2
      <3>4. chosen'.unread /\ chosen'.at < status.at
        BY <1>6, <2>1, <2>2, <3>1, <3>3
      <3> QED BY <1>6, <1>10, <2>1, <3>3, <3>4 DEF Stands
    <2> QED BY <2>4, <2>5
  <1>11. ASSUME status = None \/ outranks(m, status)
         PROVE  Stands(st, chosen', delivered)
    <2>1. st = rec
      BY <1>2, <1>11
    <2>2. ~(chosen # None /\ m < chosen.at)
      BY <1>1, <1>7, <1>8, <1>9, <1>11 DEF outranks
    <2>3. chosen'.status = s /\ chosen'.at = m
      BY <1>6, <2>2
    <2>4. st # None /\ ~st.auto /\ st.status = chosen'.status /\ st.at = chosen'.at
      BY <1>4, <1>5, <2>1, <2>3
    <2> QED BY <1>6, <2>4 DEF Stands
  <1>12. Stands(st, chosen', delivered)
    BY <1>10, <1>11
  <1> QED BY <1>12 DEF st

(* A position that begins a chosen `unread` leaves a status that stands.   *)
LEMMA UnreadStarted ==
    ASSUME TypeOK, NEW st \in StatusRow, NEW ch \in Choice \cup {None}, NEW D,
           NEW at \in Time, at <= now, Sane(ch, now), Stands(st, ch, D),
           \E d \in D : d.stamp = at
    PROVE  /\ start_unread_at_tx(at, st) \in StatusRow
           /\ Stands(start_unread_at_tx(at, st), ch, D)
  <1> DEFINE su == set_read_status_at_tx("reading", at, st)
  <1>1. st # None /\ "reading" \in Status
    BY Rows DEF Status
  <1>2. su \in StatusRow /\ su # None
    BY <1>1, StatusSet, Rows
  <1>3. CASE st.status # "unread"
    BY <1>3 DEF start_unread_at_tx
  <1>4. CASE st.status = "unread"
    <2>1. start_unread_at_tx(at, st) = su
      BY <1>1, <1>4 DEF start_unread_at_tx
    <2>2. ch # None /\ ~st.auto /\ ch.status = "unread" /\ ch.at = st.at
      BY <1>1, <1>4 DEF Stands
    <2>3. ch.unread
      BY <2>2 DEF Sane
    <2>4. Min({at, now}) = at
      <3>1. now \in Time
        BY DEF TypeOK
      <3> QED BY <3>1, Clamped
    <2>5. st.at \in Nat /\ at \in Nat
      BY TimeIsNumber DEF StatusRow
    <2>6. su = IF ~outranks(at, st) THEN st
               ELSE [status |-> "reading", at |-> at, auto |-> FALSE,
                     finished |-> None]
      BY <1>1, <2>4 DEF set_read_status_at_tx
    <2>7. CASE ~outranks(at, st)
      BY <1>2, <2>1, <2>6, <2>7
    <2>8. CASE outranks(at, st)
      <3>1. st.at <= at
        BY <2>2, <2>5, <2>8 DEF outranks
      <3>2. su.status = "reading" /\ su.at = at /\ su.auto = FALSE
        BY <2>6, <2>8
      <3>3. ch.at < su.at \/ ch.at = su.at
        BY <2>2, <2>5, <3>1, <3>2
      <3> HIDE DEF su
      <3>4. Stands(su, ch, D)
        BY <1>2, <2>2, <2>3, <3>2, <3>3 DEF Stands
      <3> QED BY <1>2, <2>1, <3>4
    <2> QED BY <2>7, <2>8
  <1> QED BY <1>3, <1>4

(* What a derivation works from stays what it is while rows advance and    *)
(* deliveries are remembered.                                              *)
LEMMA OriginKept ==
    ASSUME TypeOK, RowsAdvance, row' \in [Formats -> Row \cup {None}],
           delivered \subseteq delivered',
           NEW place, NEW at \in Time, Origin(place, at)
    PROVE  Origin(place, at)'
  <1>1. "epub" \in Formats /\ row["epub"] # None /\ at <= row["epub"].at
    BY DEF Origin
  <1>2. row'["epub"] # None /\ row["epub"].at <= row'["epub"].at
    BY <1>1 DEF RowsAdvance
  <1>3. /\ row["epub"].at \in Nat /\ row'["epub"].at \in Nat /\ at \in Nat
    BY <1>1, <1>2, TimeIsNumber DEF TypeOK, Row
  <1>4. at <= row'["epub"].at
    BY <1>1, <1>2, <1>3
  <1> QED BY <1>1, <1>2, <1>4 DEF Origin

(* A position write, with whatever status it sets first. *)
LEMMA Delivered ==
    ASSUME IInv, NEW w, w.format \in Formats, Sound(w.position),
           w.at \in Time, NEW told \in StatusRow \cup {None},
           status # None => told # None,
           chosen' \in Choice \cup {None}, Sane(chosen', now),
           Stands(told, chosen', delivered),
           NEW starts \in BOOLEAN, Deliver(w, told, starts)
    PROVE  IInv'
  <1> DEFINE f == w.format
             at == stamp(w)
             kept == surviving(f, w.position, at)
             started == mark_started(kept.at, told)
  <1>1. /\ at \in Time /\ at \in Nat /\ now \in Time /\ now \in Nat /\ at <= now
    <2>1. now \in Time
      BY DEF IInv, TypeOK
    <2> QED BY <2>1, Clamped, TimeIsNumber DEF stamp
  <1>2. /\ messages' \in 0 .. MaxMessages
        /\ UNCHANGED <<now, walk, enrich, crashes>>
    <2>1. messages < MaxMessages /\ messages' = messages + 1
          /\ messages \in 0 .. MaxMessages
      BY DEF Deliver, IInv, TypeOK
    <2> QED BY <2>1, Bounds DEF Deliver
  <1>3. TypeOK /\ Ledger
    BY DEF IInv
  <1>4. CASE is_audio_teardown_zero_write(f, w.position)
    <2>1. /\ observe_nothing /\ status' = told
          /\ UNCHANGED <<row, spawning, delivered>>
      BY <1>4 DEF Deliver
    <2>2. RowsAdvance /\ row' \in [Formats -> Row \cup {None}]
      BY <1>3, <2>1, Numbers DEF RowsAdvance, TypeOK
    <2>3. Ledger'
      BY <1>3, <2>1, <2>2, UnobservedLedger
    <2>4. TypeOK'
      BY <1>2, <2>1 DEF IInv, TypeOK, observe_nothing
    <2>5. Derivations' /\ Observed' /\ NewestPositionStands' /\ HalvesOfOneMoment'
      BY <1>2, <2>1 DEF IInv, Derivations, Origin, Observed,
         NewestPositionStands, HalvesOfOneMoment, observe_nothing
    <2>6. StartedOrChosen' /\ Sane(chosen, now)'
      BY <1>2, <2>1 DEF IInv, StartedOrChosen, Stands, Sane
    <2> QED BY <2>3, <2>4, <2>5, <2>6 DEF IInv
  <1>5. CASE ~is_audio_teardown_zero_write(f, w.position)
    <2>1. /\ row' = [row EXCEPT ![f] = kept]
          /\ status' = IF starts /\ kept.at <= w.at
                       THEN start_unread_at_tx(kept.at, started)
                       ELSE started
          /\ IF kept.position.percent = None THEN observe_nothing
             ELSE observe_percent_tx(f, kept.position.percent, kept.at)
          /\ spawning' =
               IF w.via = "post" /\ f = "epub" /\ needs_walk(kept)
               THEN spawning \cup {[place |-> kept.position.cfi, at |-> kept.at]}
               ELSE spawning
          /\ delivered' = IF loses(f, w.position, at) /\ at >= row[f].at
                          THEN delivered
                          ELSE delivered \cup {offer(w, at)}
      BY <1>5 DEF Deliver
    <2>2. /\ loses(f, w.position, at) => row[f] # None /\ kept = row[f]
          /\ ~loses(f, w.position, at) =>
                /\ kept = [position |-> w.position, at |-> at]
                /\ row[f] = None \/ ~(at < row[f].at)
      BY DEF surviving, loses
    <2>3. /\ row[f] # None => row[f] \in Row /\ row[f].at \in Nat
                              /\ row[f].at <= now
          /\ row \in [Formats -> Row \cup {None}]
      BY <1>3, Numbers DEF TypeOK
    <2>4. /\ kept \in Row /\ kept # None /\ kept.at \in Time /\ kept.at \in Nat
          /\ kept.at <= now
          /\ row[f] # None => row[f].at <= kept.at
      <3>1. CASE loses(f, w.position, at)
        BY <2>2, <2>3, <3>1 DEF Row
      <3>2. CASE ~loses(f, w.position, at)
        <4>1. kept = [position |-> w.position, at |-> at]
          BY <2>2, <3>2
        <4>2. kept \in Row /\ kept.at = at
          BY <1>1, <4>1 DEF Row, Sound
        <4>3. row[f] # None => row[f].at <= at
          BY <1>1, <2>2, <2>3, <3>2
        <4> QED BY <1>1, <4>2, <4>3, Rows
      <3> QED BY <3>1, <3>2
    <2>5. offer(w, at) \in [format : Formats, position : Position, stamp : Time]
          /\ offer(w, at).format = f /\ offer(w, at).stamp = at
          /\ offer(w, at).position = w.position
      BY <1>1, TimeIsNumber DEF offer, Sound
    <2>6. \/ loses(f, w.position, at) /\ delivered' = delivered
          \/ /\ loses(f, w.position, at) /\ at < row[f].at
             /\ delivered' = delivered \cup {offer(w, at)}
          \/ /\ ~loses(f, w.position, at)
             /\ delivered' = delivered \cup {offer(w, at)}
      <3>1. loses(f, w.position, at) => (at >= row[f].at \/ at < row[f].at)
        BY <1>1, <2>2, <2>3
      <3>2. CASE loses(f, w.position, at) /\ at >= row[f].at
        BY <2>1, <3>2
      <3>3. CASE loses(f, w.position, at) /\ at < row[f].at /\ ~(at >= row[f].at)
        BY <2>1, <3>3
      <3>4. CASE ~loses(f, w.position, at)
        BY <2>1, <3>4
      <3>5. loses(f, w.position, at) /\ at < row[f].at => ~(at >= row[f].at)
        BY <1>1, <2>2, <2>3
      <3> QED BY <3>1, <3>2, <3>3, <3>4, <3>5
    <2>7. /\ row' \in [Formats -> Row \cup {None}] /\ row'[f] = kept
          /\ \A g \in Formats : g # f => row'[g] = row[g]
      BY <2>1, <2>3, <2>4
    <2>8. RowsAdvance
      <3> SUFFICES ASSUME NEW g \in Formats, row[g] # None
                   PROVE  row'[g] # None /\ row[g].at <= row'[g].at
        BY DEF RowsAdvance
      <3>1. CASE g = f
        BY <2>4, <2>7, <3>1
      <3>2. CASE g # f
        BY <1>3, <2>7, <3>2, Numbers
      <3> QED BY <3>1, <3>2
    <2> HIDE DEF kept, at, started
    <2>9. /\ Ledger'
          /\ mark' \in [Formats -> Mark \cup {None}]
          /\ credited' \in [Formats -> Nat]
          /\ heard' \in [Formats -> SUBSET Observation]
          /\ kept.position.percent # None =>
                [place |-> kept.position.percent, at |-> kept.at] \in heard'[f]
          /\ \A g \in Formats : heard[g] \subseteq heard'[g]
      <3>1. CASE kept.position.percent = None
        <4>1. observe_nothing
          BY <2>1, <3>1
        <4>2. Ledger'
          BY <1>3, <2>7, <2>8, <4>1, UnobservedLedger
        <4> QED BY <1>3, <3>1, <4>1, <4>2 DEF observe_nothing, TypeOK
      <3>2. CASE kept.position.percent # None
        <4> DEFINE pl == kept.position.percent
                   ka == kept.at
        <4>1. pl \in Places /\ ka \in Time
          BY <2>4, <3>2 DEF Row, Position, MaybePlace
        <4>2. observe_percent_tx(f, pl, ka)
          BY <2>1, <3>2
        <4>3. row'[f] # None /\ ka <= row'[f].at
          BY <2>4, <2>7
        <4> HIDE DEF pl, ka
        <4>4. /\ Ledger'
              /\ mark' \in [Formats -> Mark \cup {None}]
              /\ credited' \in [Formats -> Nat]
              /\ heard' \in [Formats -> SUBSET Observation]
              /\ [place |-> pl, at |-> ka] \in heard'[f]
              /\ \A g \in Formats : heard[g] \subseteq heard'[g]
          BY <1>3, <2>7, <2>8, <4>1, <4>2, <4>3, ObservedLedger
        <4> QED BY <4>4 DEF pl, ka
      <3> QED BY <3>1, <3>2
    <2>10. delivered \subseteq delivered'
           /\ delivered' \subseteq
                 [format : Formats, position : Position, stamp : Time]
      BY <1>3, <2>5, <2>6 DEF TypeOK
    <2>11. started \in StatusRow /\ (told # None => started = told)
      BY <2>4, Rows DEF started, mark_started, StatusRow, Status
    <2>12. status' \in StatusRow
      <3> DEFINE su == start_unread_at_tx(kept.at, started)
      <3>1. su \in StatusRow
        <4>1. "reading" \in Status
          BY DEF Status
        <4>2. set_read_status_at_tx("reading", kept.at, started) \in StatusRow
          BY <1>3, <2>4, <2>11, <4>1, StatusSet
        <4> QED BY <2>11, <4>2 DEF start_unread_at_tx
      <3>2. status' = su \/ status' = started
        BY <2>1
      <3> HIDE DEF su
      <3> QED BY <2>11, <3>1, <3>2
    <2>13. spawning' \subseteq Observation
           /\ \A r \in spawning' : r \in spawning \/
                 /\ f = "epub" /\ kept.position.cfi # None
                 /\ r = [place |-> kept.position.cfi, at |-> kept.at]
      <3>1. kept.position.cfi # None => kept.position.cfi \in Places
        BY <2>4 DEF Row, Position, MaybePlace
      <3>2. needs_walk(kept) => kept.position.cfi # None
        BY DEF needs_walk
      <3>3. kept.position.cfi # None =>
              [place |-> kept.position.cfi, at |-> kept.at] \in Observation
        BY <2>4, <3>1 DEF Observation
      <3> QED BY <1>3, <2>1, <3>2, <3>3 DEF TypeOK
    <2>14. \A g \in Formats : row'[g] # None => row'[g].at <= now
      BY <1>3, <2>4, <2>7 DEF TypeOK
    <2>15. TypeOK'
      BY <1>2, <1>3, <2>7, <2>9, <2>10, <2>12, <2>13, <2>14 DEF TypeOK
    <2>16. NewestPositionStands'
      <3> SUFFICES ASSUME NEW g \in Formats
                   PROVE  /\ \A d \in delivered' : d.format = g =>
                                row'[g] # None /\ d.stamp <= row'[g].at
                          /\ row'[g] # None => \E d \in delivered' :
                                d.format = g /\ d.stamp = row'[g].at
        BY DEF NewestPositionStands
      <3>1. /\ \A d \in delivered : d.format = g =>
                  row[g] # None /\ d.stamp <= row[g].at
            /\ row[g] # None => \E d \in delivered :
                  d.format = g /\ d.stamp = row[g].at
        BY DEF IInv, NewestPositionStands
      <3>2. CASE g # f
        BY <2>5, <2>6, <2>7, <3>1, <3>2
      <3>3. CASE g = f
        <4>1. ASSUME NEW d \in delivered, d.format = f
              PROVE  d.stamp <= kept.at
          <5>1. d.stamp \in Nat /\ row[f] # None /\ d.stamp <= row[f].at
            BY <1>3, <3>1, <3>3, <4>1, TimeIsNumber DEF TypeOK
          <5> QED BY <2>3, <2>4, <5>1
        <4>2. CASE loses(f, w.position, at)
          <5>1. kept = row[f] /\ row[f] # None
            BY <2>2, <4>2 DEF kept
          <5>2. at < row[f].at => at <= kept.at
            BY <1>1, <2>4, <5>1
          <5> QED BY <2>4, <2>5, <2>6, <2>7, <2>10, <3>1, <3>3, <4>1, <4>2, <5>1, <5>2
        <4>3. CASE ~loses(f, w.position, at)
          <5>1. kept.at = at
            BY <2>2, <4>3 DEF kept, at
          <5>2. at <= at
            BY <1>1
          <5> QED BY <2>4, <2>5, <2>6, <2>7, <3>3, <4>1, <4>3, <5>1, <5>2
        <4> QED BY <4>2, <4>3
      <3> QED BY <3>2, <3>3
    <2>17. HalvesOfOneMoment'
      <3> SUFFICES ASSUME NEW g \in Formats, row'[g] # None,
                          NEW half \in {"cfi", "percent", "span", "audio"},
                          row'[g].position[half] # None
                   PROVE  \E d \in delivered' :
                             /\ d.format = g /\ d.stamp = row'[g].at
                             /\ row'[g].position[half] \in
                                   {d.position[h] : h \in {"cfi", "percent", "audio"}}
        BY DEF HalvesOfOneMoment
      <3>1. CASE row'[g] = row[g]
        BY <2>10, <3>1 DEF IInv, HalvesOfOneMoment
      <3>2. CASE row'[g] # row[g]
        <4>1. g = f /\ ~loses(f, w.position, at)
          BY <2>2, <2>7, <3>2 DEF kept
        <4>2. kept.at = at /\ kept.position = w.position
          BY <2>2, <4>1 DEF kept, at
        <4>3. w.position[half] \in
                 {w.position[h] : h \in {"cfi", "percent", "audio"}}
          BY <2>7, <4>1, <4>2 DEF Sound
        <4> QED BY <2>5, <2>6, <2>7, <4>1, <4>2, <4>3
      <3> QED BY <3>1, <3>2
    <2>18. Derivations'
      <3>1. \A r \in spawning' : Origin(r.place, r.at)'
        <4> SUFFICES ASSUME NEW r \in spawning' PROVE Origin(r.place, r.at)'
          OBVIOUS
        <4>1. CASE r \in spawning
          <5>1. Origin(r.place, r.at) /\ r.at \in Time
            BY <1>3, <4>1 DEF IInv, Derivations, TypeOK, Observation
          <5> QED BY <1>3, <2>7, <2>8, <2>10, <5>1, OriginKept
        <4>2. CASE /\ f = "epub" /\ kept.position.cfi # None
                   /\ r = [place |-> kept.position.cfi, at |-> kept.at]
          <5>1. row'["epub"] = kept /\ "epub" \in Formats
            BY <2>7, <4>2
          <5>2. \E d \in delivered' :
                   /\ d.format = "epub" /\ d.stamp = kept.at
                   /\ kept.position["cfi"] \in
                         {d.position[h] : h \in {"cfi", "percent", "audio"}}
            BY <2>4, <2>17, <4>2, <5>1 DEF HalvesOfOneMoment
          <5>3. kept.at <= kept.at
            BY <2>4
          <5> QED BY <2>4, <4>2, <5>1, <5>2, <5>3 DEF Origin
        <4> QED BY <2>13, <4>1, <4>2
      <3>2. walk' # None => Origin(walk.place, walk.at)'
        <4> SUFFICES ASSUME walk # None PROVE Origin(walk.place, walk.at)'
          BY <1>2
        <4>1. Origin(walk.place, walk.at) /\ walk.at \in Time
          BY <1>3 DEF IInv, Derivations, TypeOK, Derivation
        <4>2. walk' = walk
          BY <1>2
        <4> DEFINE pl == walk.place
                   wa == walk.at
        <4>3. Origin(pl, wa) /\ wa \in Time /\ pl' = pl /\ wa' = wa
          BY <4>1, <4>2
        <4> QED BY <1>3, <2>7, <2>8, <2>10, <4>1, <4>2, OriginKept DEF Origin
      <3>3. enrich' # None => Origin(enrich.place, enrich.at)'
        <4> SUFFICES ASSUME enrich # None PROVE Origin(enrich.place, enrich.at)'
          BY <1>2
        <4>1. Origin(enrich.place, enrich.at) /\ enrich.at \in Time
          BY <1>3 DEF IInv, Derivations, TypeOK, Derivation
        <4>2. enrich' = enrich
          BY <1>2
        <4> QED BY <1>3, <2>7, <2>8, <2>10, <4>1, <4>2, OriginKept DEF Origin
      <3> QED BY <3>1, <3>2, <3>3 DEF Derivations
    <2>19. Observed'
      <3> SUFFICES ASSUME NEW d \in delivered',
                          d.stamp = row'[d.format].at, d.position.percent # None
                   PROVE  [place |-> d.position.percent, at |-> d.stamp]
                             \in heard'[d.format]
        BY DEF Observed
      <3>1. CASE d \in delivered
        <4>1. d.format \in Formats /\ d.stamp \in Nat
          BY <1>3, <3>1, TimeIsNumber DEF TypeOK
        <4>2. row[d.format] # None /\ d.stamp <= row[d.format].at
          BY <3>1, <4>1 DEF IInv, NewestPositionStands
        <4>3. row[d.format].at <= row'[d.format].at /\ row[d.format].at \in Nat
          BY <1>3, <2>8, <4>1, <4>2, Numbers DEF RowsAdvance
        <4>4. d.stamp = row[d.format].at
          BY <4>1, <4>2, <4>3
        <4>5. [place |-> d.position.percent, at |-> d.stamp] \in heard[d.format]
          BY <3>1, <4>4 DEF IInv, Observed
        <4> QED BY <2>9, <4>1, <4>5
      <3>2. CASE d \notin delivered
        <4>1. d = offer(w, at)
          BY <2>6, <3>2
        <4>2. d.format = f /\ d.stamp = at /\ d.position = w.position
              /\ row'[f] = kept
          BY <2>5, <2>7, <4>1
        <4>3. ~loses(f, w.position, at)
          <5>1. CASE loses(f, w.position, at) /\ at < row[f].at
            <6>1. kept.at = row[f].at
              BY <2>2, <5>1 DEF kept
            <6> QED BY <1>1, <2>4, <4>2, <5>1, <6>1
          <5> QED BY <2>6, <3>2, <5>1
        <4>4. kept.position = w.position /\ kept.at = at
          BY <2>2, <4>3 DEF kept, at
        <4> QED BY <2>9, <4>2, <4>4
      <3> QED BY <3>1, <3>2
    <2>20. StartedOrChosen' /\ Sane(chosen, now)'
      <3>1. Stands(started, chosen', delivered')
        <4>1. CASE told = None
          <5>1. chosen' = None
            BY <4>1 DEF Stands
          <5>2. started.auto /\ started.status = "reading"
            BY <4>1 DEF started, mark_started
          <5> QED BY <5>1, <5>2 DEF Stands
        <4>2. CASE told # None
          <5>1. started = told
            BY <2>11, <4>2
          <5> QED BY <2>10, <5>1 DEF Stands
        <4> QED BY <4>1, <4>2
      <3>2. PICK d \in delivered' : d.stamp = kept.at
        BY <2>4, <2>7, <2>16 DEF NewestPositionStands
      <3> DEFINE ch == chosen'
                 D == delivered'
                 ka == kept.at
                 su == start_unread_at_tx(ka, started)
      <3>3. /\ ch \in Choice \cup {None} /\ ka \in Time /\ ka <= now
            /\ Sane(ch, now) /\ Stands(started, ch, D)
            /\ \E e \in D : e.stamp = ka
        BY <2>4, <3>1, <3>2
      <3>4. status' = su \/ status' = started
        BY <2>1
      <3> HIDE DEF ch, D, ka
      <3>5. Stands(su, ch, D)
        BY <1>3, <2>11, <3>3, UnreadStarted
      <3> HIDE DEF su
      <3>6. Stands(status', ch, D)
        BY <3>3, <3>4, <3>5
      <3>7. Stands(status, chosen, delivered)'
        BY <3>6 DEF ch, D, Stands
      <3>8. status' # None
        BY <2>12, Rows
      <3> QED BY <1>2, <3>7, <3>8 DEF StartedOrChosen, Stands, Sane
    <2> QED BY <2>9, <2>15, <2>16, <2>17, <2>18, <2>19, <2>20 DEF IInv
  <1> QED BY <1>4, <1>5

-----------------------------------------------------------------------------
(* One lemma per action. *)

(* Event times are times. *)
LEMMA EventTimes == TypeOK => EventTime \subseteq Time
  <1> SUFFICES ASSUME TypeOK PROVE EventTime \subseteq Time
    OBVIOUS
  <1>1. now + MaxAhead \in Int /\ MaxTime \in Int
    BY Bounds, TimeIsNumber DEF TypeOK
  <1>2. Min({now + MaxAhead, MaxTime}) <= MaxTime
        /\ Min({now + MaxAhead, MaxTime}) \in Int
    BY <1>1, MinOfTwo
  <1> QED BY <1>1, <1>2 DEF EventTime, Time

(* POST /api/progress keeps the invariant. *)
LEMMA step_post_progress ==
    ASSUME IInv, post_progress
    PROVE  IInv'
  <1>0. PICK f \in Formats : \E p \in posted(f), at \in EventTime :
           Deliver([via |-> "post", format |-> f, position |-> p, at |-> at],
                   status, FALSE)
    BY DEF post_progress
  <1>1. PICK p \in posted(f), at \in EventTime :
           Deliver([via |-> "post", format |-> f, position |-> p, at |-> at],
                   status, FALSE)
    BY <1>0
  <1> DEFINE w == [via |-> "post", format |-> f, position |-> p, at |-> at]
  <1>2. w.format \in Formats /\ Sound(w.position) /\ w.at \in Time
    BY Offers, EventTimes DEF IInv
  <1>3. /\ status \in StatusRow \cup {None} /\ chosen' \in Choice \cup {None}
        /\ Sane(chosen', now) /\ Stands(status, chosen', delivered)
    BY StandsBy DEF IInv, TypeOK, post_progress
  <1>4. Deliver(w, status, FALSE)
    BY <1>1
  <1> HIDE DEF w
  <1> QED BY <1>2, <1>3, <1>4, Delivered

(* A Kobo bookmark keeps the invariant. *)
LEMMA step_persist_bookmark ==
    ASSUME IInv, persist_bookmark
    PROVE  IInv'
  <1>1. PICK p \in bookmarks, at \in EventTime :
           Deliver([via |-> "kobo", format |-> "epub", position |-> p, at |-> at],
                   status, FALSE)
    BY DEF persist_bookmark
  <1> DEFINE w == [via |-> "kobo", format |-> "epub", position |-> p, at |-> at]
  <1>2. w.format \in Formats /\ Sound(w.position) /\ w.at \in Time
    BY Offers, EventTimes DEF IInv, persist_bookmark
  <1>3. /\ status \in StatusRow \cup {None} /\ chosen' \in Choice \cup {None}
        /\ Sane(chosen', now) /\ Stands(status, chosen', delivered)
    BY StandsBy DEF IInv, TypeOK, persist_bookmark
  <1>4. Deliver(w, status, FALSE)
    BY <1>1
  <1> HIDE DEF w
  <1> QED BY <1>2, <1>3, <1>4, Delivered

(* The reader chooses from statuses. *)
LEMMA ChoicesAreStatuses == Chooses \subseteq Status
  BY ReadingConstants DEF Status

(* A KOReader push, with a status or without, keeps the invariant. *)
LEMMA step_koreader_push ==
    ASSUME IInv, koreader_push
    PROVE  IInv'
  <1> DEFINE W(p, at) == [via |-> "koreader", format |-> "epub",
                          position |-> p, at |-> at]
  <1>1. PICK p \in pushes, at \in EventTime :
           \/ Deliver(W(p, at), status, TRUE) /\ UNCHANGED chosen
           \/ \E s \in read_status_for :
                  /\ chooses(s, Min({at, now}))
                  /\ Deliver(W(p, at), set_read_status_at_tx(s, at, status), FALSE)
    BY DEF koreader_push
  <1> DEFINE w == W(p, at)
  <1>2. w.format \in Formats /\ Sound(w.position) /\ w.at \in Time /\ at \in Time
    BY Offers, EventTimes DEF IInv, koreader_push
  <1>3. /\ status \in StatusRow \cup {None} /\ TypeOK /\ now \in Time
        /\ Sane(chosen, now) /\ Stands(status, chosen, delivered)
        /\ chosen \in Choice \cup {None}
    BY StandsBy DEF IInv, TypeOK
  <1>4. CASE Deliver(w, status, TRUE) /\ UNCHANGED chosen
    <2>1. Deliver(w, status, TRUE) /\ chosen' = chosen
      BY <1>4
    <2>2. /\ chosen' \in Choice \cup {None} /\ Sane(chosen', now)
          /\ Stands(status, chosen', delivered)
      BY <1>3, <2>1
    <2> HIDE DEF w
    <2> QED BY <1>2, <1>3, <2>1, <2>2, Delivered
  <1>5. ASSUME NEW s \in read_status_for, chooses(s, Min({at, now})),
               Deliver(w, set_read_status_at_tx(s, at, status), FALSE)
        PROVE  IInv'
    <2> DEFINE told == set_read_status_at_tx(s, at, status)
    <2>1. s \in Status
      BY ChoicesAreStatuses DEF read_status_for
    <2>2. told \in StatusRow /\ told # None
      BY <1>2, <1>3, <2>1, StatusSet, Rows
    <2>3. Stands(told, chosen', delivered)
      BY <1>2, <1>3, <1>5, <2>1, ChoiceAt
    <2>4. chosen' \in Choice \cup {None} /\ Sane(chosen', now)
      <3>1. Min({at, now}) \in Time /\ Min({at, now}) <= now
        BY <1>2, <1>3, Clamped
      <3> QED BY <1>3, <1>5, <2>1, <3>1, Chosen
    <2>5. Deliver(w, told, FALSE)
      BY <1>5
    <2> HIDE DEF w, told
    <2> QED BY <1>2, <2>2, <2>3, <2>4, <2>5, Delivered
  <1> QED BY <1>1, <1>4, <1>5

(* What is left alone but the status. *)
LEMMA StatusChanged ==
    ASSUME IInv, messages < MaxMessages, messages' = messages + 1,
           status' \in StatusRow, chosen' \in Choice, Sane(chosen', now),
           Stands(status', chosen', delivered),
           UNCHANGED <<now, row, mark, credited, derivations, delivered, heard,
                       crashes>>
    PROVE  IInv'
  <1>1. messages' \in 0 .. MaxMessages
    BY Bounds DEF IInv, TypeOK
  <1>2. TypeOK'
    BY <1>1 DEF IInv, TypeOK, derivations
  <1>3. StartedOrChosen' /\ Sane(chosen, now)'
    BY Rows DEF StartedOrChosen, Stands, Sane
  <1>4. Derivations' /\ Observed' /\ NewestPositionStands' /\ HalvesOfOneMoment'
    BY DEF IInv, Derivations, Origin, Observed, NewestPositionStands,
           HalvesOfOneMoment, derivations
  <1>5. Ledger'
    BY DEF IInv, Ledger, Marked, OneSitting
  <1> QED BY <1>2, <1>3, <1>4, <1>5 DEF IInv

(* A status the reader chooses now. *)
LEMMA step_choose_status ==
    ASSUME IInv, choose_status
    PROVE  IInv'
  <1>1. PICK s \in Chooses :
           status' = set_read_status_tx(s, status) /\ chooses(s, now)
    BY DEF choose_status
  <1>2. /\ TypeOK /\ Sane(chosen, now) /\ s \in Status
        /\ now \in Time /\ now \in Nat
        /\ status \in StatusRow \cup {None}
    BY ChoicesAreStatuses, TimeIsNumber DEF IInv, TypeOK
  <1>3. status' \in StatusRow
    BY <1>1, <1>2, StatusSet
  <1>4. Stands(status', chosen', delivered)
    BY <1>1, <1>2, ChoiceNow
  <1>5. now <= now
    BY <1>2
  <1>6. chosen' \in Choice /\ Sane(chosen', now)
    BY <1>1, <1>2, <1>5, Chosen
  <1> QED BY <1>3, <1>4, <1>6, StatusChanged DEF choose_status

(* A status KOReader set earlier. *)
LEMMA step_koreader_status ==
    ASSUME IInv, koreader_status
    PROVE  IInv'
  <1>1. PICK s \in read_status_for, at \in EventTime :
           /\ status' = set_read_status_at_tx(s, at, status)
           /\ chooses(s, Min({at, now}))
    BY DEF koreader_status
  <1>2. /\ TypeOK /\ Sane(chosen, now) /\ s \in Status /\ at \in Time
        /\ Stands(status, chosen, delivered)
        /\ now \in Time /\ status \in StatusRow \cup {None}
    BY ChoicesAreStatuses, EventTimes, StandsBy DEF IInv, TypeOK, read_status_for
  <1>3. status' \in StatusRow
    BY <1>1, <1>2, StatusSet
  <1>4. Stands(status', chosen', delivered)
    BY <1>1, <1>2, ChoiceAt
  <1>5. Min({at, now}) \in Time /\ Min({at, now}) <= now
    BY <1>2, Clamped
  <1>6. chosen' \in Choice /\ Sane(chosen', now)
    BY <1>1, <1>2, <1>5, Chosen
  <1> QED BY <1>3, <1>4, <1>6, StatusChanged DEF koreader_status

(* A step of a derivation that only moves the derivations along: each goes *)
(* on with what one of them, or the row, already had.                      *)
LEMMA DerivationMoved ==
    ASSUME IInv,
           spawning' \subseteq spawning,
           walk' \in Derivation \cup {None},
           enrich' \in Derivation \cup {None},
           walk' # None => Origin(walk'.place, walk'.at),
           enrich' # None => Origin(enrich'.place, enrich'.at),
           budgets' \in (0 .. MaxMessages) \X (0 .. MaxCrashes),
           UNCHANGED <<now, row, mark, credited, status, delivered, heard,
                       chosen>>
    PROVE  IInv'
  <1>1. messages' \in 0 .. MaxMessages /\ crashes' \in 0 .. MaxCrashes
    BY DEF budgets
  <1>2. TypeOK'
    BY <1>1 DEF IInv, TypeOK
  <1>3. Derivations'
    BY DEF IInv, Derivations, Origin
  <1>4. /\ Observed' /\ NewestPositionStands' /\ HalvesOfOneMoment'
        /\ StartedOrChosen' /\ Sane(chosen, now)'
    BY DEF IInv, Observed, NewestPositionStands, HalvesOfOneMoment,
           StartedOrChosen, Sane
  <1>5. Ledger'
    BY DEF IInv, Ledger, Marked, OneSitting
  <1> QED BY <1>2, <1>3, <1>4, <1>5 DEF IInv

(* The budgets of a step that uses none. *)
LEMMA BudgetsKept ==
    TypeOK /\ UNCHANGED budgets =>
        budgets' \in (0 .. MaxMessages) \X (0 .. MaxCrashes)
  BY DEF TypeOK, budgets

(* The spawn call, or its no-op while a walk is in flight. *)
LEMMA step_spawn_epub_percent_derivation ==
    ASSUME IInv, spawn_epub_percent_derivation
    PROVE  IInv'
  <1>1. PICK r \in spawning :
        /\ spawning' = spawning \ {r}
        /\ walk' = IF walk = None
                   THEN [place |-> r.place, at |-> r.at, observe |-> None]
                   ELSE walk
        /\ UNCHANGED <<now, row, mark, credited, status, enrich, delivered,
                       heard, chosen, budgets>>
    BY DEF spawn_epub_percent_derivation
  <1>2. walk' \in Derivation \cup {None}
    BY <1>1 DEF IInv, TypeOK, Derivation, Observation, MaybePlace
  <1>3. walk' # None => Origin(walk'.place, walk'.at)
    BY <1>1 DEF IInv, Derivations
  <1>4. enrich' # None => Origin(enrich'.place, enrich'.at)
    BY <1>1 DEF IInv, Derivations
  <1> QED BY <1>1, <1>2, <1>3, <1>4, BudgetsKept, DerivationMoved
          DEF IInv, TypeOK

(* A walk that cannot place the CFI ends. *)
LEMMA step_derivation_fails ==
    ASSUME IInv, derivation_fails
    PROVE  IInv'
  BY BudgetsKept, DerivationMoved
     DEF IInv, TypeOK, Derivations, derivation_fails

(* A sync takes the CFI of the row as it stands. *)
LEMMA step_read_pending_web_cfi ==
    ASSUME IInv, read_pending_web_cfi
    PROVE  IInv'
  <1>1. /\ "epub" \in Formats /\ row["epub"] # None
        /\ row["epub"].position.cfi # None
        /\ enrich' = [place |-> row["epub"].position.cfi, at |-> row["epub"].at,
                      observe |-> None]
        /\ UNCHANGED <<now, row, mark, credited, status, spawning, walk,
                       delivered, heard, chosen, budgets>>
    BY DEF read_pending_web_cfi
  <1>2. row["epub"].position.cfi \in Places /\ row["epub"].at \in Time
    BY <1>1 DEF IInv, TypeOK, Row, Position, MaybePlace
  <1>3. enrich' \in Derivation /\ enrich'.place = row["epub"].position.cfi
        /\ enrich'.at = row["epub"].at
    BY <1>1, <1>2 DEF Derivation, MaybePlace
  <1>4. Origin(enrich'.place, enrich'.at)
    <2>1. row["epub"].at <= row["epub"].at
      BY <1>2, TimeIsNumber
    <2>2. \E d \in delivered :
             /\ d.format = "epub" /\ d.stamp = row["epub"].at
             /\ row["epub"].position["cfi"] \in
                   {d.position[h] : h \in {"cfi", "percent", "audio"}}
      BY <1>1 DEF IInv, HalvesOfOneMoment
    <2> QED BY <1>1, <1>3, <2>1, <2>2 DEF Origin
  <1>5. walk' # None => Origin(walk'.place, walk'.at)
    BY <1>1 DEF IInv, Derivations
  <1> QED BY <1>1, <1>3, <1>4, <1>5, BudgetsKept, DerivationMoved
          DEF IInv, TypeOK

(* A restart forgets the derivations. *)
LEMMA step_Crash ==
    ASSUME IInv, Crash
    PROVE  IInv'
  <1>1. /\ crashes < MaxCrashes /\ crashes' = crashes + 1
        /\ messages < MaxMessages /\ messages' = messages + 1
        /\ spawning' = {} /\ walk' = None /\ enrich' = None
        /\ UNCHANGED <<now, row, mark, credited, status, delivered, heard, chosen>>
    BY DEF Crash
  <1>2. budgets' \in (0 .. MaxMessages) \X (0 .. MaxCrashes)
    <2>1. messages' \in 0 .. MaxMessages /\ crashes' \in 0 .. MaxCrashes
      BY <1>1, Bounds DEF IInv, TypeOK
    <2> QED BY <2>1 DEF budgets
  <1> QED BY <1>1, <1>2, DerivationMoved

(* The clock moves. *)
LEMMA step_Tick ==
    ASSUME IInv, Tick
    PROVE  IInv'
  <1>1. /\ now < MaxTime /\ now' = now + 1
        /\ UNCHANGED <<row, mark, credited, status, spawning, walk, enrich,
                       delivered, heard, chosen, messages, crashes>>
    BY DEF Tick, derivations, budgets
  <1>2. now \in Nat /\ now' \in Time /\ now <= now'
    <2>1. now \in Nat
      BY TimeIsNumber DEF IInv, TypeOK
    <2> QED BY <1>1, <2>1, Bounds DEF Time
  <1>3. \A f \in Formats : row[f] # None => row[f].at <= now'
    <2> SUFFICES ASSUME NEW f \in Formats, row[f] # None
                 PROVE  row[f].at <= now'
      OBVIOUS
    <2>1. row[f].at \in Nat /\ row[f].at <= now
      BY Numbers DEF IInv
    <2> QED BY <1>1, <1>2, <2>1
  <1>4. TypeOK'
    BY <1>1, <1>2, <1>3 DEF IInv, TypeOK
  <1>5. /\ Derivations' /\ Observed' /\ NewestPositionStands'
        /\ HalvesOfOneMoment' /\ StartedOrChosen'
    BY <1>1 DEF IInv, Derivations, Origin, Observed, NewestPositionStands,
                HalvesOfOneMoment, StartedOrChosen
  <1>6. Ledger'
    BY <1>1 DEF IInv, Ledger, Marked, OneSitting
  <1>7. Sane(chosen, now)'
    <2>1. chosen # None => chosen.at \in Nat /\ chosen.at <= now
      BY TimeIsNumber DEF IInv, TypeOK, Choice, Sane
    <2>2. now' \in Nat
      BY <1>2, TimeIsNumber
    <2>3. chosen # None => chosen.at <= now'
      BY <1>2, <2>1, <2>2
    <2> QED BY <1>1, <2>3 DEF IInv, Sane
  <1> QED BY <1>4, <1>5, <1>6, <1>7 DEF IInv

(* What derives goes on from what it derived before: rows advance and      *)
(* deliveries are remembered, so each derivation keeps its origin.         *)
LEMMA DerivationsKept ==
    ASSUME IInv, RowsAdvance, row' \in [Formats -> Row \cup {None}],
           delivered \subseteq delivered', spawning' = spawning,
           walk' # None => Origin(walk'.place, walk'.at) /\ walk'.at \in Time,
           enrich' # None =>
              Origin(enrich'.place, enrich'.at) /\ enrich'.at \in Time
    PROVE  Derivations'
  <1>1. ASSUME NEW r \in spawning'
        PROVE  Origin(r.place, r.at)'
    <2>1. Origin(r.place, r.at) /\ r.at \in Time
      BY <1>1 DEF IInv, Derivations, TypeOK, Observation
    <2> QED BY <2>1, OriginKept DEF IInv
  <1>2. ASSUME NEW d, Origin(d.place, d.at), d.at \in Time
        PROVE  /\ "epub" \in Formats /\ row'["epub"] # None
               /\ d.at <= row'["epub"].at
               /\ \E e \in delivered' :
                     /\ e.format = "epub" /\ e.stamp = d.at
                     /\ d.place \in {e.position[h] : h \in {"cfi", "percent", "audio"}}
    <2>1. "epub" \in Formats /\ row["epub"] # None /\ d.at <= row["epub"].at
      BY <1>2 DEF Origin
    <2>2. row'["epub"] # None /\ row["epub"].at <= row'["epub"].at
      BY <2>1 DEF RowsAdvance
    <2>3. /\ row["epub"].at \in Nat /\ row'["epub"].at \in Nat /\ d.at \in Nat
      BY <1>2, <2>1, <2>2, TimeIsNumber DEF IInv, TypeOK, Row
    <2>4. d.at <= row'["epub"].at
      BY <2>1, <2>2, <2>3
    <2> QED BY <1>2, <2>1, <2>2, <2>4 DEF Origin
  <1>3. walk' # None => Origin(walk.place, walk.at)'
    BY <1>2 DEF Origin
  <1>4. enrich' # None => Origin(enrich.place, enrich.at)'
    BY <1>2 DEF Origin
  <1> QED BY <1>1, <1>3, <1>4 DEF Derivations

(* An attach adds derived halves to the row of the second they were        *)
(* derived for, and moves nothing else of it.                              *)
LEMMA Attached ==
    ASSUME IInv, NEW place \in Places, NEW at \in Time, Origin(place, at),
           NEW r \in Row, row["epub"].at = at, r.at = at,
           \A half \in {"cfi", "percent", "span", "audio"} :
               \/ r.position[half] = row["epub"].position[half]
               \/ r.position[half] = place,
           row' = [row EXCEPT !["epub"] = r],
           walk' \in Derivation \cup {None},
           enrich' \in Derivation \cup {None},
           walk' # None => Origin(walk'.place, walk'.at),
           enrich' # None => Origin(enrich'.place, enrich'.at),
           UNCHANGED <<now, mark, credited, status, spawning, delivered, heard,
                       chosen, budgets>>
    PROVE  IInv'
  <1>1. "epub" \in Formats /\ row["epub"] # None
    BY DEF Origin
  <1>2. /\ row' \in [Formats -> Row \cup {None}] /\ row'["epub"] = r
        /\ \A g \in Formats : g # "epub" => row'[g] = row[g]
    BY <1>1 DEF IInv, TypeOK
  <1>3. r # None
    BY Rows
  <1>4. \A g \in Formats : row'[g] # None =>
           row[g] # None /\ row'[g].at = row[g].at
    BY <1>1, <1>2
  <1>5. RowsAdvance
    BY <1>1, <1>2, <1>3, Numbers DEF RowsAdvance, IInv
  <1>6. TypeOK'
    BY <1>2, <1>4 DEF IInv, TypeOK, budgets
  <1>7. Ledger'
    BY <1>2, <1>5, UnobservedLedger DEF IInv, observe_nothing
  <1>8. Derivations'
    BY <1>2, <1>5, DerivationsKept DEF Derivation
  <1>9. Observed'
    <2> SUFFICES ASSUME NEW d \in delivered,
                        d.stamp = row'[d.format].at, d.position.percent # None
                 PROVE  [place |-> d.position.percent, at |-> d.stamp]
                           \in heard[d.format]
      BY DEF Observed
    <2>1. d.format \in Formats
      BY DEF IInv, TypeOK
    <2>2. row'[d.format].at = row[d.format].at
      BY <1>2, <2>1
    <2> QED BY <2>2 DEF IInv, Observed
  <1>10. NewestPositionStands'
    <2>1. \A g \in Formats : /\ (row'[g] # None) <=> (row[g] # None)
                             /\ row'[g].at = row[g].at
      BY <1>1, <1>2, <1>3
    <2> QED BY <2>1 DEF IInv, NewestPositionStands
  <1>11. HalvesOfOneMoment'
    <2> SUFFICES ASSUME NEW g \in Formats, row'[g] # None,
                        NEW half \in {"cfi", "percent", "span", "audio"},
                        row'[g].position[half] # None
                 PROVE  \E d \in delivered :
                           /\ d.format = g /\ d.stamp = row'[g].at
                           /\ row'[g].position[half] \in
                                 {d.position[h] : h \in {"cfi", "percent", "audio"}}
      BY DEF HalvesOfOneMoment
    <2>1. row'[g].at = row[g].at /\ row[g] # None
      BY <1>4
    <2>2. CASE row'[g].position[half] = row[g].position[half]
      BY <2>1, <2>2 DEF IInv, HalvesOfOneMoment
    <2>3. CASE row'[g].position[half] # row[g].position[half]
      <3>1. g = "epub" /\ row'[g].position[half] = place
        BY <1>2, <2>3
      <3> QED BY <2>1, <3>1 DEF Origin
    <2> QED BY <2>2, <2>3
  <1>12. StartedOrChosen' /\ Sane(chosen, now)'
    BY <1>4 DEF IInv, StartedOrChosen, Sane
  <1> QED BY <1>6, <1>7, <1>8, <1>9, <1>10, <1>11, <1>12 DEF IInv

(* The ledger hears, late, of a half that was attached.                    *)
LEMMA AttachHeard ==
    ASSUME IInv, NEW place \in Places, NEW at \in Time, NEW other,
           Origin(other, at), observe_percent_tx("epub", place, at),
           walk' = walk \/ walk' = None, enrich' = enrich \/ enrich' = None,
           UNCHANGED <<now, row, status, spawning, delivered, chosen, budgets>>
    PROVE  IInv'
  <1>1. "epub" \in Formats /\ row["epub"] # None /\ at <= row["epub"].at
    BY DEF Origin
  <1>2. /\ RowsAdvance /\ row' \in [Formats -> Row \cup {None}]
        /\ row'["epub"] # None /\ at <= row'["epub"].at
    BY <1>1, Numbers DEF RowsAdvance, IInv, TypeOK
  <1>3. /\ Ledger'
        /\ mark' \in [Formats -> Mark \cup {None}]
        /\ credited' \in [Formats -> Nat]
        /\ heard' \in [Formats -> SUBSET Observation]
        /\ \A g \in Formats : heard[g] \subseteq heard'[g]
    BY <1>1, <1>2, ObservedLedger DEF IInv
  <1>4. TypeOK'
    BY <1>3 DEF IInv, TypeOK, budgets
  <1>5. Derivations'
    <2>1. /\ walk' # None => Origin(walk'.place, walk'.at) /\ walk'.at \in Time
          /\ enrich' # None =>
                Origin(enrich'.place, enrich'.at) /\ enrich'.at \in Time
      BY DEF IInv, TypeOK, Derivations, Derivation
    <2> QED BY <1>2, <2>1, DerivationsKept
  <1>6. Observed'
    <2> SUFFICES ASSUME NEW d \in delivered,
                        d.stamp = row[d.format].at, d.position.percent # None
                 PROVE  [place |-> d.position.percent, at |-> d.stamp]
                           \in heard'[d.format]
      BY DEF Observed
    <2>1. d.format \in Formats
      BY DEF IInv, TypeOK
    <2> QED BY <1>3, <2>1 DEF IInv, Observed
  <1>7. /\ NewestPositionStands' /\ HalvesOfOneMoment' /\ StartedOrChosen'
        /\ Sane(chosen, now)'
    BY DEF IInv, NewestPositionStands, HalvesOfOneMoment, StartedOrChosen, Sane
  <1> QED BY <1>3, <1>4, <1>5, <1>6, <1>7 DEF IInv

(* The walk attaches its percent to the row it was for, or ends.           *)
LEMMA step_attach_derived_percent ==
    ASSUME IInv, attach_derived_percent
    PROVE  IInv'
  <1>1. /\ walk # None /\ walk \in Derivation /\ walk.place \in Places
        /\ walk.at \in Time /\ Origin(walk.place, walk.at)
        /\ UNCHANGED <<now, mark, credited, status, spawning, enrich, delivered,
                       heard, chosen, budgets>>
    BY DEF IInv, TypeOK, Derivations, Derivation, attach_derived_percent
  <1>2. enrich' \in Derivation \cup {None}
        /\ (enrich' # None => Origin(enrich'.place, enrich'.at))
    BY <1>1 DEF IInv, TypeOK, Derivations
  <1>3. CASE still_unmeasured(row["epub"], walk.at)
    <2> DEFINE r == [row["epub"] EXCEPT !.position.percent = walk.place]
    <2>1. row' = [row EXCEPT !["epub"] = r]
      BY <1>3 DEF attach_derived_percent
    <2>2. row["epub"] \in Row /\ row["epub"].at = walk.at
      BY <1>1, <1>3 DEF still_unmeasured, Origin, IInv, TypeOK
    <2>3. r \in Row /\ r.at = walk.at
          /\ \A half \in {"cfi", "percent", "span", "audio"} :
               \/ r.position[half] = row["epub"].position[half]
               \/ r.position[half] = walk.place
      BY <1>1, <2>2 DEF Row, Position, MaybePlace
    <2>4. walk' = attached(walk, walk.place)
      BY <1>3 DEF attach_derived_percent
    <2>5. walk' \in Derivation /\ walk'.place = walk.place /\ walk'.at = walk.at
      BY <1>1, <2>4 DEF attached, Derivation, MaybePlace
    <2> HIDE DEF r
    <2> QED BY <1>1, <1>2, <2>1, <2>2, <2>3, <2>5, Attached
  <1>4. CASE ~still_unmeasured(row["epub"], walk.at)
    BY <1>1, <1>2, <1>4, BudgetsKept, DerivationMoved
       DEF IInv, attach_derived_percent
  <1> QED BY <1>3, <1>4

(* The ledger hears of the percent the walk attached.                      *)
LEMMA step_observe_attached_percent ==
    ASSUME IInv, observe_attached_percent
    PROVE  IInv'
  <1>1. /\ walk # None /\ walk.observe \in Places
        /\ walk.at \in Time /\ Origin(walk.place, walk.at)
    BY DEF IInv, TypeOK, Derivations, Derivation, MaybePlace,
           observe_attached_percent
  <1> QED BY <1>1, AttachHeard DEF observe_attached_percent

(* The sync attaches its span, with the percent the row settles on.        *)
LEMMA step_attach_derived_kobo_location ==
    ASSUME IInv, attach_derived_kobo_location
    PROVE  IInv'
  <1>1. /\ enrich # None /\ enrich \in Derivation /\ enrich.place \in Places
        /\ enrich.at \in Time /\ Origin(enrich.place, enrich.at)
        /\ UNCHANGED <<now, mark, credited, status, spawning, walk, delivered,
                       heard, chosen, budgets>>
    BY DEF IInv, TypeOK, Derivations, Derivation, attach_derived_kobo_location
  <1>2. walk' \in Derivation \cup {None}
        /\ (walk' # None => Origin(walk'.place, walk'.at))
    BY <1>1 DEF IInv, TypeOK, Derivations
  <1>3. CASE still_without_span(row["epub"], enrich.at)
    <2> DEFINE held == row["epub"].position.percent
               settled == IF held = None THEN enrich.place ELSE held
               r == [row["epub"] EXCEPT !.position.span = enrich.place,
                                        !.position.percent = settled]
    <2>1. row' = [row EXCEPT !["epub"] = r]
      BY <1>3 DEF attach_derived_kobo_location
    <2>2. row["epub"] \in Row /\ row["epub"].at = enrich.at
      BY <1>1, <1>3 DEF still_without_span, Origin, IInv, TypeOK
    <2>3. settled \in Places
      BY <1>1, <2>2 DEF Row, Position, MaybePlace
    <2>4. r \in Row /\ r.at = enrich.at
          /\ \A half \in {"cfi", "percent", "span", "audio"} :
               \/ r.position[half] = row["epub"].position[half]
               \/ r.position[half] = enrich.place
      BY <1>1, <2>2, <2>3 DEF Row, Position, MaybePlace
    <2>5. enrich' = attached(enrich, settled)
      BY <1>3 DEF attach_derived_kobo_location
    <2> HIDE DEF r, settled
    <2>6. enrich' \in Derivation /\ enrich'.place = enrich.place
          /\ enrich'.at = enrich.at
      BY <1>1, <2>3, <2>5 DEF attached, Derivation, MaybePlace
    <2> QED BY <1>1, <1>2, <2>1, <2>2, <2>4, <2>6, Attached
  <1>4. CASE ~still_without_span(row["epub"], enrich.at)
    BY <1>1, <1>2, <1>4, BudgetsKept, DerivationMoved
       DEF IInv, attach_derived_kobo_location
  <1> QED BY <1>3, <1>4

(* The ledger hears of the percent the row settled on.                     *)
LEMMA step_observe_settled_percent ==
    ASSUME IInv, observe_settled_percent
    PROVE  IInv'
  <1>1. /\ enrich # None /\ enrich.observe \in Places
        /\ enrich.at \in Time /\ Origin(enrich.place, enrich.at)
    BY DEF IInv, TypeOK, Derivations, Derivation, MaybePlace,
           observe_settled_percent
  <1> QED BY <1>1, AttachHeard DEF observe_settled_percent

(* A stutter keeps the invariant. *)
LEMMA step_stutter ==
    ASSUME IInv, UNCHANGED vars
    PROVE  IInv'
  <1>1. UNCHANGED <<now, row, mark, credited, status, spawning, walk, enrich,
                    delivered, heard, chosen, budgets>>
    BY DEF vars, derivations
  <1> QED BY <1>1, BudgetsKept, DerivationMoved DEF IInv, TypeOK, Derivations

(* Nothing is stored at first. *)
LEMMA Initially == Init => IInv
  <1> SUFFICES ASSUME Init PROVE IInv
    OBVIOUS
  <1>1. TypeOK
    <2>1. now \in Time /\ messages \in 0 .. MaxMessages
          /\ crashes \in 0 .. MaxCrashes
      BY Bounds DEF Init, Time
    <2>2. /\ row \in [Formats -> Row \cup {None}]
          /\ mark \in [Formats -> Mark \cup {None}]
          /\ credited \in [Formats -> Nat]
          /\ heard \in [Formats -> SUBSET Observation]
          /\ \A f \in Formats : row[f] # None => row[f].at <= now
      BY DEF Init
    <2>3. /\ status = None /\ spawning = {} /\ walk = None /\ enrich = None
          /\ delivered = {} /\ chosen = None
      BY DEF Init
    <2> QED BY <2>1, <2>2, <2>3 DEF TypeOK
  <1>2. Derivations /\ Observed /\ NewestPositionStands /\ HalvesOfOneMoment
        /\ StartedOrChosen /\ Sane(chosen, now)
    BY DEF Init, Derivations, Observed, NewestPositionStands, HalvesOfOneMoment,
           StartedOrChosen, Sane
  <1>3. Ledger
    BY DEF Init, Ledger, Marked, OneSitting
  <1> QED BY <1>1, <1>2, <1>3 DEF IInv

(* Every step keeps the invariant. *)
LEMMA Step == IInv /\ [Next]_vars => IInv'
  <1> SUFFICES ASSUME IInv, [Next]_vars PROVE IInv'
    OBVIOUS
  <1>1. CASE post_progress
    BY <1>1, step_post_progress
  <1>2. CASE persist_bookmark
    BY <1>2, step_persist_bookmark
  <1>3. CASE koreader_push
    BY <1>3, step_koreader_push
  <1>4. CASE choose_status
    BY <1>4, step_choose_status
  <1>5. CASE koreader_status
    BY <1>5, step_koreader_status
  <1>6. CASE Derive
    <2>1. CASE spawn_epub_percent_derivation
      BY <2>1, step_spawn_epub_percent_derivation
    <2>2. CASE attach_derived_percent
      BY <2>2, step_attach_derived_percent
    <2>3. CASE observe_attached_percent
      BY <2>3, step_observe_attached_percent
    <2>4. CASE read_pending_web_cfi
      BY <2>4, step_read_pending_web_cfi
    <2>5. CASE attach_derived_kobo_location
      BY <2>5, step_attach_derived_kobo_location
    <2>6. CASE observe_settled_percent
      BY <2>6, step_observe_settled_percent
    <2> QED BY <1>6, <2>1, <2>2, <2>3, <2>4, <2>5, <2>6 DEF Derive
  <1>7. CASE derivation_fails
    BY <1>7, step_derivation_fails
  <1>8. CASE Crash
    BY <1>8, step_Crash
  <1>9. CASE Tick
    BY <1>9, step_Tick
  <1>10. CASE UNCHANGED vars
    BY <1>10, step_stutter
  <1> QED BY <1>1, <1>2, <1>3, <1>4, <1>5, <1>6, <1>7, <1>8, <1>9, <1>10 DEF Next
-----------------------------------------------------------------------------
(* What follows from the invariant. *)

(* Inside one sitting the mark is the furthest place heard, and the credit *)
(* is no more than the ground between the places heard.                    *)
LEMMA CreditsFollow == IInv => SittingCreditsGround
  <1> SUFFICES ASSUME IInv, NEW f \in Formats,
                      heard[f] # {}, observed_span(f) <= IDLE_GAP_SECS
               PROVE  /\ mark[f].max = Max(observed_places(f))
                      /\ credited[f] <= Max(observed_places(f))
                                        - Min(observed_places(f))
    BY DEF SittingCreditsGround
  <1> DEFINE ats == {o.at : o \in heard[f]}
             places == {o.place : o \in heard[f]}
  <1>1. Marked(f) /\ OneSitting(f) /\ TypeOK
    BY DEF IInv, Ledger
  <1>2. mark[f] # None /\ mark[f].at \in Nat /\ mark[f].max \in Nat
        /\ credited[f] \in Nat
    BY <1>1, Numbers DEF Marked
  <1>3. \A o \in heard[f] : o.at \in Nat /\ o.place \in Nat
    BY <1>1, Numbers
  <1>4. ats \in SUBSET Nat /\ ats # {} /\ places \in SUBSET Nat /\ places # {}
    BY <1>3
  <1>5. PICK least \in ats : \A t \in ats : least <= t
    <2> HIDE DEF ats
    <2> QED BY <1>4, LeastNatural
  <1>6. Min(ats) = least
    <2> HIDE DEF ats
    <2>1. ats \in SUBSET Int
      BY <1>4
    <2> QED BY <1>5, <2>1, MinFinds
  <1>7. mark[f].at \in ats /\ \A t \in ats : t <= mark[f].at
    BY <1>1, <1>2 DEF Marked
  <1>8. Max(ats) = mark[f].at
    <2> HIDE DEF ats
    <2>1. ats \in SUBSET Int
      BY <1>4
    <2> QED BY <1>7, <2>1, MaxFinds
  <1>9. mark[f].at - least <= IDLE_GAP_SECS
    BY <1>6, <1>8 DEF observed_span
  <1>10. ASSUME NEW o \in heard[f]
         PROVE  mark[f].at - o.at <= IDLE_GAP_SECS
    <2>1. least <= o.at /\ o.at \in Nat /\ least \in Nat
      BY <1>3, <1>4, <1>5
    <2> QED BY <1>2, <1>9, <2>1, Bounds
  <1>11. /\ \E o \in heard[f] : o.place = mark[f].max
         /\ \A o \in heard[f] : o.place <= mark[f].max
         /\ \E o \in heard[f] : credited[f] <= mark[f].max - o.place
    BY <1>1, <1>2, <1>10 DEF OneSitting
  <1>12. PICK first \in places : \A p \in places : first <= p
    <2> HIDE DEF places
    <2> QED BY <1>4, LeastNatural
  <1>13. Min(places) = first
    <2> HIDE DEF places
    <2>1. places \in SUBSET Int
      BY <1>4
    <2> QED BY <1>12, <2>1, MinFinds
  <1>14. mark[f].max \in places /\ \A p \in places : p <= mark[f].max
    BY <1>11
  <1>15. Max(places) = mark[f].max
    <2> HIDE DEF places
    <2>1. places \in SUBSET Int
      BY <1>4
    <2> QED BY <1>14, <2>1, MaxFinds
  <1>16. credited[f] <= mark[f].max - first
    <2>1. PICK o \in heard[f] : credited[f] <= mark[f].max - o.place
      BY <1>11
    <2>2. first <= o.place /\ first \in Nat /\ o.place \in Nat
      BY <1>3, <1>4, <1>12
    <2> QED BY <1>2, <2>1, <2>2
  <1> QED BY <1>13, <1>15, <1>16 DEF observed_places

(* A write taken in again credits nothing: the place it offers, or the     *)
(* place that stands against it, has been heard at the row's second, and   *)
(* what was heard at the mark's second is not past the mark.               *)
LEMMA ReplayCreditsNothing ==
    ASSUME IInv, NEW d \in delivered, NEW via \in {"post", "kobo"},
           ledger_heard(d.format),
           Deliver([via |-> via, format |-> d.format,
                    position |-> d.position, at |-> d.stamp], status, FALSE)
    PROVE  credited'[d.format] = credited[d.format]
  <1> DEFINE w == [via |-> via, format |-> d.format,
                   position |-> d.position, at |-> d.stamp]
             f == d.format
             at == stamp(w)
             kept == surviving(f, w.position, at)
  <1>1. /\ TypeOK /\ f \in Formats /\ d.stamp \in Time
        /\ now \in Time
    BY DEF IInv, TypeOK
  <1>2. row[f] # None /\ d.stamp <= row[f].at
    BY <1>1 DEF IInv, NewestPositionStands
  <1>3. /\ row[f].at \in Nat /\ row[f].at <= now /\ d.stamp \in Nat /\ now \in Nat
        /\ row[f] \in Row
    BY <1>1, <1>2, Numbers, TimeIsNumber
  <1>4. at = d.stamp
    <2>1. Min({d.stamp, now}) = IF d.stamp <= now THEN d.stamp ELSE now
      BY <1>1, Clamped
    <2> QED BY <1>2, <1>3, <2>1 DEF stamp
  <1>5. CASE is_audio_teardown_zero_write(f, w.position)
    BY <1>5 DEF Deliver, observe_nothing
  <1>6. CASE ~is_audio_teardown_zero_write(f, w.position)
    <2>1. IF kept.position.percent = None THEN observe_nothing
          ELSE observe_percent_tx(f, kept.position.percent, kept.at)
      BY <1>6 DEF Deliver
    <2>2. CASE kept.position.percent = None
      BY <2>1, <2>2 DEF observe_nothing
    <2>3. CASE kept.position.percent # None
      <3>1. /\ kept.at = row[f].at
            /\ [place |-> kept.position.percent, at |-> kept.at] \in heard[f]
        <4>1. CASE loses(f, w.position, at)
          <5>1. kept = row[f]
            BY <4>1 DEF surviving
          <5> QED BY <1>2, <2>3, <5>1 DEF ledger_heard
        <4>2. CASE ~loses(f, w.position, at)
          <5>1. kept = [position |-> d.position, at |-> at]
            BY <4>2 DEF surviving
          <5>2. ~(at < row[f].at)
            BY <1>2, <4>2 DEF loses
          <5>3. at = row[f].at
            BY <1>1, <1>2, <1>3, <1>4, <5>2
          <5> QED BY <1>4, <2>3, <5>1, <5>3 DEF IInv, Observed
        <4> QED BY <4>1, <4>2
      <3> DEFINE pl == kept.position.percent
                 ka == kept.at
      <3>2. observe_percent_tx(f, pl, ka)
        BY <2>1, <2>3
      <3>3. ka = row[f].at /\ [place |-> pl, at |-> ka] \in heard[f]
        BY <3>1
      <3> HIDE DEF pl, ka, kept
      <3>4. Marked(f)
        BY <1>1 DEF IInv, Ledger
      <3>5. mark[f] # None
        BY <3>3, <3>4 DEF Marked
      <3>6. /\ mark[f] \in Mark /\ mark[f].at \in Nat /\ mark[f].max \in Nat
            /\ mark[f].at <= row[f].at /\ credited[f] \in Nat
        BY <1>1, <3>4, <3>5, Numbers DEF Marked
      <3>7. /\ ka <= mark[f].at /\ (ka = mark[f].at => pl <= mark[f].max)
            /\ pl \in Places
        <4> DEFINE o == [place |-> pl, at |-> ka]
        <4>1. o \in heard[f] /\ o.place = pl /\ o.at = ka
          BY <3>3
        <4>2. o \in Observation
          BY <1>1, <4>1 DEF TypeOK
        <4> QED BY <3>4, <3>5, <4>1, <4>2 DEF Marked, Observation
      <3>8. pl <= mark[f].max
        BY <1>3, <3>3, <3>6, <3>7
      <3>9. gain(mark[f], pl) = 0
        <4>1. pl \in Nat
          BY <3>7, PlaceIsNumber
        <4> QED BY <3>6, <3>8, <4>1 DEF gain
      <3>10. credited' = [credited EXCEPT ![f] = credited[f] + 0]
        BY <3>2, <3>5, <3>9 DEF observe_percent_tx
      <3> QED BY <1>1, <3>6, <3>10 DEF TypeOK
    <2> QED BY <2>2, <2>3
  <1> QED BY <1>5, <1>6

-----------------------------------------------------------------------------
(* The theorems. *)

(* The invariant holds in every reachable state, for every set of places,  *)
(* every idle gap, every device clock and every order of writes, replays,  *)
(* derivations and restarts.                                               *)
THEOREM Invariance == Spec => []IInv
  <1>1. Init => IInv
    BY Initially
  <1>2. IInv /\ [Next]_vars => IInv'
    BY Step
  <1> QED BY <1>1, <1>2, PTL DEF Spec

(* Every stored value is of its column's type, and no stored position is   *)
(* dated after the server's clock (upsert_progress clamps).                *)
THEOREM TypeCorrectness == Spec => []TypeOK
  <1>1. IInv => TypeOK
    BY DEF IInv
  <1> QED BY <1>1, Invariance, PTL

(* The newest-wins WHERE clause of upsert_progress keeps the newest offer, *)
(* in whatever order writes and replays arrive.                            *)
THEOREM NewestWins == Spec => []NewestPositionStands
  <1>1. IInv => NewestPositionStands
    BY DEF IInv
  <1> QED BY <1>1, Invariance, PTL

(* The halves of a stored position are of one second, which is as fine as  *)
(* its event time: attach_derived_* never annotate a row whose reader has  *)
(* moved on in a later second.                                             *)
THEOREM OneMoment == Spec => []HalvesOfOneMoment
  <1>1. IInv => HalvesOfOneMoment
    BY DEF IInv
  <1> QED BY <1>1, Invariance, PTL

(* A stored position has a status: one a position began until the reader   *)
(* chooses, and then the newest choice, but for a chosen `unread` that a   *)
(* KOReader position of no earlier moment turns into `reading`             *)
(* (read_status set_read_status_at_tx, start_unread_at_tx).                *)
THEOREM StatusStands == Spec => []StartedOrChosen
  <1>1. IInv => StartedOrChosen
    BY DEF IInv
  <1> QED BY <1>1, Invariance, PTL

(* observe_percent_tx credits the ground of a sitting once, for every gap, *)
(* every order of observations and every repetition.                       *)
THEOREM GroundCreditedOnce == Spec => []SittingCreditsGround
  <1> QED BY CreditsFollow, Invariance, PTL

(* Delivering a write again credits nothing, however often, however late   *)
(* and whatever was written in between.                                    *)
THEOREM ReplaysAreFree == Spec => ReplayIsFree
  <1> DEFINE A ==
        \A d \in delivered :
           credited'[d.format] # credited[d.format] =>
               ~ /\ ledger_heard(d.format)
                 /\ \E via \in {"post", "kobo"} :
                        Deliver([via |-> via, format |-> d.format,
                                 position |-> d.position, at |-> d.stamp],
                                status, FALSE)
  <1>1. IInv => [A]_vars
    <2> SUFFICES ASSUME IInv PROVE A
      OBVIOUS
    <2> QED BY ReplayCreditsNothing
  <1>2. Spec => [][A]_vars
    <2> HIDE DEF A
    <2> QED BY <1>1, Invariance, PTL
  <1> QED BY <1>2 DEF ReplayIsFree
=============================================================================
