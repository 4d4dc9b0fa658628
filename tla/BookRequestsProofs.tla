------------------------- MODULE BookRequestsProofs -------------------------
(***************************************************************************)
(* Proofs about BookRequests for any number of readers, books, requests,   *)
(* versions, searches, restarts and failed calls.                          *)
(***************************************************************************)
EXTENDS BookRequests, NumberFacts, FiniteSetTheorems, TLAPS

(* The state an undo would bring back, or the state as it is. *)
stage(q) ==
    IF q.state = "cancelled" /\ q.prior_state # None THEN q.prior_state
    ELSE q.state

(* The book is being looked for: no version is picked. *)
unpicked(q) ==
    \/ stage(q) \in {"looking", "choose"}
    \/ q.state = "stuck" /\ q.stuck_reason \in {"not_found", "search_failed"}

(* A cancelled request whose grace is over, or whose book is deleted. *)
for_good(q) == q.state = "cancelled" /\ ~may_undo(q)

(* The download is done, or its import was tried. *)
filing(q) ==
    \/ q.import_key # None \/ q.progress = "full"
    \/ q.state = "stuck" /\ q.stuck_reason = "couldnt_add"

(* What a row says of itself. *)
Shape(r, q) ==
    /\ q.state # "cancelled" => q.cancel_at = None /\ q.prior_state = None
    /\ q.client_tag # None => q.chosen # None /\ q.client_tag = <<r, q.chosen>>
    /\ q.import_key # None => q.chosen # None /\ q.import_key = <<r, q.chosen>>
    /\ q.remove_tag # None => q.remove_tag[1] = r
    /\ q.remove_since # None => q.remove_tag # None
    /\ q.state = "stuck" => q.stuck_reason # None
    /\ unpicked(q) => q.chosen = None /\ q.progress = None
    /\ stage(q) = "chosen" =>
          q.chosen # None /\ q.import_key = None /\ q.progress = None
    /\ stage(q) = "on_its_way" =>
          /\ q.chosen # None
          /\ q.client_tag # None \/ (q.state = "cancelled" /\ q.cancel_at = None)
          /\ q.import_key # None => q.progress = "full"
    /\ q.state = "cancelled" /\ q.prior_state = "on_its_way" =>
          q.progress # "full"
    /\ q.state = "ready" => q.import_key # None /\ q.client_tag # None
    /\ q.state = "stuck" /\ q.stuck_reason = "stopped_moving" =>
          q.chosen # None /\ q.import_key = None
    /\ q.state = "stuck" /\ q.stuck_reason = "couldnt_add" =>
          q.chosen # None /\ q.client_tag # None

(* What a row says of the rest: its pick is a version of its own, not      *)
(* given up; its removal is of a version given up, or it is cancelled for  *)
(* good; the removal was seen to leave the state of being fetched; a file  *)
(* noted is in the library.                                                *)
Linked(r, q) ==
    /\ q.chosen # None =>
          /\ result[q.chosen] # None
          /\ result[q.chosen].req = r /\ ~result[q.chosen].tried
    /\ q.remove_tag # None =>
          \/ for_good(q) /\ q.client_tag = None
          \/ /\ q.remove_tag[2] # q.chosen
             /\ \/ result[q.remove_tag[2]] = None
                \/ result[q.remove_tag[2]].tried
    /\ q.remove_tag # None => q.remove_tag[2] < next_result
    /\ q.remove_tag # None /\ q.remove_since # "recent" =>
          client[q.remove_tag] # "fetching"
    /\ q.import_key # None => library[q.import_key] > 0
    /\ q.book \in deleted => q.state = "cancelled" /\ q.prior_state = None

Rows ==
    /\ \A r \in RequestId : exists(r) =>
          r < next_request /\ Shape(r, request[r]) /\ Linked(r, request[r])
    /\ \A v \in ResultId : result[v] # None => v < next_result

(* What the poller may rely on of a row it has read, until it is done with *)
(* it.                                                                     *)
tagged(q) == q.client_tag # None \/ q.remove_tag # None

(* The request read went with the account of its reader. *)
Gone(e) == ~exists(e.id) /\ e.id < next_request

RemovalRead(e) ==
    /\ e.row.remove_tag # None /\ e.row.remove_tag[1] = e.id
    /\ \/ Gone(e)
       \/ exists(e.id) /\ request[e.id].remove_tag = e.row.remove_tag
    /\ e.row.remove_since # "recent" => client[e.row.remove_tag] # "fetching"

(* The pick of the row is tagged and not yet on its way. *)
handing(q) ==
    /\ q.client_tag # None
    /\ \/ q.state = "chosen"
       \/ q.state = "cancelled" /\ q.prior_state \in {"chosen", None}

(* A row being handed over: its tag is that of the pick, or was left       *)
(* behind.                                                                 *)
HandRead(e) ==
    /\ e.row.client_tag # None /\ e.row.client_tag[1] = e.id
    /\ \/ Gone(e) /\ e.row.client_tag \in orphaned
       \/ /\ exists(e.id) /\ handing(request[e.id])
          /\ request[e.id].client_tag = e.row.client_tag

Following(e) ==
    /\ e.row.client_tag # None
    /\ \/ Gone(e)
       \/ exists(e.id) /\ tagged(request[e.id]) /\ ~filing(request[e.id])

(* A request whose download is being imported, or whose book was deleted   *)
(* meanwhile.                                                              *)
importing(q) == q.state = "on_its_way" /\ q.progress = "full"
abandoned(q) == q.state = "cancelled" /\ q.prior_state = None

ImportGoesOn(q, row_read) ==
    /\ q.chosen = row_read.chosen /\ q.reader = row_read.reader
    /\ importing(q) \/ (abandoned(q) /\ q.book \in deleted)

ImportRead(e) ==
    /\ e.row.client_tag # None /\ e.row.client_tag = <<e.id, e.row.chosen>>
    /\ e.row.chosen # None /\ e.row.import_key \in {None, e.row.client_tag}
    /\ \/ Gone(e) /\ e.row.reader \in gone_readers
       \/ exists(e.id) /\ ImportGoesOn(request[e.id], e.row)

(* A download read for an import not tried yet was not filed since the     *)
(* last restart.                                                           *)
Unfiled(e) ==
    /\ exists(e.id) => request[e.id].import_key = e.row.import_key
    /\ e.row.import_key = None => library[e.row.client_tag] <= crashes

PollerOK ==
    /\ \A e, f \in poller.todo : e.id = f.id => e = f
    /\ poller.at \in {"remove", "hand_over", "added", "refused", "verdict",
                      "key", "scan"} => poller.todo # {}
    /\ poller.at = "verdict" => poller.verdict # None
    /\ poller.at \in {"removals", "remove"} =>
          \A e \in poller.todo : RemovalRead(e)
    /\ poller.at \in {"hand_over", "added", "refused"} => HandRead(at_hand)
    /\ poller.at \in {"downloads", "verdict", "stop", "stop_idle"} =>
          \A e \in poller.todo : Following(e)
    /\ poller.at \in {"imports", "key", "scan"} =>
          /\ \A e \in poller.todo : ImportRead(e)
          /\ \A e \in poller.todo :
                poller.at = "imports" \/ e # at_hand => Unfiled(e)
    /\ poller.at = "key" =>
          /\ exists(id) => request[id].import_key = None
          /\ library[row.client_tag] > 0
    /\ poller.at = "scan" /\ exists(id) /\ request[id].state = "on_its_way" =>
          request[id].import_key # None

(* A tag that was filed once more than the server was restarted is noted,  *)
(* or about to be, or nobody will import it again.                         *)
Noted(t) ==
    \/ poller.at = "key" /\ row.client_tag = t
    \/ ~exists(t[1]) /\ t[1] < next_request
    \/ /\ exists(t[1])
       /\ request[t[1]].import_key = t \/ abandoned(request[t[1]])

Copies ==
    \A t \in Tag :
        library[t] <= crashes \/ (library[t] = crashes + 1 /\ Noted(t))

IInv ==
    /\ TypeOK /\ Rows /\ PollerOK /\ Copies
    /\ NoOrphanDownload /\ LookingIsSearched

-----------------------------------------------------------------------------
(* What the provers keep needing.                                          *)

(* None is no value of a column. *)
LEMMA NoneFacts ==
    /\ \A t \in Tag : t # None
    /\ \A v \in ResultId : v # None
    /\ \A r \in RequestId : r # None
    /\ \A q \in RequestRow : q # None
    /\ \A x \in ResultRow : x # None
    /\ None \notin State /\ None \notin LIVE_STATES /\ None \notin StuckReason
    /\ "looking" # None /\ "choose" # None /\ "chosen" # None
    /\ "on_its_way" # None /\ "ready" # None /\ "stuck" # None
    /\ "cancelled" # None
    /\ "not_found" # None /\ "search_failed" # None
    /\ "stopped_moving" # None /\ "couldnt_add" # None
    /\ "recent" # None /\ "overdue" # None /\ "part" # None
    /\ "full" # None /\ "ahead" # None /\ "due" # None /\ "stopped" # None
  BY NoneAssumption DEF State, LIVE_STATES, StuckReason

(* The ids are numbers, and a tag names its request and its version. *)
LEMMA Names ==
    /\ RequestId \subseteq Nat /\ ResultId \subseteq Nat
    /\ \A r \in RequestId, v \in ResultId : <<r, v>> \in Tag
    /\ \A t \in Tag : /\ t[1] \in RequestId /\ t[2] \in ResultId
                      /\ t = <<t[1], t[2]>>
  BY BoundsAssumption DEF RequestId, ResultId, Tag

(* The columns of a row. *)
LEMMA Columns ==
    ASSUME NEW q \in RequestRow
    PROVE  /\ q.reader \in Readers /\ q.book \in Books /\ q.state \in State
           /\ q.stuck_reason \in StuckReason \cup {None}
           /\ q.chosen \in ResultId \cup {None}
           /\ q.client_tag \in Tag \cup {None}
           /\ q.import_key \in Tag \cup {None}
           /\ q.remove_tag \in Tag \cup {None}
           /\ q.remove_since \in {"recent", "overdue", None}
           /\ q.progress \in {"part", "full", None}
           /\ q.cancel_at \in {"ahead", "due", None}
           /\ q.prior_state \in LIVE_STATES \cup {None}
  BY DEF RequestRow

(* A row of the table is one of RequestRow. *)
LEMMA RowThere ==
    ASSUME TypeOK, NEW r \in RequestId
    PROVE  /\ exists(r) <=> request[r] \in RequestRow
           /\ request[r] \in RequestRow \cup {None}
  BY NoneFacts DEF TypeOK, exists

(* Every version recorded is one of ResultRow. *)
LEMMA VersionThere ==
    ASSUME TypeOK, NEW v \in ResultId
    PROVE  /\ result[v] # None => result[v] \in ResultRow
           /\ result[v] \in ResultRow \cup {None}
           /\ result[v] # None =>
                 /\ result[v].req \in RequestId /\ result[v].tried \in BOOLEAN
                 /\ result[v].guid \in Guids
  BY NoneFacts DEF TypeOK, ResultRow

(* Of some rows read one has the least id. *)
LEMMA FirstRow ==
    ASSUME NEW rest \in SUBSET Copy, rest # {}
    PROVE  LET e == CHOOSE x \in rest : \A f \in rest : x.id <= f.id
           IN  e \in rest /\ \A f \in rest : e.id <= f.id
  <1> DEFINE T == {e.id : e \in rest}
  <1>1. T \in SUBSET Nat /\ T # {}
    BY Names DEF Copy
  <1>2. PICK x \in T : \A y \in T : x <= y
    BY <1>1, LeastNatural
  <1>3. PICK e \in rest : e.id = x
    BY <1>2
  <1>4. \A f \in rest : e.id <= f.id
    BY <1>2, <1>3
  <1> QED BY <1>3, <1>4

(* The row at hand is one of the rows left, for the provers. *)
LEMMA AtHand ==
    ASSUME TypeOK, poller.todo # {}
    PROVE  /\ at_hand \in poller.todo /\ at_hand \in Copy
           /\ id \in RequestId /\ row \in RequestRow
           /\ at_hand.id = id /\ at_hand.row = row
           /\ \A f \in poller.todo : id <= f.id
  <1>1. poller.todo \in SUBSET Copy
    BY DEF TypeOK, PollerState
  <1>2. at_hand \in poller.todo /\ \A f \in poller.todo : at_hand.id <= f.id
    BY <1>1, FirstRow DEF at_hand
  <1> QED BY <1>1, <1>2 DEF id, row, Copy

(* Past the row at hand, the rows left are of other requests. *)
LEMMA NextRow ==
    ASSUME TypeOK, PollerOK, poller.todo # {}, NEW at \in PollerSteps,
           next_row(at)
    PROVE  /\ poller' \in PollerState /\ poller'.at = at
           /\ poller'.todo = poller.todo \ {at_hand}
           /\ poller'.todo \in SUBSET Copy
           /\ \A e, f \in poller'.todo : e.id = f.id => e = f
           /\ \A e \in poller'.todo : e \in poller.todo /\ e.id # id
  <1>1. at_hand \in poller.todo /\ at_hand.id = id
    BY AtHand
  <1>2. /\ poller' = [at |-> at, todo |-> poller.todo \ {at_hand},
                      verdict |-> None]
        /\ poller.todo \in SUBSET Copy
    BY DEF next_row, goto, Poller, TypeOK, PollerState
  <1>3. \A e, f \in poller.todo : e.id = f.id => e = f
    BY DEF PollerOK
  <1>4. \A e \in poller.todo \ {at_hand} : e \in poller.todo /\ e.id # id
    BY <1>1, <1>3
  <1>5. poller'.at = at /\ poller'.todo = poller.todo \ {at_hand}
    BY <1>2
  <1>6. poller' \in PollerState
    BY <1>2 DEF PollerState
  <1> QED BY <1>2, <1>3, <1>4, <1>5, <1>6

(* A poller that is sent on takes the rows it is given. *)
LEMMA Goes ==
    ASSUME NEW at \in PollerSteps, NEW T \in SUBSET Copy, goto(at, T)
    PROVE  poller' \in PollerState /\ poller'.at = at /\ poller'.todo = T
  BY DEF goto, Poller, PollerState

-----------------------------------------------------------------------------
(* What a step keeps of a row.                                             *)

(* Its downloads stay named. *)
TagsKept(q, q2) ==
    \A t \in Tag : t \in {q.client_tag, q.remove_tag} =>
                   t \in {q2.client_tag, q2.remove_tag}

(* An import noted, or abandoned, stays so. *)
KeyKept(q, q2) ==
    /\ q.import_key # None => q2.import_key = q.import_key
    /\ abandoned(q) => abandoned(q2)

(* What the poller relies on stays true; D: the books deleted. *)
ReadKept(q, q2, D) ==
    /\ q.remove_tag # None => q2.remove_tag = q.remove_tag
    /\ tagged(q) => tagged(q2)
    /\ ~filing(q) => ~filing(q2)
    /\ handing(q) => handing(q2) /\ q2.client_tag = q.client_tag
    /\ q2.reader = q.reader
    /\ importing(q) \/ (abandoned(q) /\ q.book \in D) =>
          /\ q2.chosen = q.chosen /\ q2.import_key = q.import_key
          /\ \/ importing(q) /\ importing(q2)
             \/ abandoned(q2) /\ q2.book \in D

(* The row goes with the account of its reader, and leaves its tags. *)
Cascaded(q) ==
    /\ q.reader \in gone_readers'
    /\ \A t \in Tag : t \in {q.client_tag, q.remove_tag} => t \in orphaned'

(* No account comes back, and no id. *)
Onward ==
    /\ gone_readers \subseteq gone_readers' /\ orphaned \subseteq orphaned'
    /\ next_request' \in Nat /\ next_request <= next_request'
    /\ \A o \in RequestId : request'[o] # None =>
          exists(o) \/ ~(o < next_request)

(* No job of the client comes out of nothing, or is fetched again. *)
ClientQuiet ==
    \A t \in Tag : /\ client'[t] # "absent" => client[t] # "absent"
                   /\ client'[t] = "fetching" => client[t] = "fetching"

(* A row that is not written keeps what it says of the rest, as long as    *)
(* its pick is not given up and no version comes back.                     *)
LEMMA LinkedKept ==
    ASSUME NEW r \in RequestId, NEW q \in RequestRow, Linked(r, q),
           next_result \in Nat, next_result' \in Nat,
           next_result <= next_result',
           q.chosen # None => result'[q.chosen] = result[q.chosen],
           q.remove_tag # None /\ (result[q.remove_tag[2]] # None =>
                                      result[q.remove_tag[2]].tried) =>
               (result'[q.remove_tag[2]] # None =>
                   result'[q.remove_tag[2]].tried),
           q.remove_tag # None /\ client'[q.remove_tag] = "fetching" =>
               client[q.remove_tag] = "fetching",
           q.import_key # None /\ library[q.import_key] > 0 =>
               library'[q.import_key] > 0,
           q.book \in deleted' => q.book \in deleted
    PROVE  Linked(r, q)'
  <1>1. q.remove_tag # None => q.remove_tag[2] \in Nat
    BY Names, NoneFacts, Columns
  <1>2. (q.chosen # None =>
            /\ result[q.chosen] # None
            /\ result[q.chosen].req = r /\ ~result[q.chosen].tried)'
    BY DEF Linked
  <1>3. (q.remove_tag # None =>
            \/ for_good(q) /\ q.client_tag = None
            \/ /\ q.remove_tag[2] # q.chosen
               /\ \/ result[q.remove_tag[2]] = None
                  \/ result[q.remove_tag[2]].tried)'
    BY DEF Linked
  <1>4. (q.remove_tag # None => q.remove_tag[2] < next_result)'
    BY <1>1 DEF Linked
  <1>5. (q.remove_tag # None /\ q.remove_since # "recent" =>
            client[q.remove_tag] # "fetching")'
    BY DEF Linked
  <1>6. (q.import_key # None => library[q.import_key] > 0)'
    BY DEF Linked
  <1>7. (q.book \in deleted => q.state = "cancelled" /\ q.prior_state = None)'
    BY DEF Linked
  <1> QED BY <1>2, <1>3, <1>4, <1>5, <1>6, <1>7 DEF Linked

(* One row is written; the versions, the library and the books are not.    *)
LEMMA RowMoves ==
    ASSUME TypeOK, Rows, NEW r \in RequestId, exists(r),
           NEW q \in RequestRow, update(r, q), Shape(r, q), Linked(r, q),
           UNCHANGED <<versions, library, shelf>>, ClientQuiet
    PROVE  /\ Rows' /\ request' \in [RequestId -> RequestRow \cup {None}]
           /\ request'[r] = q
           /\ \A o \in RequestId : o # r => request'[o] = request[o]
           /\ \A o \in RequestId : exists(o)' <=> exists(o)
  <1>1. /\ request \in [RequestId -> RequestRow \cup {None}]
        /\ request' = [request EXCEPT ![r] = q]
    BY DEF TypeOK, update
  <1>2. /\ request' \in [RequestId -> RequestRow \cup {None}]
        /\ request'[r] = q
        /\ \A o \in RequestId : o # r => request'[o] = request[o]
    BY <1>1
  <1>3. ASSUME NEW o \in RequestId PROVE exists(o)' <=> exists(o)
    BY <1>2, NoneFacts DEF exists
  <1>4. /\ result' = result /\ next_result' = next_result /\ library' = library
        /\ deleted' = deleted /\ next_request' = next_request
        /\ gone_readers' = gone_readers /\ orphaned' = orphaned
        /\ next_result \in Nat
    BY BoundsAssumption DEF versions, shelf, accounts, TypeOK
  <1>5. ASSUME NEW o \in RequestId, NEW p \in RequestRow, Linked(o, p)
        PROVE  Linked(o, p)'
    <2>1. p.remove_tag # None => p.remove_tag \in Tag
      BY Columns
    <2>2. next_result <= next_result' /\ next_result' \in Nat
      BY <1>4
    <2>3. p.remove_tag # None /\ client'[p.remove_tag] = "fetching" =>
             client[p.remove_tag] = "fetching"
      BY <2>1 DEF ClientQuiet
    <2> QED BY <1>4, <1>5, <2>2, <2>3, LinkedKept
  <1>6. ASSUME NEW o \in RequestId, exists(o)'
        PROVE  o < next_request' /\ Shape(o, request'[o])
               /\ Linked(o, request[o])'
    <2>1. o < next_request /\ Shape(o, request[o]) /\ Linked(o, request[o])
          /\ request[o] \in RequestRow
      BY <1>3, <1>6, RowThere DEF Rows
    <2>2. ASSUME NEW p \in RequestRow, Linked(o, p), request'[o] = p
          PROVE  Linked(o, request[o])'
      <3>1. Linked(o, p)'
        BY <1>5, <2>2
      <3> QED BY <2>2, <3>1 DEF Linked
    <2>3. CASE o = r
      BY <1>2, <1>4, <2>1, <2>2, <2>3
    <2>4. CASE o # r
      BY <1>2, <1>4, <2>1, <2>2, <2>4
    <2> QED BY <2>3, <2>4
  <1>7. \A v \in ResultId : (result[v] # None => v < next_result)'
    BY <1>4 DEF Rows
  <1>8. \A o \in RequestId : (exists(o) =>
            o < next_request /\ Shape(o, request[o]) /\ Linked(o, request[o]))'
    BY <1>6 DEF Shape
  <1>9. Rows'
    BY <1>7, <1>8 DEF Rows
  <1> QED BY <1>2, <1>3, <1>9

(* Downloads stay named when their rows keep naming them. *)
LEMMA OrphanKept ==
    ASSUME TypeOK, NoOrphanDownload,
           \A t \in Tag : client'[t] # "absent" => client[t] # "absent",
           orphaned \subseteq orphaned',
           \A o \in RequestId : exists(o) /\ tagged(request[o]) =>
               \/ exists(o)' /\ TagsKept(request[o], request'[o])
               \/ Cascaded(request[o])
    PROVE  NoOrphanDownload'
  <1> SUFFICES ASSUME NEW t \in Tag, client'[t] # "absent", t \notin orphaned'
               PROVE  \E r \in RequestId :
                         /\ exists(r)'
                         /\ t \in {request'[r].client_tag,
                                   request'[r].remove_tag}
    BY DEF NoOrphanDownload
  <1>1. PICK r \in RequestId :
            exists(r) /\ t \in {request[r].client_tag, request[r].remove_tag}
    BY DEF NoOrphanDownload
  <1>2. tagged(request[r])
    BY <1>1, NoneFacts DEF tagged
  <1>3. exists(r)' /\ TagsKept(request[r], request'[r])
    BY <1>1, <1>2 DEF Cascaded
  <1> QED BY <1>1, <1>3 DEF TagsKept

(* A request looking stays looked for when the searches are left alone and *)
(* nobody else starts to look.                                             *)
LEMMA LookingKept ==
    ASSUME LookingIsSearched, crashes' = crashes,
           \A k \in Slot : search[k] # None => search'[k] = search[k],
           \A o \in RequestId : exists(o)' /\ request'[o].state = "looking" =>
               \/ exists(o) /\ request[o].state = "looking"
               \/ \E k \in Slot : search'[k] = o
    PROVE  LookingIsSearched'
  <1> SUFFICES ASSUME crashes = 0,
                      NEW o \in RequestId,
                      exists(o)', request'[o].state = "looking"
               PROVE  \E k \in Slot : search'[k] = o
    BY DEF LookingIsSearched
  <1>1. CASE exists(o) /\ request[o].state = "looking"
    <2>1. PICK k \in Slot : search[k] = o
      BY <1>1 DEF LookingIsSearched
    <2> QED BY <2>1, NoneFacts
  <1>2. CASE \E k \in Slot : search'[k] = o
    BY <1>2
  <1> QED BY <1>1, <1>2

(* Copies in the library stay noted. *)
LEMMA CopiesKept ==
    ASSUME TypeOK, Copies, library' = library, crashes' = crashes,
           next_request' \in Nat, next_request <= next_request',
           poller' = poller \/ poller.at # "key",
           \A o \in RequestId : exists(o) =>
               \/ exists(o)' /\ KeyKept(request[o], request'[o])
               \/ ~exists(o)' /\ o < next_request,
           \A o \in RequestId : exists(o)' => exists(o) \/ ~(o < next_request)
    PROVE  Copies'
  <1> SUFFICES ASSUME NEW t \in Tag, ~(library[t] <= crashes)
               PROVE  library[t] = crashes + 1 /\ Noted(t)'
    BY DEF Copies
  <1>1. library[t] = crashes + 1 /\ Noted(t)
    BY DEF Copies
  <1>2. t[1] \in RequestId /\ t[1] \in Nat /\ next_request \in Nat
    BY Names, BoundsAssumption DEF TypeOK
  <1>3. CASE poller.at = "key" /\ row.client_tag = t
    <2>1. poller' = poller
      BY <1>3
    <2>2. row' = row
      BY <2>1 DEF row, at_hand
    <2> QED BY <1>1, <1>3, <2>1, <2>2 DEF Noted
  <1>4. CASE ~exists(t[1]) /\ t[1] < next_request
    <2>1. ~exists(t[1])'
      BY <1>2, <1>4
    <2>2. t[1] < next_request'
      BY <1>2, <1>4
    <2>3. (~exists(t[1]) /\ t[1] < next_request)'
      BY <2>1, <2>2
    <2> QED BY <1>1, <2>3 DEF Noted
  <1>5. CASE /\ exists(t[1])
             /\ request[t[1]].import_key = t \/ abandoned(request[t[1]])
    <2>1. CASE exists(t[1])' /\ KeyKept(request[t[1]], request'[t[1]])
      <3>1. (request[t[1]].import_key = t \/ abandoned(request[t[1]]))'
        BY <1>5, <2>1, NoneFacts DEF KeyKept, abandoned
      <3> QED BY <1>1, <2>1, <3>1 DEF Noted
    <2>2. CASE ~exists(t[1])' /\ t[1] < next_request
      <3>1. (~exists(t[1]) /\ t[1] < next_request)'
        BY <1>2, <2>2
      <3> QED BY <1>1, <3>1 DEF Noted
    <2> QED BY <1>2, <1>5, <2>1, <2>2
  <1> QED BY <1>1, <1>3, <1>4, <1>5 DEF Noted

(* A request that went stays away. *)
LEMMA GoneStays ==
    ASSUME TypeOK, Onward, NEW e \in Copy, Gone(e)
    PROVE  Gone(e)'
  <1>1. e.id \in RequestId /\ e.id \in Nat /\ next_request \in Nat
    BY Names, BoundsAssumption DEF Copy, TypeOK
  <1>2. ~(request'[e.id] # None)
    BY <1>1 DEF Gone, Onward
  <1>3. e.id < next_request'
    BY <1>1 DEF Gone, Onward
  <1> QED BY <1>2, <1>3 DEF Gone, exists

(* A step of another actor keeps what the poller relies on. *)
LEMMA PollerKept ==
    ASSUME TypeOK, Rows, PollerOK, poller' = poller, library' = library,
           crashes' = crashes, ClientQuiet, deleted \subseteq deleted', Onward,
           \A o \in RequestId :
               exists(o) /\ (tagged(request[o]) \/ abandoned(request[o])) =>
                 \/ /\ exists(o)'
                    /\ ReadKept(request[o], request'[o], deleted')
                    /\ request'[o].book = request[o].book
                 \/ ~tagged(request[o]) /\ request[o].book \notin deleted
                 \/ ~exists(o)' /\ Cascaded(request[o])
    PROVE  PollerOK'
  <1>1. at_hand' = at_hand /\ row' = row /\ id' = id
    BY DEF row, at_hand, id
  <1>2. poller.todo \in SUBSET Copy
    BY DEF TypeOK, PollerState
  <1>3. ASSUME NEW e \in Copy
        PROVE  /\ e.id \in RequestId /\ e.row \in RequestRow
               /\ request[e.id] \in RequestRow \cup {None}
               /\ exists(e.id) /\ ~exists(e.id)' => Gone(e)'
    <2>1. e.id \in RequestId /\ e.row \in RequestRow /\ e.id \in Nat
          /\ next_request \in Nat
      BY <1>3, Names, BoundsAssumption DEF Copy, TypeOK
    <2>2. exists(e.id) => e.id < next_request
      BY <2>1 DEF Rows
    <2>3. exists(e.id) => e.id < next_request'
      BY <2>1, <2>2 DEF Onward
    <2> QED BY <2>1, <2>3, RowThere DEF Gone
  <1>4. ASSUME NEW e \in Copy, RemovalRead(e) PROVE RemovalRead(e)'
    <2>1. e.row.remove_tag \in Tag
      BY <1>3, <1>4, Columns DEF RemovalRead
    <2>2. e.row.remove_since # "recent" =>
             client'[e.row.remove_tag] # "fetching"
      BY <1>4, <2>1 DEF RemovalRead, ClientQuiet
    <2>3. CASE Gone(e)
      BY <1>4, <2>2, <2>3, GoneStays DEF RemovalRead
    <2>4. CASE exists(e.id) /\ request[e.id].remove_tag = e.row.remove_tag
      <3>1. tagged(request[e.id]) /\ request[e.id].remove_tag # None
        BY <1>4, <2>4 DEF RemovalRead, tagged
      <3>2. \/ Gone(e)'
            \/ /\ exists(e.id)'
               /\ request'[e.id].remove_tag = request[e.id].remove_tag
        BY <1>3, <2>4, <3>1 DEF ReadKept
      <3> QED BY <1>4, <2>2, <2>4, <3>2 DEF RemovalRead
    <2> QED BY <1>4, <2>3, <2>4 DEF RemovalRead
  <1>5. ASSUME NEW e \in Copy, Following(e) PROVE Following(e)'
    <2>1. CASE Gone(e)
      BY <1>5, <2>1, GoneStays DEF Following
    <2>2. CASE exists(e.id) /\ tagged(request[e.id]) /\ ~filing(request[e.id])
      <3>1. CASE ~exists(e.id)'
        BY <1>3, <1>5, <2>2, <3>1 DEF Following
      <3>2. CASE exists(e.id)'
        <4>1. ReadKept(request[e.id], request'[e.id], deleted')
          BY <1>3, <2>2, <3>2
        <4>2. tagged(request'[e.id]) /\ ~filing(request'[e.id])
          BY <2>2, <4>1 DEF ReadKept
        <4> QED BY <1>5, <3>2, <4>2 DEF Following, tagged, filing
      <3> QED BY <3>1, <3>2
    <2> QED BY <1>5, <2>1, <2>2 DEF Following
  <1>6. ASSUME NEW e \in Copy, HandRead(e) PROVE HandRead(e)'
    <2>1. CASE Gone(e) /\ e.row.client_tag \in orphaned
      BY <1>6, <2>1, GoneStays DEF HandRead, Onward
    <2>2. CASE /\ exists(e.id) /\ handing(request[e.id])
               /\ request[e.id].client_tag = e.row.client_tag
      <3>1. tagged(request[e.id]) /\ e.row.client_tag \in Tag
        BY <1>3, <1>6, <2>2, Columns DEF handing, tagged, HandRead
      <3>2. CASE ~exists(e.id)' /\ Cascaded(request[e.id])
        <4>1. Gone(e)' /\ e.row.client_tag \in orphaned'
          BY <1>3, <2>2, <3>1, <3>2 DEF Cascaded
        <4> QED BY <1>6, <4>1 DEF HandRead
      <3>3. CASE exists(e.id)' /\ ReadKept(request[e.id], request'[e.id], deleted')
        <4>1. handing(request'[e.id])
              /\ request'[e.id].client_tag = e.row.client_tag
          BY <2>2, <3>3 DEF ReadKept
        <4> QED BY <1>6, <3>3, <4>1 DEF HandRead, handing
      <3> QED BY <1>3, <2>2, <3>1, <3>2, <3>3
    <2> QED BY <1>6, <2>1, <2>2 DEF HandRead
  <1>7. ASSUME NEW e \in Copy, ImportRead(e)
        PROVE  /\ ImportRead(e)'
               /\ exists(e.id)' =>
                  /\ exists(e.id)
                  /\ request'[e.id].import_key = request[e.id].import_key
                  /\ request'[e.id].state = "on_its_way" =>
                        request[e.id].state = "on_its_way"
    <2>1. CASE Gone(e)
      <3>1. Gone(e)' /\ ~exists(e.id)'
        BY <2>1, GoneStays DEF Gone
      <3>2. e.row.reader \in gone_readers'
        BY <1>7, <2>1 DEF ImportRead, Gone, Onward
      <3> QED BY <1>7, <3>1, <3>2 DEF ImportRead
    <2>2. CASE exists(e.id) /\ ImportGoesOn(request[e.id], e.row)
      <3> DEFINE q == request[e.id]  q2 == request'[e.id]
      <3>1. /\ q.chosen = e.row.chosen /\ q.reader = e.row.reader
            /\ importing(q) \/ (abandoned(q) /\ q.book \in deleted)
        BY <2>2 DEF ImportGoesOn
      <3>2. importing(q) => tagged(q)
        <4> SUFFICES ASSUME importing(q) PROVE tagged(q)
          OBVIOUS
        <4>1. Shape(e.id, q) /\ exists(e.id)
          BY <1>3, <2>2 DEF Rows
        <4> QED BY <4>1 DEF Shape, importing, stage, tagged
      <3>3. \/ exists(e.id)' /\ ReadKept(q, q2, deleted') /\ q2.book = q.book
            \/ ~exists(e.id)' /\ Cascaded(q)
        BY <1>3, <2>2, <3>1, <3>2
      <3>4. CASE ~exists(e.id)' /\ Cascaded(q)
        <4>1. Gone(e)' /\ e.row.reader \in gone_readers'
          BY <1>3, <2>2, <3>1, <3>4 DEF Cascaded
        <4> QED BY <1>7, <3>4, <4>1 DEF ImportRead
      <3>5. CASE exists(e.id)' /\ ReadKept(q, q2, deleted') /\ q2.book = q.book
        <4>1. /\ q2.chosen = q.chosen /\ q2.import_key = q.import_key
              /\ q2.reader = q.reader
              /\ \/ importing(q) /\ importing(q2)
                 \/ abandoned(q2) /\ q2.book \in deleted'
          BY <3>1, <3>5 DEF ReadKept
        <4>2. ImportRead(e)'
          BY <1>7, <3>1, <3>5, <4>1
             DEF ImportRead, ImportGoesOn, importing, abandoned
        <4>3. q2.state = "on_its_way" => q.state = "on_its_way"
          BY <4>1 DEF importing, abandoned
        <4> QED BY <2>2, <4>1, <4>2, <4>3
      <3> QED BY <3>3, <3>4, <3>5
    <2> QED BY <1>7, <2>1, <2>2 DEF ImportRead
  <1>8. ASSUME NEW e \in Copy, ImportRead(e), Unfiled(e) PROVE Unfiled(e)'
    BY <1>7, <1>8 DEF Unfiled
  <1>9. (\A e, f \in poller.todo : e.id = f.id => e = f)'
    BY DEF PollerOK
  <1>10. (poller.at \in {"remove", "hand_over", "added", "refused", "verdict",
                        "key", "scan"} => poller.todo # {})'
    BY DEF PollerOK
  <1>11. (poller.at = "verdict" => poller.verdict # None)'
    BY DEF PollerOK
  <1>12. (poller.at \in {"removals", "remove"} =>
            \A e \in poller.todo : RemovalRead(e))'
    BY <1>2, <1>4 DEF PollerOK
  <1>13. (poller.at \in {"hand_over", "added", "refused"} =>
            HandRead(at_hand))'
    <2> SUFFICES ASSUME poller.at \in {"hand_over", "added", "refused"}
                 PROVE  HandRead(at_hand)'
      OBVIOUS
    <2>1. HandRead(at_hand) /\ at_hand \in Copy
      BY AtHand DEF PollerOK
    <2>2. ASSUME NEW e \in Copy, e = at_hand PROVE HandRead(at_hand)'
      <3>1. HandRead(e)'
        BY <1>6, <2>1, <2>2
      <3> QED BY <1>1, <2>2, <3>1 DEF HandRead, Gone, exists, handing
    <2> QED BY <2>1, <2>2
  <1>14. (poller.at \in {"downloads", "verdict", "stop", "stop_idle"} =>
            \A e \in poller.todo : Following(e))'
    BY <1>2, <1>5 DEF PollerOK
  <1>15. (poller.at \in {"imports", "key", "scan"} =>
            /\ \A e \in poller.todo : ImportRead(e)
            /\ \A e \in poller.todo :
                  poller.at = "imports" \/ e # at_hand => Unfiled(e))'
    BY <1>1, <1>2, <1>7, <1>8 DEF PollerOK
  <1>16. poller.at \in {"key", "scan"} /\ request'[id] # None =>
            /\ exists(id) /\ request'[id].import_key = request[id].import_key
            /\ request'[id].state = "on_its_way" =>
                  request[id].state = "on_its_way"
    <2> SUFFICES ASSUME poller.at \in {"key", "scan"}, request'[id] # None
                 PROVE  /\ exists(id)
                        /\ request'[id].import_key = request[id].import_key
                        /\ request'[id].state = "on_its_way" =>
                              request[id].state = "on_its_way"
      OBVIOUS
    <2>1. PICK e \in Copy : e = at_hand /\ e.id = id /\ ImportRead(e)
      BY AtHand DEF PollerOK
    <2>2. exists(e.id)'
      BY <2>1 DEF exists
    <2> QED BY <1>7, <2>1, <2>2
  <1>17. (poller.at = "key" =>
            /\ exists(id) => request[id].import_key = None
            /\ library[row.client_tag] > 0)'
    BY <1>1, <1>16 DEF PollerOK, exists
  <1>18. (poller.at = "scan" /\ exists(id) /\ request[id].state = "on_its_way" =>
            request[id].import_key # None)'
    BY <1>1, <1>16 DEF PollerOK, exists
  <1> QED BY <1>9, <1>10, <1>11, <1>12, <1>13, <1>14, <1>15, <1>17, <1>18
          DEF PollerOK

(* An actor other than the poller writes one row.                          *)
LEMMA OthersMove ==
    ASSUME IInv, NEW r \in RequestId, exists(r), NEW q \in RequestRow,
           update(r, q), Shape(r, q), Linked(r, q),
           UNCHANGED <<versions, outside, poller, failing, budgets, shelf>>,
           TagsKept(request[r], q), KeyKept(request[r], q),
           ReadKept(request[r], q, deleted), q.book = request[r].book,
           search' \in [Slot -> RequestId \cup {None}],
           \A k \in Slot : search[k] # None => search'[k] = search[k],
           q.state = "looking" =>
               \/ request[r].state = "looking"
               \/ \E k \in Slot : search'[k] = r
    PROVE  IInv'
  <1>1. TypeOK /\ Rows /\ PollerOK /\ Copies
        /\ NoOrphanDownload /\ LookingIsSearched
    BY DEF IInv
  <1>2. /\ result' = result /\ next_result' = next_result
        /\ client' = client /\ library' = library /\ poller' = poller
        /\ failing' = failing /\ faults' = faults /\ crashes' = crashes
        /\ next_request' = next_request /\ deleted' = deleted
        /\ gone_readers' = gone_readers /\ orphaned' = orphaned
    BY DEF versions, outside, budgets, shelf, accounts
  <1>3. ClientQuiet
    BY <1>2 DEF ClientQuiet
  <1>4. /\ Rows' /\ request' \in [RequestId -> RequestRow \cup {None}]
        /\ request'[r] = q
        /\ \A o \in RequestId : o # r => request'[o] = request[o]
        /\ \A o \in RequestId : exists(o)' <=> exists(o)
    BY <1>1, <1>2, <1>3, RowMoves DEF versions, shelf, accounts
  <1>5. TypeOK'
    BY <1>1, <1>2, <1>4 DEF TypeOK
  <1>6. ASSUME NEW o \in RequestId, exists(o)
        PROVE  /\ exists(o)'
               /\ TagsKept(request[o], request'[o])
               /\ KeyKept(request[o], request'[o])
               /\ ReadKept(request[o], request'[o], deleted')
               /\ request'[o].book = request[o].book
    <2>1. CASE o = r
      BY <1>2, <1>4, <1>6, <2>1
    <2>2. CASE o # r
      <3>1. request'[o] = request[o] /\ exists(o)'
        BY <1>4, <1>6, <2>2
      <3> QED BY <3>1 DEF TagsKept, KeyKept, ReadKept
    <2> QED BY <2>1, <2>2
  <1>7. NoOrphanDownload'
    BY <1>1, <1>2, <1>3, <1>6, OrphanKept DEF ClientQuiet
  <1>8. LookingIsSearched'
    <2>1. ASSUME NEW o \in RequestId, exists(o)', request'[o].state = "looking"
          PROVE  \/ exists(o) /\ request[o].state = "looking"
                 \/ \E k \in Slot : search'[k] = o
      BY <1>4, <2>1
    <2> QED BY <1>1, <1>2, <2>1, LookingKept
  <1>9. Copies'
    <2>1. next_request' \in Nat /\ next_request <= next_request'
      BY <1>1, <1>2, BoundsAssumption DEF TypeOK
    <2>2. \A o \in RequestId :
             /\ exists(o) => exists(o)' /\ KeyKept(request[o], request'[o])
             /\ exists(o)' => exists(o)
      BY <1>4, <1>6
    <2> QED BY <1>1, <1>2, <2>1, <2>2, CopiesKept
  <1>10. PollerOK'
    <2>1. Onward
      BY <1>1, <1>2, <1>4, BoundsAssumption DEF Onward, TypeOK, exists
    <2> QED BY <1>1, <1>2, <1>3, <1>6, <2>1, PollerKept
  <1> QED BY <1>4, <1>5, <1>7, <1>8, <1>9, <1>10 DEF IInv

(* The first free slot takes a search, and the others go on.               *)
LEMMA Spawned ==
    ASSUME TypeOK, NEW r \in RequestId, spawn_search(r)
    PROVE  /\ search' \in [Slot -> RequestId \cup {None}]
           /\ \A k \in Slot : search[k] # None => search'[k] = search[k]
           /\ \E k \in Slot : search'[k] = r
  BY DEF TypeOK, spawn_search

(* The invariant, and the shape and links of an existing row.              *)
LEMMA RowOf ==
    ASSUME IInv, NEW r \in RequestId, exists(r)
    PROVE  /\ request[r] \in RequestRow
           /\ Shape(r, request[r]) /\ Linked(r, request[r])
           /\ r < next_request
  BY RowThere DEF IInv, Rows

-----------------------------------------------------------------------------
(* The reader.                                                             *)

(* choose: the pick is a version of the request's own, not given up. *)
LEMMA Choose ==
    ASSUME IInv, NEW r \in RequestId, NEW v \in ResultId, choose(r, v)
    PROVE  IInv'
  <1> DEFINE old == request[r]
             q == [old EXCEPT !.state = "chosen", !.chosen = v]
  <1>1. /\ old \in RequestRow /\ Shape(r, old) /\ Linked(r, old)
        /\ exists(r) /\ old.state = "choose"
    BY RowOf DEF choose
  <1>2. /\ q \in RequestRow /\ q.state = "chosen" /\ q.chosen = v
        /\ q.stuck_reason = old.stuck_reason /\ q.client_tag = old.client_tag
        /\ q.import_key = old.import_key /\ q.remove_tag = old.remove_tag
        /\ q.remove_since = old.remove_since /\ q.progress = old.progress
        /\ q.cancel_at = old.cancel_at /\ q.prior_state = old.prior_state
        /\ q.book = old.book
        /\ q.reader = old.reader
    BY <1>1 DEF RequestRow, State, LIVE_STATES
  <1>3. result[v] # None /\ result[v].req = r /\ ~result[v].tried
    BY DEF choose, offered
  <1>4. update(r, q)
    BY DEF choose
  <1> HIDE DEF q, old
  <1>5. old.chosen = None /\ old.client_tag = None /\ old.import_key = None
        /\ old.progress = None
    BY <1>1 DEF Shape, unpicked, stage
  <1>6. Shape(r, q)
    BY <1>1, <1>2, <1>5, NoneFacts DEF Shape, stage, unpicked
  <1>7. Linked(r, q)
    BY <1>1, <1>2, <1>3, <1>5, NoneFacts DEF Linked, for_good
  <1>8. TagsKept(old, q) /\ KeyKept(old, q) /\ ReadKept(old, q, deleted)
    BY <1>1, <1>2, <1>5
       DEF TagsKept, KeyKept, ReadKept, tagged, filing, handing, importing,
           abandoned
  <1>9. search' = search /\ search \in [Slot -> RequestId \cup {None}]
    BY DEF choose, IInv, TypeOK
  <1> QED BY <1>1, <1>2, <1>4, <1>6, <1>7, <1>8, <1>9, OthersMove
          DEF choose, old

(* cancel: the row keeps its download, and where it was. *)
LEMMA Cancel ==
    ASSUME IInv, NEW r \in RequestId, cancel(r)
    PROVE  IInv'
  <1> DEFINE old == request[r]
             q == [old EXCEPT !.prior_state = old.state,
                              !.state = "cancelled", !.cancel_at = "ahead"]
  <1>1. /\ old \in RequestRow /\ Shape(r, old) /\ Linked(r, old)
        /\ exists(r)
        /\ \/ old.state \in {"looking", "choose", "chosen"}
           \/ old.state = "on_its_way" /\ old.progress # "full"
    BY RowOf DEF cancel, may_cancel, downloading
  <1>2. /\ q \in RequestRow /\ q.state = "cancelled" /\ q.chosen = old.chosen
        /\ q.stuck_reason = old.stuck_reason /\ q.client_tag = old.client_tag
        /\ q.import_key = old.import_key /\ q.remove_tag = old.remove_tag
        /\ q.remove_since = old.remove_since /\ q.progress = old.progress
        /\ q.cancel_at = "ahead" /\ q.prior_state = old.state
        /\ q.book = old.book
        /\ q.reader = old.reader
    BY <1>1 DEF RequestRow, State, LIVE_STATES
  <1>3. update(r, q)
    BY DEF cancel
  <1> HIDE DEF q, old
  <1>4. Shape(r, q)
    BY <1>1, <1>2, NoneFacts DEF Shape, stage, unpicked
  <1>5. old.book \notin deleted
    BY <1>1 DEF Linked
  <1>6. Linked(r, q)
    BY <1>1, <1>2, <1>5, NoneFacts DEF Linked, for_good
  <1>7. TagsKept(old, q) /\ KeyKept(old, q) /\ ReadKept(old, q, deleted)
    BY <1>1, <1>2, NoneFacts
       DEF TagsKept, KeyKept, ReadKept, tagged, filing, handing, importing,
           abandoned
  <1>8. search' = search /\ search \in [Slot -> RequestId \cup {None}]
    BY DEF cancel, IInv, TypeOK
  <1> QED BY <1>1, <1>2, <1>3, <1>4, <1>6, <1>7, <1>8, OthersMove
          DEF cancel, old

(* undo_cancel: the row is where it was, and is searched again if that is  *)
(* looking.                                                                *)
LEMMA UndoCancel ==
    ASSUME IInv, NEW r \in RequestId, undo_cancel(r)
    PROVE  IInv'
  <1> DEFINE old == request[r]
             q == [old EXCEPT !.state = old.prior_state,
                              !.prior_state = None, !.cancel_at = None]
  <1>1. /\ old \in RequestRow /\ Shape(r, old) /\ Linked(r, old)
        /\ exists(r) /\ old.state = "cancelled" /\ old.cancel_at = "ahead"
        /\ old.prior_state # None
    BY RowOf DEF undo_cancel, may_undo
  <1>2. /\ q \in RequestRow /\ q.state = old.prior_state
        /\ q.chosen = old.chosen
        /\ q.stuck_reason = old.stuck_reason /\ q.client_tag = old.client_tag
        /\ q.import_key = old.import_key /\ q.remove_tag = old.remove_tag
        /\ q.remove_since = old.remove_since /\ q.progress = old.progress
        /\ q.cancel_at = None /\ q.prior_state = None
        /\ q.book = old.book
        /\ q.reader = old.reader
        /\ q.state \in LIVE_STATES
    BY <1>1 DEF RequestRow, State, LIVE_STATES
  <1>3. update(r, q)
    BY DEF undo_cancel
  <1> HIDE DEF q, old
  <1>4. Shape(r, q)
    BY <1>1, <1>2, NoneFacts DEF Shape, stage, unpicked, LIVE_STATES
  <1>5. old.book \notin deleted
    BY <1>1 DEF Linked
  <1>6. Linked(r, q)
    BY <1>1, <1>2, <1>5, NoneFacts DEF Linked, for_good, may_undo
  <1>7. TagsKept(old, q) /\ KeyKept(old, q)
    BY <1>1, <1>2, NoneFacts DEF TagsKept, KeyKept, abandoned
  <1>8. ReadKept(old, q, deleted)
    BY <1>1, <1>2, NoneFacts
       DEF ReadKept, tagged, filing, handing, importing, abandoned, LIVE_STATES
  <1>9. /\ search' \in [Slot -> RequestId \cup {None}]
        /\ \A k \in Slot : search[k] # None => search'[k] = search[k]
        /\ q.state = "looking" => \E k \in Slot : search'[k] = r
    <2>1. search_again(r, q.state)
      BY <1>2 DEF undo_cancel, old
    <2>2. CASE q.state = "looking"
      BY <2>1, <2>2, Spawned DEF search_again, IInv
    <2>3. CASE q.state # "looking"
      BY <2>1, <2>3 DEF search_again, IInv, TypeOK
    <2> QED BY <2>2, <2>3
  <1> QED BY <1>1, <1>2, <1>3, <1>4, <1>6, <1>7, <1>8, <1>9, OthersMove
          DEF undo_cancel, old

(* grace_ends: an undo comes too late. *)
LEMMA GraceEnds ==
    ASSUME IInv, NEW r \in RequestId, grace_ends(r)
    PROVE  IInv'
  <1> DEFINE old == request[r]
             q == [old EXCEPT !.cancel_at = "due"]
  <1>1. /\ old \in RequestRow /\ Shape(r, old) /\ Linked(r, old)
        /\ exists(r) /\ old.cancel_at = "ahead"
    BY RowOf DEF grace_ends
  <1>2. /\ q \in RequestRow /\ q.state = old.state
        /\ q.chosen = old.chosen
        /\ q.stuck_reason = old.stuck_reason /\ q.client_tag = old.client_tag
        /\ q.import_key = old.import_key /\ q.remove_tag = old.remove_tag
        /\ q.remove_since = old.remove_since /\ q.progress = old.progress
        /\ q.cancel_at = "due" /\ q.prior_state = old.prior_state
        /\ q.book = old.book
        /\ q.reader = old.reader
    BY <1>1 DEF RequestRow
  <1>3. update(r, q)
    BY DEF grace_ends
  <1> HIDE DEF q, old
  <1>4. old.state = "cancelled"
    BY <1>1, NoneFacts DEF Shape
  <1>5. Shape(r, q)
    BY <1>1, <1>2, <1>4, NoneFacts DEF Shape, stage, unpicked
  <1>6. Linked(r, q)
    BY <1>1, <1>2, <1>4 DEF Linked, for_good, may_undo
  <1>7. TagsKept(old, q) /\ KeyKept(old, q) /\ ReadKept(old, q, deleted)
    BY <1>1, <1>2
       DEF TagsKept, KeyKept, ReadKept, tagged, filing, handing, importing,
           abandoned
  <1>8. search' = search /\ search \in [Slot -> RequestId \cup {None}]
    BY DEF grace_ends, IInv, TypeOK
  <1> QED BY <1>1, <1>2, <1>3, <1>4, <1>5, <1>6, <1>7, <1>8, OthersMove
          DEF grace_ends, old

(* removal_ages: a download that is fetched has shown by then. *)
LEMMA RemovalAges ==
    ASSUME IInv, NEW r \in RequestId, removal_ages(r)
    PROVE  IInv'
  <1> DEFINE old == request[r]
             q == [old EXCEPT !.remove_since = "overdue"]
  <1>1. /\ old \in RequestRow /\ Shape(r, old) /\ Linked(r, old)
        /\ exists(r) /\ old.remove_since = "recent"
        /\ client[old.remove_tag] # "fetching"
    BY RowOf DEF removal_ages
  <1>2. /\ q \in RequestRow /\ q.state = old.state
        /\ q.chosen = old.chosen
        /\ q.stuck_reason = old.stuck_reason /\ q.client_tag = old.client_tag
        /\ q.import_key = old.import_key /\ q.remove_tag = old.remove_tag
        /\ q.remove_since = "overdue" /\ q.progress = old.progress
        /\ q.cancel_at = old.cancel_at /\ q.prior_state = old.prior_state
        /\ q.book = old.book
        /\ q.reader = old.reader
    BY <1>1 DEF RequestRow
  <1>3. update(r, q)
    BY DEF removal_ages
  <1> HIDE DEF q, old
  <1>4. Shape(r, q)
    BY <1>1, <1>2, NoneFacts DEF Shape, stage, unpicked
  <1>5. Linked(r, q)
    BY <1>1, <1>2 DEF Linked, for_good, may_undo
  <1>6. TagsKept(old, q) /\ KeyKept(old, q) /\ ReadKept(old, q, deleted)
    BY <1>1, <1>2
       DEF TagsKept, KeyKept, ReadKept, tagged, filing, handing, importing,
           abandoned
  <1>7. search' = search /\ search \in [Slot -> RequestId \cup {None}]
    BY DEF removal_ages, IInv, TypeOK
  <1> QED BY <1>1, <1>2, <1>3, <1>4, <1>5, <1>6, <1>7, OthersMove
          DEF removal_ages, old

(* restart of a failed import: back to the import. *)
LEMMA ImportAgain ==
    ASSUME IInv, NEW r \in RequestId, exists(r),
           request[r].state = "stuck", request[r].stuck_reason = "couldnt_add",
           update(r, [request[r] EXCEPT !.state = "on_its_way",
                                        !.progress = "full",
                                        !.stuck_reason = None]),
           UNCHANGED <<versions, search, outside, poller, failing, budgets,
                       shelf>>
    PROVE  IInv'
  <1> DEFINE old == request[r]
             q == [old EXCEPT !.state = "on_its_way", !.progress = "full",
                              !.stuck_reason = None]
  <1>1. /\ old \in RequestRow /\ Shape(r, old) /\ Linked(r, old)
        /\ old.state = "stuck" /\ old.stuck_reason = "couldnt_add"
    BY RowOf
  <1>2. /\ q \in RequestRow /\ q.state = "on_its_way"
        /\ q.chosen = old.chosen
        /\ q.stuck_reason = None /\ q.client_tag = old.client_tag
        /\ q.import_key = old.import_key /\ q.remove_tag = old.remove_tag
        /\ q.remove_since = old.remove_since /\ q.progress = "full"
        /\ q.cancel_at = old.cancel_at /\ q.prior_state = old.prior_state
        /\ q.book = old.book
        /\ q.reader = old.reader
    BY <1>1 DEF RequestRow, State, LIVE_STATES
  <1>3. update(r, q)
    OBVIOUS
  <1> HIDE DEF q, old
  <1>4. Shape(r, q)
    BY <1>1, <1>2, NoneFacts DEF Shape, stage, unpicked
  <1>5. old.book \notin deleted
    BY <1>1 DEF Linked
  <1>6. Linked(r, q)
    BY <1>1, <1>2, <1>5 DEF Linked, for_good
  <1>7. TagsKept(old, q) /\ KeyKept(old, q) /\ ReadKept(old, q, deleted)
    BY <1>1, <1>2
       DEF TagsKept, KeyKept, ReadKept, tagged, filing, handing, importing,
           abandoned
  <1>8. search' = search /\ search \in [Slot -> RequestId \cup {None}]
    BY DEF IInv, TypeOK
  <1> QED BY <1>1, <1>2, <1>3, <1>4, <1>6, <1>7, <1>8, OthersMove DEF old

(* Any step but the poller's: what is left to show of it. *)
LEMMA OthersStep ==
    ASSUME IInv, poller' = poller, library' = library, crashes' = crashes,
           ClientQuiet, deleted \subseteq deleted', TypeOK', Rows',
           gone_readers \subseteq gone_readers', orphaned \subseteq orphaned',
           next_request <= next_request',
           \A o \in RequestId : exists(o) =>
               \/ /\ exists(o)'
                  /\ TagsKept(request[o], request'[o])
                  /\ KeyKept(request[o], request'[o])
                  /\ ReadKept(request[o], request'[o], deleted')
                  /\ request'[o].book = request[o].book
               \/ /\ ~exists(o)' /\ ~tagged(request[o])
                  /\ request[o].book \notin deleted
               \/ ~exists(o)' /\ Cascaded(request[o]),
           \A o \in RequestId : exists(o)' => exists(o) \/ ~(o < next_request),
           LookingIsSearched'
    PROVE  IInv'
  <1>1. TypeOK /\ Rows /\ PollerOK /\ Copies /\ NoOrphanDownload
    BY DEF IInv
  <1>2. NoOrphanDownload'
    BY <1>1, OrphanKept DEF ClientQuiet
  <1>3. next_request' \in Nat
    BY BoundsAssumption DEF TypeOK
  <1>4. Copies'
    <2>1. \A o \in RequestId : exists(o) => o < next_request
      BY <1>1 DEF Rows
    <2> QED BY <1>1, <1>3, <2>1, CopiesKept
  <1>5. PollerOK'
    <2>1. Onward
      BY <1>3 DEF Onward, exists
    <2> QED BY <1>1, <2>1, PollerKept
  <1> QED BY <1>2, <1>4, <1>5 DEF IInv

(* The downloads named twice are of one version of one request: a pick is  *)
(* never the version being removed.                                        *)
LEMMA PickIsNotRemoved ==
    ASSUME IInv, NEW r \in RequestId, exists(r), request[r].client_tag # None,
           NEW o \in RequestId, exists(o)
    PROVE  request[o].remove_tag # request[r].client_tag
  <1> SUFFICES ASSUME request[o].remove_tag = request[r].client_tag
               PROVE  FALSE
    OBVIOUS
  <1>1. /\ Shape(r, request[r]) /\ Shape(o, request[o])
        /\ Linked(o, request[o])
    BY RowOf
  <1>2. /\ request[r].client_tag = <<r, request[r].chosen>>
        /\ request[o].remove_tag[1] = o
    BY <1>1 DEF Shape
  <1>3. o = r
    BY <1>2
  <1> QED BY <1>1, <1>2, <1>3 DEF Linked

(* The row of a swap: the tag moved to the removal list, nothing picked. *)
LEMMA SwappedRow ==
    ASSUME NEW old \in RequestRow, NEW state \in State
    PROVE  LET q == swapped(old, state)
           IN  /\ q \in RequestRow /\ q.state = state /\ q.chosen = None
               /\ q.stuck_reason = None /\ q.client_tag = None
               /\ q.import_key = old.import_key /\ q.remove_tag = old.client_tag
               /\ q.remove_since =
                     IF old.client_tag = None THEN None ELSE "recent"
               /\ q.progress = None
               /\ q.cancel_at = old.cancel_at /\ q.prior_state = old.prior_state
               /\ q.book = old.book
               /\ q.reader = old.reader
  <1> DEFINE since == IF old.client_tag = None THEN None ELSE "recent"
  <1>1. since \in {"recent", "overdue", None}
    OBVIOUS
  <1>2. swapped(old, state) =
           [old EXCEPT !.state = state, !.stuck_reason = None,
                       !.remove_tag = old.client_tag,
                       !.remove_since = since, !.client_tag = None,
                       !.chosen = None, !.progress = None]
    BY DEF swapped
  <1> HIDE DEF since
  <1>3. old.client_tag \in Tag \cup {None}
    BY DEF RequestRow
  <1>4. swapped(old, state) \in RequestRow
    BY <1>1, <1>2, <1>3 DEF RequestRow
  <1> QED BY <1>2, <1>4 DEF RequestRow, since

(* swap_in: the pick is given up for good, its download goes on the        *)
(* removal list.                                                           *)
LEMMA SwapIn ==
    ASSUME IInv, NEW r \in RequestId, exists(r), swap_in(r)
    PROVE  IInv'
  <1> DEFINE old == request[r]
             picked == old.chosen
             state == IF offered(r) \ {picked} # {} THEN "choose" ELSE "looking"
             q == swapped(old, state)
  <1>0. TypeOK /\ Rows
    BY DEF IInv
  <1>1. /\ old \in RequestRow /\ Shape(r, old) /\ Linked(r, old)
        /\ r < next_request /\ old.remove_tag = None
        /\ \/ old.state = "on_its_way" /\ old.progress # "full"
           \/ old.state = "stuck" /\ old.stuck_reason = "stopped_moving"
    BY RowOf DEF swap_in, may_swap, downloading
  <1>2. state \in {"choose", "looking"}
    OBVIOUS
  <1>3. /\ q \in RequestRow /\ q.state = state /\ q.chosen = None
        /\ q.stuck_reason = None /\ q.client_tag = None
        /\ q.import_key = old.import_key /\ q.remove_tag = old.client_tag
        /\ q.remove_since = IF old.client_tag = None THEN None ELSE "recent"
        /\ q.progress = None
        /\ q.cancel_at = old.cancel_at /\ q.prior_state = old.prior_state
        /\ q.book = old.book
        /\ q.reader = old.reader
    <2> HIDE DEF state, old
    <2> QED BY <1>1, <1>2, SwappedRow DEF State, LIVE_STATES
  <1>4. /\ update(r, q) /\ search_again(r, state)
        /\ result' = [result EXCEPT ![picked].tried = TRUE]
        /\ next_result' = next_result /\ poller' = poller
        /\ client' = client /\ library' = library /\ failing' = failing
        /\ faults' = faults /\ crashes' = crashes
        /\ next_request' = next_request /\ deleted' = deleted
        /\ gone_readers' = gone_readers /\ orphaned' = orphaned
    BY DEF swap_in, outside, budgets, shelf, accounts
  <1> HIDE DEF q, old, state
  <1>5. /\ picked \in ResultId /\ picked # None /\ old.import_key = None
        /\ result[picked] # None /\ result[picked].req = r
        /\ ~result[picked].tried
        /\ old.client_tag # None => old.client_tag = <<r, picked>>
    BY <1>1, NoneFacts, Columns DEF Shape, stage, Linked
  <1>6. Shape(r, q)
    BY <1>1, <1>2, <1>3, <1>5, NoneFacts DEF Shape, stage, unpicked
  <1>7. /\ result' \in [ResultId -> ResultRow \cup {None}]
        /\ result'[picked] # None /\ result'[picked].tried
        /\ \A v \in ResultId : v # picked => result'[v] = result[v]
    <2> DEFINE x == [result[picked] EXCEPT !.tried = TRUE]
    <2>1. result[picked] \in ResultRow
      BY <1>0, <1>5, VersionThere
    <2>2. x \in ResultRow /\ x.tried
      BY <2>1 DEF ResultRow
    <2> HIDE DEF x
    <2>3. result' = [result EXCEPT ![picked] = x]
      BY <1>4 DEF x
    <2>4. result \in [ResultId -> ResultRow \cup {None}]
      BY <1>0 DEF TypeOK
    <2> QED BY <1>5, <2>2, <2>3, <2>4, NoneFacts
  <1>8. old.book \notin deleted
    BY <1>1 DEF Linked
  <1>9. /\ request' \in [RequestId -> RequestRow \cup {None}]
        /\ request'[r] = q
        /\ \A o \in RequestId : o # r => request'[o] = request[o]
        /\ \A o \in RequestId : exists(o)' <=> exists(o)
    BY <1>0, <1>3, <1>4, NoneFacts DEF TypeOK, update, exists
  <1>10. next_result \in Nat /\ picked < next_result
    BY <1>0, <1>5, BoundsAssumption DEF Rows, TypeOK
  <1>11. Linked(r, request[r])'
    <2> SUFFICES ASSUME NEW p \in RequestRow, p = q, request'[r] = p
                 PROVE  Linked(r, p)'
      BY <1>3, <1>9 DEF Linked
    <2>1. p.chosen = None /\ p.import_key = None
      BY <1>3, <1>5
    <2>2. p.remove_tag # None =>
             p.remove_tag[2] = picked /\ p.remove_since = "recent"
      BY <1>3, <1>5
    <2>3. p.book \notin deleted'
      BY <1>3, <1>4, <1>8
    <2> QED BY <1>4, <1>5, <1>7, <1>10, <2>1, <2>2, <2>3 DEF Linked
  <1>12. ASSUME NEW o \in RequestId, exists(o), o # r
         PROVE  Linked(o, request[o])'
    <2>1. PICK p \in RequestRow : p = request[o] /\ Linked(o, p)
      BY <1>12, RowOf
    <2>2. p.chosen # None => p.chosen # picked /\ p.chosen \in ResultId
      BY <1>5, <1>12, <2>1, Columns DEF Linked
    <2>3. p.remove_tag # None => p.remove_tag \in Tag
      BY Columns
    <2>4. p.remove_tag # None => p.remove_tag[2] \in ResultId
      BY <2>3, Names
    <2>5. Linked(o, p)'
      BY <1>4, <1>7, <1>10, <2>1, <2>2, <2>4, LinkedKept
    <2> QED BY <1>9, <1>12, <2>1, <2>5 DEF Linked
  <1>13. Rows'
    <2>1. ASSUME NEW o \in RequestId, exists(o)'
          PROVE  (o < next_request /\ Shape(o, request[o])
                    /\ Linked(o, request[o]))'
      <3>1. exists(o)
        BY <1>9, <2>1
      <3>2. CASE o = r
        BY <1>1, <1>4, <1>6, <1>9, <1>11, <3>2 DEF Shape
      <3>3. CASE o # r
        <4>1. /\ o < next_request' /\ Shape(o, request'[o])
              /\ Linked(o, request[o])'
          BY <1>4, <1>9, <1>12, <3>1, <3>3, RowOf
        <4> QED BY <4>1 DEF Shape
      <3> QED BY <3>2, <3>3
    <2>2. ASSUME NEW v \in ResultId, result'[v] # None PROVE v < next_result'
      BY <1>0, <1>4, <1>5, <1>7, <2>2 DEF Rows
    <2> QED BY <2>1, <2>2 DEF Rows
  <1>14. /\ search' \in [Slot -> RequestId \cup {None}]
         /\ \A k \in Slot : search[k] # None => search'[k] = search[k]
         /\ q.state = "looking" => \E k \in Slot : search'[k] = r
    <2>1. CASE state = "looking"
      BY <1>0, <1>3, <1>4, <2>1, Spawned DEF search_again
    <2>2. CASE state # "looking"
      BY <1>0, <1>3, <1>4, <2>2 DEF search_again, TypeOK
    <2> QED BY <2>1, <2>2
  <1>15. TypeOK'
    BY <1>0, <1>4, <1>7, <1>9, <1>14 DEF TypeOK
  <1>16. LookingIsSearched'
    <2>1. ASSUME NEW o \in RequestId, exists(o)', request'[o].state = "looking"
          PROVE  \/ exists(o) /\ request[o].state = "looking"
                 \/ \E k \in Slot : search'[k] = o
      BY <1>9, <1>14, <2>1
    <2> QED BY <1>4, <1>14, <2>1, LookingKept DEF IInv
  <1>17. ASSUME NEW o \in RequestId, exists(o)
         PROVE  /\ exists(o)'
                /\ TagsKept(request[o], request'[o])
                /\ KeyKept(request[o], request'[o])
                /\ ReadKept(request[o], request'[o], deleted')
                /\ request'[o].book = request[o].book
    <2>1. CASE o = r
      <3>1. TagsKept(old, q) /\ KeyKept(old, q) /\ ReadKept(old, q, deleted)
        BY <1>1, <1>2, <1>3, <1>5, NoneFacts
           DEF TagsKept, KeyKept, ReadKept, tagged, filing, handing,
               importing, abandoned
      <3> QED BY <1>3, <1>4, <1>9, <1>17, <2>1, <3>1 DEF old
    <2>2. CASE o # r
      <3>1. request'[o] = request[o] /\ exists(o)'
        BY <1>9, <1>17, <2>2
      <3> QED BY <3>1 DEF TagsKept, KeyKept, ReadKept
    <2> QED BY <2>1, <2>2
  <1>18. ClientQuiet /\ next_request <= next_request'
    BY <1>0, <1>4, BoundsAssumption DEF ClientQuiet, TypeOK
  <1> QED BY <1>4, <1>9, <1>13, <1>15, <1>16, <1>17, <1>18, OthersStep

(* restart of a search: what was found before is forgotten. *)
LEMMA SearchAfresh ==
    ASSUME IInv, NEW r \in RequestId, exists(r),
           \/ request[r].state = "looking"
           \/ /\ request[r].state = "stuck"
              /\ request[r].stuck_reason \in {"not_found", "search_failed"},
           update(r, [request[r] EXCEPT !.state = "looking",
                                        !.stuck_reason = None]),
           result' = [v \in ResultId |->
                         IF result[v] # None /\ result[v].req = r
                         THEN None ELSE result[v]],
           spawn_search(r),
           UNCHANGED <<next_result, outside, poller, failing, budgets, shelf>>
    PROVE  IInv'
  <1> DEFINE old == request[r]
             q == [old EXCEPT !.state = "looking", !.stuck_reason = None]
  <1>0. TypeOK /\ Rows
    BY DEF IInv
  <1>1. /\ old \in RequestRow /\ Shape(r, old) /\ Linked(r, old)
        /\ r < next_request
        /\ \/ old.state = "looking"
           \/ /\ old.state = "stuck"
              /\ old.stuck_reason \in {"not_found", "search_failed"}
    BY RowOf
  <1>2. /\ q \in RequestRow /\ q.state = "looking"
        /\ q.chosen = old.chosen
        /\ q.stuck_reason = None /\ q.client_tag = old.client_tag
        /\ q.import_key = old.import_key /\ q.remove_tag = old.remove_tag
        /\ q.remove_since = old.remove_since /\ q.progress = old.progress
        /\ q.cancel_at = old.cancel_at /\ q.prior_state = old.prior_state
        /\ q.book = old.book
        /\ q.reader = old.reader
    BY <1>1 DEF RequestRow, State, LIVE_STATES
  <1>3. /\ update(r, q)
        /\ next_result' = next_result /\ poller' = poller
        /\ client' = client /\ library' = library /\ failing' = failing
        /\ faults' = faults /\ crashes' = crashes
        /\ next_request' = next_request /\ deleted' = deleted
        /\ gone_readers' = gone_readers /\ orphaned' = orphaned
    BY DEF outside, budgets, shelf, accounts
  <1> HIDE DEF q, old
  <1>4. /\ old.chosen = None /\ old.client_tag = None /\ old.import_key = None
        /\ old.progress = None
    BY <1>1, NoneFacts DEF Shape, unpicked, stage
  <1>5. Shape(r, q)
    BY <1>1, <1>2, <1>4, NoneFacts DEF Shape, stage, unpicked
  <1>6. old.book \notin deleted
    BY <1>1 DEF Linked
  <1>7. /\ result' \in [ResultId -> ResultRow \cup {None}]
        /\ \A v \in ResultId : result'[v] # None =>
              result'[v] = result[v] /\ result[v] # None
        /\ \A v \in ResultId : result[v] # None /\ result[v].req # r =>
              result'[v] = result[v]
    BY <1>0 DEF TypeOK
  <1>8. /\ request' \in [RequestId -> RequestRow \cup {None}]
        /\ request'[r] = q
        /\ \A o \in RequestId : o # r => request'[o] = request[o]
        /\ \A o \in RequestId : exists(o)' <=> exists(o)
    BY <1>0, <1>2, <1>3, NoneFacts DEF TypeOK, update, exists
  <1>9. next_result \in Nat
    BY <1>0, BoundsAssumption DEF TypeOK
  <1>10. ASSUME NEW o \in RequestId, NEW p \in RequestRow, Linked(o, p),
                p.chosen # None => o # r, p.book \notin deleted \/ o # r
         PROVE  Linked(o, p)'
    <2>1. p.chosen # None => p.chosen \in ResultId /\ result[p.chosen] # None
                             /\ result[p.chosen].req = o
      BY <1>10, Columns DEF Linked
    <2>2. p.chosen # None => result'[p.chosen] = result[p.chosen]
      BY <1>7, <1>10, <2>1
    <2>3. p.remove_tag # None => p.remove_tag[2] \in ResultId
      BY Columns, Names
    <2>4. p.remove_tag # None /\ (result[p.remove_tag[2]] # None =>
                                      result[p.remove_tag[2]].tried) =>
               (result'[p.remove_tag[2]] # None =>
                   result'[p.remove_tag[2]].tried)
      BY <1>7, <2>3
    <2> QED BY <1>3, <1>9, <1>10, <2>2, <2>4, LinkedKept
  <1>11. ASSUME NEW o \in RequestId, exists(o) PROVE Linked(o, request[o])'
    <2>1. CASE o = r
      <3> SUFFICES ASSUME NEW p \in RequestRow, p = q, request'[r] = p
                   PROVE  Linked(r, p)'
        BY <1>2, <1>8, <2>1 DEF Linked
      <3>1. Linked(r, p)
        BY <1>1, <1>2, <1>4, <1>6, NoneFacts DEF Linked, for_good
      <3> QED BY <1>2, <1>4, <1>6, <1>10, <3>1
    <2>2. CASE o # r
      <3>1. PICK p \in RequestRow : p = request[o] /\ Linked(o, p)
        BY <1>11, RowOf
      <3>2. Linked(o, p)'
        BY <1>10, <2>2, <3>1
      <3> QED BY <1>8, <2>2, <3>1, <3>2 DEF Linked
    <2> QED BY <2>1, <2>2
  <1>12. Rows'
    <2>1. ASSUME NEW o \in RequestId, exists(o)'
          PROVE  (o < next_request /\ Shape(o, request[o])
                    /\ Linked(o, request[o]))'
      <3>1. exists(o)
        BY <1>8, <2>1
      <3>2. o < next_request' /\ Shape(o, request'[o])
        BY <1>1, <1>3, <1>5, <1>8, <3>1, RowOf
      <3> QED BY <1>11, <3>1, <3>2 DEF Shape
    <2>2. ASSUME NEW v \in ResultId, result'[v] # None PROVE v < next_result'
      BY <1>0, <1>3, <1>7, <2>2 DEF Rows
    <2> QED BY <2>1, <2>2 DEF Rows
  <1>13. /\ search' \in [Slot -> RequestId \cup {None}]
         /\ \A k \in Slot : search[k] # None => search'[k] = search[k]
         /\ \E k \in Slot : search'[k] = r
    BY <1>0, Spawned
  <1>14. TypeOK'
    BY <1>0, <1>3, <1>7, <1>8, <1>13 DEF TypeOK
  <1>15. LookingIsSearched'
    <2>1. ASSUME NEW o \in RequestId, exists(o)', request'[o].state = "looking"
          PROVE  \/ exists(o) /\ request[o].state = "looking"
                 \/ \E k \in Slot : search'[k] = o
      BY <1>8, <1>13, <2>1
    <2> QED BY <1>3, <1>13, <2>1, LookingKept DEF IInv
  <1>16. ASSUME NEW o \in RequestId, exists(o)
         PROVE  /\ exists(o)'
                /\ TagsKept(request[o], request'[o])
                /\ KeyKept(request[o], request'[o])
                /\ ReadKept(request[o], request'[o], deleted')
                /\ request'[o].book = request[o].book
    <2>1. CASE o = r
      <3>1. TagsKept(old, q) /\ KeyKept(old, q) /\ ReadKept(old, q, deleted)
        BY <1>1, <1>2, <1>4, NoneFacts
           DEF TagsKept, KeyKept, ReadKept, tagged, filing, handing,
               importing, abandoned
      <3> QED BY <1>2, <1>3, <1>8, <1>16, <2>1, <3>1 DEF old
    <2>2. CASE o # r
      <3>1. request'[o] = request[o] /\ exists(o)'
        BY <1>8, <1>16, <2>2
      <3> QED BY <3>1 DEF TagsKept, KeyKept, ReadKept
    <2> QED BY <2>1, <2>2
  <1>17. ClientQuiet /\ next_request <= next_request'
    BY <1>0, <1>3, BoundsAssumption DEF ClientQuiet, TypeOK
  <1> QED BY <1>3, <1>8, <1>12, <1>14, <1>15, <1>16, <1>17, OthersStep

(* swap and restart. *)
LEMMA SwapOrRestart ==
    ASSUME IInv, NEW r \in RequestId, swap(r) \/ restart(r)
    PROVE  IInv'
  <1>1. CASE swap(r)
    BY <1>1, SwapIn DEF swap
  <1>2. CASE restart(r)
    <2>1. exists(r)
      BY <1>2 DEF restart
    <2>2. CASE swap_in(r)
      BY <2>1, <2>2, SwapIn
    <2>3. CASE /\ request[r].state = "stuck"
               /\ request[r].stuck_reason = "couldnt_add"
               /\ update(r, [request[r] EXCEPT !.state = "on_its_way",
                                               !.progress = "full",
                                               !.stuck_reason = None])
               /\ UNCHANGED <<versions, search>>
               /\ UNCHANGED <<outside, poller, failing, budgets, shelf>>
      BY <2>1, <2>3, ImportAgain
    <2>4. CASE /\ \/ request[r].state = "looking"
                  \/ /\ request[r].state = "stuck"
                     /\ request[r].stuck_reason \in
                           {"not_found", "search_failed"}
               /\ update(r, [request[r] EXCEPT !.state = "looking",
                                               !.stuck_reason = None])
               /\ result' = [v \in ResultId |->
                                IF result[v] # None /\ result[v].req = r
                                THEN None ELSE result[v]]
               /\ spawn_search(r)
               /\ UNCHANGED <<next_result, outside, poller, failing,
                              budgets, shelf>>
      BY <2>1, <2>4, SearchAfresh
    <2> QED BY <1>2, <2>2, <2>3, <2>4 DEF restart
  <1> QED BY <1>1, <1>2

(* start: the new request has an id nothing names yet. *)
LEMMA Start ==
    ASSUME IInv, NEW u \in Readers, NEW b \in Books, start(u, b)
    PROVE  IInv'
  <1> DEFINE r == next_request
             q == [reader |-> u, book |-> b, state |-> "looking",
                   stuck_reason |-> None, chosen |-> None, client_tag |-> None,
                   import_key |-> None, remove_tag |-> None,
                   remove_since |-> None, progress |-> None,
                   cancel_at |-> None, prior_state |-> None]
  <1>0. TypeOK /\ Rows
    BY DEF IInv
  <1>1. /\ r \in RequestId /\ next_request' = next_request + 1
        /\ b \notin deleted /\ update(r, q) /\ spawn_search(r)
        /\ result' = result /\ next_result' = next_result
        /\ client' = client /\ library' = library /\ poller' = poller
        /\ failing' = failing /\ faults' = faults /\ crashes' = crashes
        /\ deleted' = deleted
        /\ gone_readers' = gone_readers /\ orphaned' = orphaned
    BY DEF start, versions, outside, budgets, accounts
  <1>2. /\ next_request \in Nat /\ next_request' \in 1 .. MaxRequests + 1
        /\ ~(r < next_request) /\ r < next_request'
        /\ next_request <= next_request'
        /\ \A o \in Nat : o < next_request => o < next_request'
    <2>1. next_request \in Nat /\ next_request <= MaxRequests
          /\ MaxRequests \in Nat
      BY <1>1, BoundsAssumption DEF RequestId
    <2> HIDE DEF r
    <2> QED BY <1>1, <2>1 DEF r
  <1>3. /\ q \in RequestRow /\ q.state = "looking" /\ q.chosen = None
        /\ q.client_tag = None /\ q.import_key = None /\ q.remove_tag = None
        /\ q.remove_since = None /\ q.progress = None /\ q.cancel_at = None
        /\ q.prior_state = None /\ q.book = b
    BY DEF RequestRow, State, LIVE_STATES
  <1> HIDE DEF q
  <1>4. Shape(r, q)
    BY <1>3, NoneFacts DEF Shape, stage, unpicked
  <1>5. ~exists(r)
    <2>1. exists(r) => r < next_request
      BY <1>0, <1>1, Zenon DEF Rows
    <2> QED BY <1>2, <2>1
  <1>6. /\ request' \in [RequestId -> RequestRow \cup {None}]
        /\ request'[r] = q
        /\ \A o \in RequestId : o # r => request'[o] = request[o]
        /\ \A o \in RequestId : exists(o)' <=> exists(o) \/ o = r
    BY <1>0, <1>1, <1>3, NoneFacts DEF TypeOK, update, exists
  <1>7. /\ search' \in [Slot -> RequestId \cup {None}]
        /\ \A k \in Slot : search[k] # None => search'[k] = search[k]
        /\ \E k \in Slot : search'[k] = r
    BY <1>0, <1>1, Spawned
  <1>8. TypeOK'
    BY <1>0, <1>1, <1>2, <1>6, <1>7 DEF TypeOK
  <1>9. ASSUME NEW o \in RequestId, exists(o)'
        PROVE  (o < next_request /\ Shape(o, request[o])
                  /\ Linked(o, request[o]))'
    <2>1. CASE o = r
      <3>1. ASSUME NEW p \in RequestRow, p = q, request'[o] = p
            PROVE  Linked(o, request[o])'
        BY <1>1, <1>3, <2>1, <3>1 DEF Linked
      <3>2. Linked(o, request[o])'
        BY <1>3, <1>6, <2>1, <3>1
      <3>3. o < next_request' /\ Shape(o, request'[o])
        BY <1>1, <1>2, <1>4, <1>6, <2>1
      <3> QED BY <3>2, <3>3 DEF Shape
    <2>2. CASE o # r
      <3>1. exists(o) /\ request'[o] = request[o]
        BY <1>6, <1>9, <2>2
      <3>2. Linked(o, request[o]) /\ Shape(o, request[o])
            /\ o < next_request /\ o \in Nat
        BY <3>1, RowOf, Names
      <3>3. Linked(o, request[o])'
        BY <1>1, <3>1, <3>2 DEF Linked
      <3>4. o < next_request' /\ Shape(o, request'[o])
        BY <1>2, <3>1, <3>2
      <3> QED BY <3>3, <3>4 DEF Shape
    <2> QED BY <2>1, <2>2
  <1>10. Rows'
    <2>1. \A v \in ResultId : result'[v] # None => v < next_result'
      BY <1>0, <1>1 DEF Rows
    <2> QED BY <1>9, <2>1 DEF Rows
  <1>11. LookingIsSearched'
    <2>1. ASSUME NEW o \in RequestId, exists(o)', request'[o].state = "looking"
          PROVE  \/ exists(o) /\ request[o].state = "looking"
                 \/ \E k \in Slot : search'[k] = o
      BY <1>6, <1>7, <2>1
    <2> QED BY <1>1, <1>7, <2>1, LookingKept DEF IInv
  <1>12. ASSUME NEW o \in RequestId, exists(o)
         PROVE  /\ exists(o)'
                /\ TagsKept(request[o], request'[o])
                /\ KeyKept(request[o], request'[o])
                /\ ReadKept(request[o], request'[o], deleted')
                /\ request'[o].book = request[o].book
    <2>1. request'[o] = request[o] /\ exists(o)'
      BY <1>5, <1>6, <1>12
    <2> QED BY <2>1 DEF TagsKept, KeyKept, ReadKept
  <1>13. ASSUME NEW o \in RequestId, exists(o)'
         PROVE  exists(o) \/ ~(o < next_request)
    BY <1>2, <1>6, <1>13
  <1>14. ClientQuiet /\ next_request <= next_request'
    BY <1>1, <1>2 DEF ClientQuiet
  <1> QED BY <1>1, <1>8, <1>10, <1>11, <1>12, <1>13, <1>14, OthersStep

-----------------------------------------------------------------------------
(* The searches.                                                           *)

(* A search that stops by itself was nobody's answer. *)
LEMMA SearchStops ==
    ASSUME IInv, NEW k \in Slot, run_search_stops(k)
    PROVE  IInv'
  <1>0. TypeOK /\ Rows
    BY DEF IInv
  <1>1. /\ request' = request /\ result' = result
        /\ next_result' = next_result /\ poller' = poller
        /\ client' = client /\ library' = library /\ failing' = failing
        /\ faults' = faults /\ crashes' = crashes
        /\ next_request' = next_request /\ deleted' = deleted
        /\ gone_readers' = gone_readers /\ orphaned' = orphaned
        /\ search' = [search EXCEPT ![k] = None] /\ ~looking(k)
    BY DEF run_search_stops, ends, versions, outside, budgets, shelf, accounts
  <1>2. search' \in [Slot -> RequestId \cup {None}]
    BY <1>0, <1>1 DEF TypeOK
  <1>3. TypeOK'
    BY <1>0, <1>1, <1>2 DEF TypeOK
  <1>4. Rows'
    BY <1>0, <1>1 DEF Rows, Shape, Linked, exists
  <1>5. LookingIsSearched'
    <2> SUFFICES ASSUME crashes = 0, NEW o \in RequestId,
                        exists(o), request[o].state = "looking"
                 PROVE  \E j \in Slot : search'[j] = o
      BY <1>1 DEF LookingIsSearched, exists
    <2>1. PICK j \in Slot : search[j] = o
      BY DEF IInv, LookingIsSearched
    <2>2. j # k
      BY <1>1, <2>1 DEF looking
    <2> QED BY <1>0, <1>1, <2>1, <2>2 DEF TypeOK
  <1>6. ClientQuiet /\ next_request <= next_request'
    BY <1>0, <1>1, BoundsAssumption DEF ClientQuiet, TypeOK
  <1>7. ASSUME NEW o \in RequestId
        PROVE  /\ exists(o)' <=> exists(o)
               /\ TagsKept(request[o], request'[o])
               /\ KeyKept(request[o], request'[o])
               /\ ReadKept(request[o], request'[o], deleted')
               /\ request'[o].book = request[o].book
    BY <1>1 DEF TagsKept, KeyKept, ReadKept, exists
  <1> QED BY <1>1, <1>3, <1>4, <1>5, <1>6, <1>7, OthersStep

(* A search answers its request, which is looking: with a reason why not,  *)
(* or with versions of ids nothing names yet, in place of the last ones.   *)
LEMMA Answers ==
    ASSUME IInv, NEW k \in Slot, NEW r \in RequestId, r = search[k],
           looking(k), ends(k),
           NEW state \in {"stuck", "choose"},
           NEW reason \in {"not_found", "search_failed", None},
           state = "stuck" => reason # None,
           update(r, [request[r] EXCEPT !.state = state,
                                        !.stuck_reason = reason]),
           result' \in [ResultId -> ResultRow \cup {None}],
           next_result' \in 1 .. MaxResults + 1, next_result <= next_result',
           \A v \in ResultId : result'[v] # None => v < next_result',
           \A v \in ResultId : v < next_result => result'[v] \in {result[v], None},
           \A v \in ResultId :
               result[v] # None /\ result[v].req # r => result'[v] = result[v],
           UNCHANGED <<outside, poller, failing, budgets, shelf>>
    PROVE  IInv'
  <1> DEFINE old == request[r]
             q == [old EXCEPT !.state = state, !.stuck_reason = reason]
  <1>0. TypeOK /\ Rows
    BY DEF IInv
  <1>1. /\ exists(r) /\ old.state = "looking" /\ old \in RequestRow
        /\ Shape(r, old) /\ Linked(r, old) /\ r < next_request
    BY RowOf DEF looking
  <1>2. /\ q \in RequestRow /\ q.state = state
        /\ q.chosen = old.chosen
        /\ q.stuck_reason = reason /\ q.client_tag = old.client_tag
        /\ q.import_key = old.import_key /\ q.remove_tag = old.remove_tag
        /\ q.remove_since = old.remove_since /\ q.progress = old.progress
        /\ q.cancel_at = old.cancel_at /\ q.prior_state = old.prior_state
        /\ q.book = old.book
        /\ q.reader = old.reader
    BY <1>1, ZenonT(60) DEF RequestRow, State, LIVE_STATES, StuckReason
  <1>3. /\ update(r, q) /\ poller' = poller
        /\ client' = client /\ library' = library /\ failing' = failing
        /\ faults' = faults /\ crashes' = crashes
        /\ next_request' = next_request /\ deleted' = deleted
        /\ gone_readers' = gone_readers /\ orphaned' = orphaned
    BY DEF outside, budgets, shelf, accounts
  <1> HIDE DEF q, old
  <1>4. /\ old.chosen = None /\ old.client_tag = None /\ old.import_key = None
        /\ old.progress = None /\ old.prior_state = None
    BY <1>1, NoneFacts DEF Shape, unpicked, stage
  <1>5. Shape(r, q)
    BY <1>1, <1>2, <1>4, NoneFacts DEF Shape, stage, unpicked
  <1>6. old.book \notin deleted
    BY <1>1 DEF Linked
  <1>7. /\ request' \in [RequestId -> RequestRow \cup {None}]
        /\ request'[r] = q
        /\ \A o \in RequestId : o # r => request'[o] = request[o]
        /\ \A o \in RequestId : exists(o)' <=> exists(o)
    BY <1>0, <1>1, <1>2, <1>3, NoneFacts DEF TypeOK, update, exists
  <1>8. next_result \in Nat /\ next_result' \in Nat
    BY <1>0, BoundsAssumption DEF TypeOK
  <1>9. ASSUME NEW o \in RequestId, NEW p \in RequestRow, Linked(o, p),
               p.chosen # None => o # r
        PROVE  Linked(o, p)'
    <2>1. p.chosen # None => p.chosen \in ResultId /\ result[p.chosen] # None
                             /\ result[p.chosen].req = o
      BY <1>9, Columns DEF Linked
    <2>2. p.chosen # None => result'[p.chosen] = result[p.chosen]
      BY <1>9, <2>1
    <2>3. p.remove_tag # None => /\ p.remove_tag[2] \in ResultId
                                 /\ p.remove_tag[2] < next_result
      BY <1>9, Columns, Names DEF Linked
    <2>4. p.remove_tag # None /\ (result[p.remove_tag[2]] # None =>
                                      result[p.remove_tag[2]].tried) =>
               (result'[p.remove_tag[2]] # None =>
                   result'[p.remove_tag[2]].tried)
      BY <2>3
    <2> QED BY <1>3, <1>8, <1>9, <2>2, <2>4, LinkedKept
  <1>10. ASSUME NEW o \in RequestId, exists(o) PROVE Linked(o, request[o])'
    <2>1. CASE o = r
      <3> SUFFICES ASSUME NEW p \in RequestRow, p = q, request'[r] = p
                   PROVE  Linked(r, p)'
        BY <1>2, <1>7, <2>1 DEF Linked
      <3>1. Linked(r, p)
        BY <1>1, <1>2, <1>4, <1>6, NoneFacts DEF Linked, for_good
      <3> QED BY <1>2, <1>4, <1>9, <3>1
    <2>2. CASE o # r
      <3>1. PICK p \in RequestRow : p = request[o] /\ Linked(o, p)
        BY <1>10, RowOf
      <3>2. Linked(o, p)'
        BY <1>9, <2>2, <3>1
      <3> QED BY <1>7, <2>2, <3>1, <3>2 DEF Linked
    <2> QED BY <2>1, <2>2
  <1>11. Rows'
    <2>1. ASSUME NEW o \in RequestId, exists(o)'
          PROVE  (o < next_request /\ Shape(o, request[o])
                    /\ Linked(o, request[o]))'
      <3>1. exists(o)
        BY <1>7, <2>1
      <3>2. o < next_request' /\ Shape(o, request'[o])
        BY <1>1, <1>3, <1>5, <1>7, <3>1, RowOf
      <3> QED BY <1>10, <3>1, <3>2 DEF Shape
    <2> QED BY <2>1 DEF Rows
  <1>12. search' = [search EXCEPT ![k] = None]
    BY DEF ends
  <1>13. TypeOK'
    <2>1. search' \in [Slot -> RequestId \cup {None}]
      BY <1>0, <1>12 DEF TypeOK
    <2> QED BY <1>0, <1>3, <1>7, <2>1 DEF TypeOK
  <1>14. LookingIsSearched'
    <2> SUFFICES ASSUME crashes = 0, NEW o \in RequestId,
                        exists(o)', request'[o].state = "looking"
                 PROVE  \E j \in Slot : search'[j] = o
      BY <1>3 DEF LookingIsSearched
    <2>1. o # r
      BY <1>2, <1>7
    <2>2. PICK j \in Slot : search[j] = o
      BY <1>7, <2>1 DEF IInv, LookingIsSearched
    <2> QED BY <1>0, <1>12, <2>1, <2>2 DEF TypeOK
  <1>15. ASSUME NEW o \in RequestId, exists(o)
         PROVE  /\ exists(o)'
                /\ TagsKept(request[o], request'[o])
                /\ KeyKept(request[o], request'[o])
                /\ ReadKept(request[o], request'[o], deleted')
                /\ request'[o].book = request[o].book
    <2>1. CASE o = r
      <3>1. TagsKept(old, q) /\ KeyKept(old, q) /\ ReadKept(old, q, deleted)
        BY <1>1, <1>2, <1>4, NoneFacts
           DEF TagsKept, KeyKept, ReadKept, tagged, filing, handing,
               importing, abandoned
      <3> QED BY <1>2, <1>3, <1>7, <1>15, <2>1, <3>1 DEF old
    <2>2. CASE o # r
      <3>1. request'[o] = request[o] /\ exists(o)'
        BY <1>7, <1>15, <2>2
      <3> QED BY <3>1 DEF TagsKept, KeyKept, ReadKept
    <2> QED BY <2>1, <2>2
  <1>16. ClientQuiet /\ next_request <= next_request'
    BY <1>0, <1>3, BoundsAssumption DEF ClientQuiet, TypeOK
  <1> QED BY <1>3, <1>7, <1>11, <1>13, <1>14, <1>15, <1>16, OthersStep

(* finish_search: the three answers. *)
LEMMA FinishSearch ==
    ASSUME IInv, NEW k \in Slot, finish_search(k)
    PROVE  IInv'
  <1> DEFINE r == search[k]
  <1>0. TypeOK /\ Rows
    BY DEF IInv
  <1>1. /\ r \in RequestId /\ looking(k) /\ ends(k)
        /\ UNCHANGED <<outside, poller, failing, budgets, shelf>>
    BY <1>0 DEF finish_search, TypeOK
  <1>2. next_result \in Nat /\ next_result \in 1 .. MaxResults + 1
    BY <1>0, BoundsAssumption DEF TypeOK
  <1>3. ASSUME NEW reason \in {"not_found", "search_failed"},
               update(r, [request[r] EXCEPT !.state = "stuck",
                                            !.stuck_reason = reason]),
               UNCHANGED <<result, next_result>>
        PROVE  IInv'
    <2>1. /\ result' \in [ResultId -> ResultRow \cup {None}]
          /\ next_result' \in 1 .. MaxResults + 1
          /\ next_result <= next_result'
          /\ \A v \in ResultId : result'[v] # None => v < next_result'
      BY <1>0, <1>2, <1>3 DEF TypeOK, Rows
    <2>2. \A v \in ResultId : result'[v] = result[v]
      BY <1>3
    <2>3. reason # None /\ reason \in {"not_found", "search_failed", None}
      BY NoneFacts
    <2>5. /\ \A v \in ResultId :
                v < next_result => result'[v] \in {result[v], None}
          /\ \A v \in ResultId : result[v] # None /\ result[v].req # r =>
                result'[v] = result[v]
      BY <2>2
    <2> HIDE DEF r
    <2>4. ASSUME NEW o \in RequestId, o = r PROVE IInv'
      <3>1. o = search[k] /\ update(o, [request[o] EXCEPT !.state = "stuck",
                                            !.stuck_reason = reason])
        BY <1>3, <2>4 DEF r
      <3>2. \A v \in ResultId : result[v] # None /\ result[v].req # o =>
                result'[v] = result[v]
        BY <2>5, <2>4
      <3>3. "stuck" \in {"stuck", "choose"}
        OBVIOUS
      <3> QED BY <1>1, <2>1, <2>3, <2>5, <3>1, <3>2, <3>3, Answers
    <2> QED BY <1>1, <2>4
  <1>4. CASE \E ranked \in SUBSET Guids :
              LET kept == without_given_up(r, ranked)
                  ids == next_result .. next_result + Cardinality(kept) - 1
              IN  /\ kept # {} /\ ids \subseteq ResultId
                  /\ update(r, [request[r] EXCEPT !.state = "choose",
                                                  !.stuck_reason = None])
                  /\ next_result' = next_result + Cardinality(kept)
                  /\ \E ranking \in [ids -> kept] :
                        result' = [v \in ResultId |->
                          IF v \in ids
                          THEN [req |-> r, guid |-> ranking[v], tried |-> FALSE]
                          ELSE IF v \in offered(r) THEN None ELSE result[v]]
    <2>a. PICK ranked \in SUBSET Guids :
              LET kept == without_given_up(r, ranked)
                  ids == next_result .. next_result + Cardinality(kept) - 1
              IN  /\ kept # {} /\ ids \subseteq ResultId
                  /\ update(r, [request[r] EXCEPT !.state = "choose",
                                                  !.stuck_reason = None])
                  /\ next_result' = next_result + Cardinality(kept)
                  /\ \E ranking \in [ids -> kept] :
                        result' = [v \in ResultId |->
                          IF v \in ids
                          THEN [req |-> r, guid |-> ranking[v], tried |-> FALSE]
                          ELSE IF v \in offered(r) THEN None ELSE result[v]]
      BY <1>4
    <2> DEFINE kept == without_given_up(r, ranked)
               ids == next_result .. next_result + Cardinality(kept) - 1
    <2>b. PICK ranking \in [ids -> kept] :
             result' = [v \in ResultId |->
                IF v \in ids
                THEN [req |-> r, guid |-> ranking[v], tried |-> FALSE]
                ELSE IF v \in offered(r) THEN None ELSE result[v]]
      BY <2>a
    <2>c. /\ kept \subseteq Guids /\ kept # {} /\ ids \subseteq ResultId
          /\ update(r, [request[r] EXCEPT !.state = "choose",
                                          !.stuck_reason = None])
          /\ next_result' = next_result + Cardinality(kept)
          /\ ids = next_result .. next_result + Cardinality(kept) - 1
      BY <2>a DEF without_given_up
    <2> HIDE DEF kept, ids
    <2>0. /\ kept \subseteq Guids /\ kept # {} /\ ids \subseteq ResultId
          /\ update(r, [request[r] EXCEPT !.state = "choose",
                                          !.stuck_reason = None])
          /\ next_result' = next_result + Cardinality(kept)
          /\ ids = next_result .. next_result + Cardinality(kept) - 1
          /\ ranking \in [ids -> kept]
          /\ result' = [v \in ResultId |->
                IF v \in ids
                THEN [req |-> r, guid |-> ranking[v], tried |-> FALSE]
                ELSE IF v \in offered(r) THEN None ELSE result[v]]
      BY <2>b, <2>c
    <2>1. /\ Cardinality(kept) \in Nat /\ Cardinality(kept) > 0
      <3>1. IsFiniteSet(kept)
        BY <2>0, BoundsAssumption, FS_Subset
      <3> QED BY <2>0, <3>1, FS_CardinalityType, FS_EmptySet
    <2>2. next_result' \in Nat /\ next_result <= next_result'
      BY <1>2, <2>0, <2>1
    <2>3. next_result' \in 1 .. MaxResults + 1
      <3>1. next_result' - 1 \in ids
        BY <1>2, <2>0, <2>1
      <3>2. next_result' - 1 <= MaxResults
        BY <2>0, <3>1 DEF ResultId
      <3>3. MaxResults \in Nat /\ next_result >= 1
        BY <1>2, BoundsAssumption
      <3>4. \A n, m, l \in Nat :
               l >= 1 /\ l <= n /\ n - 1 <= m => n \in 1 .. m + 1
        OBVIOUS
      <3> QED BY <1>2, <2>2, <3>2, <3>3, <3>4
    <2>4. \A v \in Nat : v < next_result => v \notin ids
      BY <1>2, <2>0, <2>1
    <2>5. \A v \in ids : v < next_result' /\ ~(v < next_result)
      BY <1>2, <2>0, <2>1
    <2>6. ASSUME NEW v \in ResultId
          PROVE  /\ v \in ids => result'[v] =
                       [req |-> r, guid |-> ranking[v], tried |-> FALSE]
                 /\ v \notin ids => result'[v] \in {result[v], None}
                 /\ v \notin ids /\ v \notin offered(r) =>
                       result'[v] = result[v]
      BY <2>0
    <2>7. result' \in [ResultId -> ResultRow \cup {None}]
      <3>1. ASSUME NEW v \in ResultId PROVE result'[v] \in ResultRow \cup {None}
        <4>1. CASE v \in ids
          BY <1>1, <2>0, <2>6, <4>1 DEF ResultRow
        <4>2. CASE v \notin ids
          BY <1>0, <2>6, <4>2, VersionThere
        <4> QED BY <4>1, <4>2
      <3>2. DOMAIN result' = ResultId /\ result' = [v \in ResultId |-> result'[v]]
        BY <2>0
      <3> QED BY <3>1, <3>2
    <2>8. ASSUME NEW v \in ResultId, result'[v] # None PROVE v < next_result'
      <3>1. CASE v \in ids
        BY <2>5, <3>1
      <3>2. CASE v \notin ids
        <4>1. v < next_result
          BY <1>0, <2>6, <2>8, <3>2 DEF Rows
        <4> QED BY <1>2, <2>2, <4>1, Names
      <3> QED BY <3>1, <3>2
    <2>9. ASSUME NEW v \in ResultId, v < next_result
          PROVE  result'[v] \in {result[v], None}
      BY <2>4, <2>6, <2>9, Names
    <2>10. ASSUME NEW v \in ResultId, result[v] # None, result[v].req # r
           PROVE  result'[v] = result[v]
      <3>1. v < next_result
        BY <1>0, <2>10 DEF Rows
      <3>2. v \notin offered(r)
        BY <2>10 DEF offered
      <3> QED BY <2>4, <2>6, <3>1, <3>2, Names
    <2> HIDE DEF r
    <2>11. ASSUME NEW o \in RequestId, o = r PROVE IInv'
      <3>1. o = search[k] /\ update(o, [request[o] EXCEPT !.state = "choose",
                                            !.stuck_reason = None])
        BY <2>0, <2>11 DEF r
      <3>2. \A v \in ResultId :
               result[v] # None /\ result[v].req # o => result'[v] = result[v]
        BY <2>10, <2>11
      <3> QED BY <1>1, <2>2, <2>3, <2>7, <2>8, <2>9, <3>1, <3>2, Answers
    <2> QED BY <1>1, <2>11
  <1>5. \/ \E reason \in {"not_found", "search_failed"} :
              /\ update(r, [request[r] EXCEPT !.state = "stuck",
                                              !.stuck_reason = reason])
              /\ UNCHANGED <<result, next_result>>
        \/ \E ranked \in SUBSET Guids :
              LET kept == without_given_up(r, ranked)
                  ids == next_result .. next_result + Cardinality(kept) - 1
              IN  /\ kept # {} /\ ids \subseteq ResultId
                  /\ update(r, [request[r] EXCEPT !.state = "choose",
                                                  !.stuck_reason = None])
                  /\ next_result' = next_result + Cardinality(kept)
                  /\ \E ranking \in [ids -> kept] :
                        result' = [v \in ResultId |->
                          IF v \in ids
                          THEN [req |-> r, guid |-> ranking[v], tried |-> FALSE]
                          ELSE IF v \in offered(r) THEN None ELSE result[v]]
    BY Zenon DEF finish_search
  <1>6. CASE \E reason \in {"not_found", "search_failed"} :
                /\ update(r, [request[r] EXCEPT !.state = "stuck",
                                                !.stuck_reason = reason])
                /\ UNCHANGED <<result, next_result>>
    BY <1>3, <1>6
  <1> QED BY <1>4, <1>5, <1>6, Zenon

-----------------------------------------------------------------------------
(* The world around it.                                                    *)

(* drop_requests: only requests without a download go. *)
LEMMA DropRequests ==
    ASSUME IInv, NEW book \in Books, drop_requests(book)
    PROVE  IInv'
  <1> DEFINE of_book == {r \in RequestId : exists(r) /\ request[r].book = book}
             kept == {r \in of_book : \/ request[r].client_tag # None
                                      \/ request[r].remove_tag # None}
             struck(r) == [request[r] EXCEPT !.state = "cancelled",
                                             !.prior_state = None,
                                             !.cancel_at = "due"]
  <1>0. TypeOK /\ Rows
    BY DEF IInv
  <1>1. /\ book \notin deleted /\ deleted' = deleted \cup {book}
        /\ request' = [r \in RequestId |->
              IF r \in kept THEN struck(r)
              ELSE IF r \in of_book THEN None ELSE request[r]]
        /\ result' = [v \in ResultId |->
              IF result[v] # None /\ result[v].req \in of_book \ kept
              THEN None ELSE result[v]]
        /\ next_result' = next_result /\ poller' = poller /\ search' = search
        /\ client' = client /\ library' = library /\ failing' = failing
        /\ faults' = faults /\ crashes' = crashes
        /\ next_request' = next_request
        /\ gone_readers' = gone_readers /\ orphaned' = orphaned
    BY DEF drop_requests, outside, budgets, accounts
  <1>2. ASSUME NEW o \in kept
        PROVE  LET old == request[o]
                   q == struck(o)
               IN  /\ q \in RequestRow /\ q.state = "cancelled"
                   /\ q.chosen = old.chosen
                   /\ q.stuck_reason = old.stuck_reason
                   /\ q.client_tag = old.client_tag
                   /\ q.import_key = old.import_key
                   /\ q.remove_tag = old.remove_tag
                   /\ q.remove_since = old.remove_since
                   /\ q.progress = old.progress /\ q.cancel_at = "due"
                   /\ q.prior_state = None /\ q.book = old.book
                   /\ q.reader = old.reader
    <2>1. request[o] \in RequestRow
      BY <1>0, RowThere
    <2> QED BY <2>1 DEF RequestRow, State, LIVE_STATES
  <1>3. ASSUME NEW o \in RequestId
        PROVE  /\ o \in kept =>
                     exists(o) /\ request'[o] = struck(o) /\ exists(o)'
               /\ o \in of_book \ kept => exists(o) /\ request'[o] = None
               /\ o \notin of_book => request'[o] = request[o]
               /\ request'[o] \in RequestRow \cup {None}
    <2>1. CASE o \in kept
      BY <1>1, <1>2, <2>1, NoneFacts DEF exists
    <2>2. CASE o \notin kept
      BY <1>0, <1>1, <2>2, RowThere
    <2> QED BY <2>1, <2>2
  <1>4. request' \in [RequestId -> RequestRow \cup {None}]
    <2>1. DOMAIN request' = RequestId
          /\ request' = [o \in RequestId |-> request'[o]]
      BY <1>1
    <2> QED BY <1>3, <2>1
  <1>5. ASSUME NEW v \in ResultId
        PROVE  /\ result'[v] \in {result[v], None}
               /\ result[v] # None /\ result[v].req \notin of_book \ kept =>
                     result'[v] = result[v]
    BY <1>1
  <1>6. result' \in [ResultId -> ResultRow \cup {None}]
    BY <1>0, <1>1 DEF TypeOK
  <1>7. TypeOK'
    BY <1>0, <1>1, <1>4, <1>6 DEF TypeOK
  <1>8. next_result \in Nat
    BY <1>0, BoundsAssumption DEF TypeOK
  <1>9. ASSUME NEW o \in RequestId, NEW p \in RequestRow, Linked(o, p),
               o \notin of_book \ kept, p.book # book
        PROVE  Linked(o, p)'
    <2>1. p.chosen # None => p.chosen \in ResultId /\ result[p.chosen] # None
                             /\ result[p.chosen].req = o
      BY <1>9, Columns DEF Linked
    <2>2. p.chosen # None => result'[p.chosen] = result[p.chosen]
      BY <1>5, <1>9, <2>1
    <2>3. p.remove_tag # None => p.remove_tag[2] \in ResultId
      BY <1>9, Columns, Names
    <2>4. p.remove_tag # None /\ (result[p.remove_tag[2]] # None =>
                                      result[p.remove_tag[2]].tried) =>
               (result'[p.remove_tag[2]] # None =>
                   result'[p.remove_tag[2]].tried)
      BY <1>5, <2>3
    <2>5. /\ deleted' = deleted \cup {book} /\ next_result' = next_result
          /\ client' = client /\ library' = library
      BY <1>1
    <2>6. p.book \in deleted' => p.book \in deleted
      BY <1>9, <2>5
    <2>7. next_result' \in Nat /\ next_result <= next_result'
      BY <1>8, <2>5
    <2> QED BY <1>8, <1>9, <2>2, <2>4, <2>5, <2>6, <2>7, LinkedKept
  <1>10. ASSUME NEW o \in kept PROVE Shape(o, struck(o)) /\ Linked(o, request[o])'
    <2> DEFINE old == request[o]
    <2>1. PICK p \in RequestRow : p = struck(o) /\ request'[o] = p
      BY <1>2, <1>3, ZenonT(60)
    <2>2. /\ p.state = "cancelled" /\ p.chosen = old.chosen
          /\ p.stuck_reason = old.stuck_reason
          /\ p.client_tag = old.client_tag /\ p.import_key = old.import_key
          /\ p.remove_tag = old.remove_tag
          /\ p.remove_since = old.remove_since
          /\ p.progress = old.progress /\ p.cancel_at = "due"
          /\ p.prior_state = None /\ p.book = old.book
          /\ p.reader = old.reader
      BY <1>2, <2>1, ZenonT(60)
    <2>3. Shape(o, old) /\ Linked(o, old) /\ old \in RequestRow
      BY <1>3, RowOf
    <2>4. /\ request'[o] = p
          /\ old.chosen # None => old.chosen \in ResultId
          /\ old.remove_tag # None => old.remove_tag[2] \in ResultId
      BY <2>1, <2>3, Columns, Names
    <2> HIDE DEF old
    <2>5. Shape(o, p)
      BY <2>2, <2>3, NoneFacts DEF Shape, stage, unpicked
    <2>6. p.chosen # None => result'[p.chosen] = result[p.chosen]
      <3>1. p.chosen # None => /\ result[p.chosen] # None
                               /\ result[p.chosen].req = o
                               /\ p.chosen \in ResultId
        BY <2>2, <2>3, <2>4 DEF Linked
      <3> QED BY <1>5, <3>1
    <2>7. Linked(o, p)'
      <3>1. (p.chosen # None =>
                /\ result[p.chosen] # None
                /\ result[p.chosen].req = o /\ ~result[p.chosen].tried)'
        BY <2>2, <2>3, <2>6 DEF Linked
      <3>2. (p.remove_tag # None =>
            \/ for_good(p) /\ p.client_tag = None
            \/ /\ p.remove_tag[2] # p.chosen
               /\ \/ result[p.remove_tag[2]] = None
                  \/ result[p.remove_tag[2]].tried)'
        BY <1>5, <2>2, <2>3, <2>4, ZenonT(60) DEF Linked, for_good, may_undo
      <3>3. (p.remove_tag # None => p.remove_tag[2] < next_result)'
        BY <1>1, <2>2, <2>3 DEF Linked
      <3>4. (p.remove_tag # None /\ p.remove_since # "recent" =>
            client[p.remove_tag] # "fetching")'
        BY <1>1, <2>2, <2>3 DEF Linked
      <3>5. (p.import_key # None => library[p.import_key] > 0)'
        BY <1>1, <2>2, <2>3 DEF Linked
      <3> QED BY <2>2, <3>1, <3>2, <3>3, <3>4, <3>5 DEF Linked
    <2> QED BY <2>1, <2>5, <2>7 DEF Linked
  <1>11. Rows'
    <2>1. ASSUME NEW o \in RequestId, exists(o)'
          PROVE  (o < next_request /\ Shape(o, request[o])
                    /\ Linked(o, request[o]))'
      <3>1. CASE o \in kept
        <4>1. o < next_request /\ Shape(o, request'[o])
          BY <1>3, <1>10, <3>1, RowOf
        <4> QED BY <1>1, <1>10, <3>1, <4>1 DEF Shape
      <3>2. CASE o \notin kept
        <4>1. o \notin of_book /\ request'[o] = request[o] /\ exists(o)
          BY <1>3, <2>1, <3>2 DEF exists
        <4>2. PICK p \in RequestRow : p = request[o] /\ Linked(o, p)
                                      /\ o < next_request /\ Shape(o, p)
          BY <4>1, RowOf
        <4>3. Linked(o, p)'
          BY <1>9, <4>1, <4>2
        <4>4. Linked(o, request[o])'
          BY <4>1, <4>2, <4>3 DEF Linked
        <4> QED BY <1>1, <4>1, <4>2, <4>4, ZenonT(60) DEF Shape
      <3> QED BY <3>1, <3>2
    <2>2. \A v \in ResultId : result'[v] # None => v < next_result'
      BY <1>0, <1>1, <1>5 DEF Rows
    <2> QED BY <2>1, <2>2 DEF Rows
  <1>12. LookingIsSearched'
    <2> SUFFICES ASSUME crashes = 0, NEW o \in RequestId,
                        exists(o)', request'[o].state = "looking"
                 PROVE  \E j \in Slot : search'[j] = o
      BY <1>1 DEF LookingIsSearched
    <2>1. o \notin kept
      BY <1>2, <1>3
    <2>2. exists(o) /\ request[o].state = "looking"
      BY <1>3, <2>1 DEF exists
    <2> QED BY <1>1, <2>2 DEF IInv, LookingIsSearched
  <1>13. ASSUME NEW o \in RequestId, exists(o)
         PROVE  \/ /\ exists(o)'
                   /\ TagsKept(request[o], request'[o])
                   /\ KeyKept(request[o], request'[o])
                   /\ ReadKept(request[o], request'[o], deleted')
                   /\ request'[o].book = request[o].book
                \/ /\ ~exists(o)' /\ ~tagged(request[o])
                   /\ request[o].book \notin deleted
    <2>1. CASE o \in kept
      <3>1. PICK q \in RequestRow : q = struck(o) /\ request'[o] = q
        BY <1>2, <1>3, <2>1, ZenonT(60)
      <3>2. PICK old \in RequestRow : old = request[o]
        BY <1>13, RowOf
      <3>3. /\ q.state = "cancelled" /\ q.chosen = old.chosen
            /\ q.stuck_reason = old.stuck_reason
            /\ q.client_tag = old.client_tag /\ q.import_key = old.import_key
            /\ q.remove_tag = old.remove_tag
            /\ q.remove_since = old.remove_since
            /\ q.progress = old.progress /\ q.cancel_at = "due"
            /\ q.prior_state = None /\ q.book = old.book
            /\ q.reader = old.reader
            /\ q.book \in deleted'
        BY <1>1, <1>2, <2>1, <3>1, <3>2
      <3>4. TagsKept(old, q) /\ KeyKept(old, q) /\ ReadKept(old, q, deleted')
        BY <3>3, NoneFacts
           DEF TagsKept, KeyKept, ReadKept, tagged, filing, handing,
               importing, abandoned
      <3> QED BY <1>3, <2>1, <3>1, <3>2, <3>3, <3>4
    <2>2. CASE o \in of_book \ kept
      <3>1. ~exists(o)'
        BY <1>3, <2>2 DEF exists
      <3>2. ~tagged(request[o]) /\ request[o].book \notin deleted
        BY <1>1, <2>2 DEF tagged
      <3> QED BY <3>1, <3>2
    <2>3. CASE o \notin of_book
      <3>1. request'[o] = request[o] /\ exists(o)'
        BY <1>3, <1>13, <2>3 DEF exists
      <3> QED BY <3>1 DEF TagsKept, KeyKept, ReadKept
    <2> QED BY <2>1, <2>2, <2>3
  <1>14. ASSUME NEW o \in RequestId, exists(o)' PROVE exists(o)
    BY <1>3, <1>14 DEF exists
  <1>15. ClientQuiet /\ next_request <= next_request' /\ deleted \subseteq deleted'
    <2>1. /\ client' = client /\ next_request' = next_request
          /\ deleted \subseteq deleted'
      BY <1>1
    <2>2. next_request \in Nat
      BY <1>0, BoundsAssumption DEF TypeOK
    <2> QED BY <2>1, <2>2 DEF ClientQuiet
  <1> HIDE DEF of_book, kept, struck
  <1> QED BY <1>1, <1>7, <1>11, <1>12, <1>13, <1>14, <1>15, OthersStep

(* delete_user: the requests of a reader go, and their tags are left.      *)
LEMMA DeleteUser ==
    ASSUME IInv, NEW reader \in Readers, delete_user(reader)
    PROVE  IInv'
  <1> DEFINE of_reader == {r \in RequestId : /\ exists(r)
                                             /\ request[r].reader = reader}
             left == {t \in Tag : \E r \in of_reader :
                              t \in {request[r].client_tag, request[r].remove_tag}}
  <1>0. TypeOK /\ Rows
    BY DEF IInv
  <1>1. /\ gone_readers' = gone_readers \cup {reader}
        /\ orphaned' = orphaned \cup left
        /\ request' = [r \in RequestId |->
                          IF r \in of_reader THEN None ELSE request[r]]
        /\ result' = [v \in ResultId |->
                         IF result[v] # None /\ result[v].req \in of_reader
                         THEN None ELSE result[v]]
        /\ next_result' = next_result /\ poller' = poller /\ search' = search
        /\ client' = client /\ library' = library /\ failing' = failing
        /\ faults' = faults /\ crashes' = crashes
        /\ next_request' = next_request /\ deleted' = deleted
    BY DEF delete_user, outside, budgets
  <1>2. ASSUME NEW o \in RequestId
        PROVE  /\ o \in of_reader => exists(o) /\ ~exists(o)'
               /\ o \notin of_reader => request'[o] = request[o]
               /\ request'[o] \in RequestRow \cup {None}
    BY <1>0, <1>1, RowThere DEF exists
  <1>3. request' \in [RequestId -> RequestRow \cup {None}]
    BY <1>0, <1>1 DEF TypeOK
  <1>4. ASSUME NEW v \in ResultId
        PROVE  /\ result'[v] \in {result[v], None}
               /\ result[v] # None /\ result[v].req \notin of_reader =>
                     result'[v] = result[v]
    BY <1>1
  <1>5. result' \in [ResultId -> ResultRow \cup {None}]
    BY <1>0, <1>1 DEF TypeOK
  <1>6. TypeOK'
    BY <1>0, <1>1, <1>3, <1>5 DEF TypeOK
  <1>7. next_result \in Nat
    BY <1>0, BoundsAssumption DEF TypeOK
  <1>8. ASSUME NEW o \in RequestId, NEW p \in RequestRow, Linked(o, p),
               o \notin of_reader
        PROVE  Linked(o, p)'
    <2>1. p.chosen # None => p.chosen \in ResultId /\ result[p.chosen] # None
                             /\ result[p.chosen].req = o
      BY <1>8, Columns DEF Linked
    <2>2. p.chosen # None => result'[p.chosen] = result[p.chosen]
      BY <1>4, <1>8, <2>1
    <2>3. p.remove_tag # None => p.remove_tag[2] \in ResultId
      BY <1>8, Columns, Names
    <2>4. p.remove_tag # None /\ (result[p.remove_tag[2]] # None =>
                                      result[p.remove_tag[2]].tried) =>
               (result'[p.remove_tag[2]] # None =>
                   result'[p.remove_tag[2]].tried)
      BY <1>4, <2>3
    <2>5. next_result' \in Nat /\ next_result <= next_result'
      BY <1>1, <1>7
    <2> QED BY <1>1, <1>7, <1>8, <2>2, <2>4, <2>5, LinkedKept
  <1> HIDE DEF of_reader
  <1>9. Rows'
    <2>1. ASSUME NEW o \in RequestId, exists(o)'
          PROVE  (o < next_request /\ Shape(o, request[o])
                    /\ Linked(o, request[o]))'
      <3>1. o \notin of_reader /\ request'[o] = request[o] /\ exists(o)
        BY <1>2, <2>1 DEF exists
      <3>2. PICK p \in RequestRow : p = request[o] /\ Linked(o, p)
                                    /\ o < next_request /\ Shape(o, p)
        BY <3>1, RowOf
      <3>3. Linked(o, p)'
        BY <1>8, <3>1, <3>2
      <3>4. Linked(o, request[o])'
        BY <3>1, <3>2, <3>3 DEF Linked
      <3> QED BY <1>1, <3>1, <3>2, <3>4, ZenonT(60) DEF Shape
    <2>2. \A v \in ResultId : result'[v] # None => v < next_result'
      BY <1>0, <1>1, <1>4 DEF Rows
    <2> QED BY <2>1, <2>2 DEF Rows
  <1>10. LookingIsSearched'
    <2> SUFFICES ASSUME crashes = 0, NEW o \in RequestId,
                        exists(o)', request'[o].state = "looking"
                 PROVE  \E j \in Slot : search'[j] = o
      BY <1>1 DEF LookingIsSearched
    <2>1. exists(o) /\ request[o].state = "looking"
      BY <1>2 DEF exists
    <2> QED BY <1>1, <2>1 DEF IInv, LookingIsSearched
  <1>11. ASSUME NEW o \in RequestId, exists(o)
         PROVE  \/ /\ exists(o)'
                   /\ TagsKept(request[o], request'[o])
                   /\ KeyKept(request[o], request'[o])
                   /\ ReadKept(request[o], request'[o], deleted')
                   /\ request'[o].book = request[o].book
                \/ ~exists(o)' /\ Cascaded(request[o])
    <2>1. CASE o \in of_reader
      <3>1. ~exists(o)' /\ request[o].reader = reader
        BY <1>2, <2>1 DEF of_reader
      <3>2. \A t \in Tag : t \in {request[o].client_tag, request[o].remove_tag}
                              => t \in left
        BY <2>1
      <3> HIDE DEF left
      <3> QED BY <1>1, <3>1, <3>2 DEF Cascaded
    <2>2. CASE o \notin of_reader
      <3>1. request'[o] = request[o] /\ exists(o)'
        BY <1>2, <1>11, <2>2 DEF exists
      <3> QED BY <1>1, <3>1 DEF TagsKept, KeyKept, ReadKept
    <2> QED BY <2>1, <2>2
  <1>12. ASSUME NEW o \in RequestId, exists(o)' PROVE exists(o)
    BY <1>2, <1>12 DEF exists
  <1>13. /\ ClientQuiet /\ next_request <= next_request'
         /\ deleted \subseteq deleted'
         /\ gone_readers \subseteq gone_readers' /\ orphaned \subseteq orphaned'
    BY <1>0, <1>1, BoundsAssumption DEF ClientQuiet, TypeOK
  <1> HIDE DEF left
  <1> QED BY <1>1, <1>6, <1>9, <1>10, <1>11, <1>12, <1>13, OthersStep

(* The client goes on, or the clock of an outage does: no row is written. *)
LEMMA ClientOrClock ==
    ASSUME IInv, (\E t \in Tag : client_moves(t)) \/ outage_ages
    PROVE  IInv'
  <1>0. TypeOK /\ Rows
    BY DEF IInv
  <1>1. /\ request' = request /\ result' = result
        /\ next_result' = next_result /\ poller' = poller
        /\ library' = library /\ search' = search
        /\ faults' = faults /\ crashes' = crashes
        /\ next_request' = next_request /\ deleted' = deleted
        /\ gone_readers' = gone_readers /\ orphaned' = orphaned
        /\ failing' \in {"recent", "overdue", None}
    BY <1>0 DEF client_moves, outage_ages, versions, outside, budgets, shelf,
                accounts, TypeOK
  <1>2. /\ client' \in [Tag -> DOMAIN ClientNext]
        /\ ClientQuiet
    <2>1. CASE outage_ages
      BY <1>0, <2>1 DEF outage_ages, outside, ClientQuiet, TypeOK
    <2>2. CASE \E t \in Tag : client_moves(t)
      <3>1. PICK t \in Tag : client_moves(t)
        BY <2>2
      <3>2. PICK j \in ClientNext[client[t]] :
               client' = [client EXCEPT ![t] = j]
        BY <3>1 DEF client_moves
      <3>3. client[t] \in DOMAIN ClientNext
        BY <1>0 DEF TypeOK
      <3>4. /\ client[t] # "absent" /\ j # "fetching"
            /\ j \in DOMAIN ClientNext
        BY <3>2, <3>3 DEF ClientNext
      <3> QED BY <1>0, <3>2, <3>4 DEF TypeOK, ClientQuiet
    <2> QED BY <2>1, <2>2
  <1>3. TypeOK'
    BY <1>0, <1>1, <1>2 DEF TypeOK
  <1>4. Rows'
    <2>1. ASSUME NEW o \in RequestId, exists(o)
          PROVE  Linked(o, request[o])'
      <3>1. /\ Linked(o, request[o])
            /\ request[o].remove_tag # None => request[o].remove_tag \in Tag
        BY <2>1, RowOf, Columns
      <3> QED BY <1>1, <1>2, <3>1 DEF Linked, ClientQuiet
    <2> QED BY <1>0, <1>1, <2>1 DEF Rows, Shape, exists
  <1>5. LookingIsSearched'
    BY <1>1 DEF IInv, LookingIsSearched, exists
  <1>6. ASSUME NEW o \in RequestId
        PROVE  /\ exists(o)' <=> exists(o)
               /\ TagsKept(request[o], request'[o])
               /\ KeyKept(request[o], request'[o])
               /\ ReadKept(request[o], request'[o], deleted')
               /\ request'[o].book = request[o].book
    BY <1>1 DEF TagsKept, KeyKept, ReadKept, exists
  <1>7. next_request <= next_request'
    BY <1>0, <1>1, BoundsAssumption DEF TypeOK
  <1> QED BY <1>1, <1>2, <1>3, <1>4, <1>5, <1>6, <1>7, OthersStep

(* A poller at rest between phases relies on nothing. *)
LEMMA AtRest ==
    ASSUME poller'.at \in {"idle", "read_removals", "read_adds", "adds",
                           "read_downloads", "read_finished", "unreachable"},
           \A e, f \in poller'.todo : e.id = f.id => e = f
    PROVE  PollerOK'
  BY DEF PollerOK

(* A restart: a copy filed and not noted is one more than before. *)
LEMMA Crash ==
    ASSUME IInv, crash
    PROVE  IInv'
  <1>0. TypeOK /\ Rows
    BY DEF IInv
  <1>1. /\ request' = request /\ result' = result
        /\ next_result' = next_result /\ poller' = Poller("idle", {})
        /\ library' = library /\ search' = [k \in Slot |-> None]
        /\ client' = client /\ failing' = None
        /\ faults' = faults /\ crashes' = crashes + 1
        /\ next_request' = next_request /\ deleted' = deleted
        /\ gone_readers' = gone_readers /\ orphaned' = orphaned
        /\ crashes < MaxCrashes
    BY DEF crash, versions, outside, shelf, accounts
  <1>2. poller' \in PollerState /\ poller'.at = "idle" /\ poller'.todo = {}
    BY <1>1 DEF Poller, PollerState, PollerSteps
  <1>3. crashes \in Nat /\ crashes' \in 0 .. MaxCrashes
    BY <1>0, <1>1, BoundsAssumption DEF TypeOK
  <1>4. TypeOK'
    BY <1>0, <1>1, <1>2, <1>3 DEF TypeOK
  <1>5. Rows'
    BY <1>0, <1>1 DEF Rows, Shape, Linked, exists
  <1>6. PollerOK'
    BY <1>2, AtRest
  <1>7. Copies'
    <2>1. ASSUME NEW t \in Tag PROVE library[t] <= crashes + 1
      <3>1. library[t] \in Nat
        BY <1>0 DEF TypeOK
      <3>2. library[t] <= crashes \/ library[t] = crashes + 1
        BY DEF IInv, Copies
      <3> QED BY <1>3, <3>1, <3>2
    <2> QED BY <1>1, <2>1 DEF Copies
  <1>8. NoOrphanDownload'
    BY <1>1 DEF IInv, NoOrphanDownload, exists
  <1>9. LookingIsSearched'
    BY <1>1, <1>3 DEF LookingIsSearched
  <1> QED BY <1>4, <1>5, <1>6, <1>7, <1>8, <1>9 DEF IInv

-----------------------------------------------------------------------------
(* The poller.                                                             *)

(* With the row at hand done, what holds of the rows left goes on holding, *)
(* because the step wrote no other row.                                    *)
LEMMA NextKept ==
    ASSUME TypeOK, PollerOK, poller.todo # {}, NEW at, next_row(at),
           \/ at = "adds"
           \/ at = "removals" /\ poller.at \in {"removals", "remove"}
           \/ /\ at \in {"downloads", "stop", "stop_idle"}
              /\ poller.at \in {"downloads", "verdict", "stop", "stop_idle"}
           \/ at = "imports" /\ poller.at \in {"imports", "key", "scan"},
           ClientQuiet, crashes' = crashes, UNCHANGED shelf,
           \A o \in RequestId : o # id => request'[o] = request[o],
           \A t \in Tag : t[1] # id => library'[t] = library[t]
    PROVE  PollerOK' /\ poller' \in PollerState
  <1>0. /\ next_request' = next_request /\ deleted' = deleted
        /\ gone_readers' = gone_readers
    BY DEF shelf, accounts
  <1>1. /\ poller' \in PollerState /\ poller'.at = at
        /\ poller'.todo \in SUBSET Copy
        /\ \A e, f \in poller'.todo : e.id = f.id => e = f
        /\ \A e \in poller'.todo : e \in poller.todo /\ e.id # id
    <2>1. at \in PollerSteps
      BY DEF PollerSteps
    <2> QED BY <2>1, NextRow
  <1>2. ASSUME NEW e \in poller'.todo
        PROVE  /\ e \in poller.todo /\ e \in Copy /\ e.id \in RequestId
               /\ e.id # id /\ e.row \in RequestRow
               /\ request'[e.id] = request[e.id] /\ e # at_hand
               /\ Gone(e)' <=> Gone(e)
               /\ exists(e.id)' <=> exists(e.id)
    <2>1. e \in Copy /\ e \in poller.todo /\ e.id # id
      BY <1>1
    <2>2. e.id \in RequestId /\ e.row \in RequestRow
          /\ request'[e.id] = request[e.id] /\ e # at_hand
      BY <2>1, AtHand DEF Copy
    <2> QED BY <1>0, <2>1, <2>2 DEF Gone, exists
  <1>3. CASE at = "adds"
    BY <1>1, <1>3, AtRest
  <1>4. CASE at = "removals"
    <2>1. ASSUME NEW e \in poller'.todo PROVE RemovalRead(e)'
      <3>1. RemovalRead(e)
        BY <1>2, <1>4 DEF PollerOK
      <3>2. e.row.remove_tag \in Tag
        BY <1>2, <3>1, Columns DEF RemovalRead
      <3> QED BY <1>2, <3>1, <3>2 DEF RemovalRead, ClientQuiet
    <2> QED BY <1>1, <1>4, <2>1 DEF PollerOK
  <1>5. CASE at \in {"downloads", "stop", "stop_idle"}
    <2>1. ASSUME NEW e \in poller'.todo PROVE Following(e)'
      <3>1. Following(e)
        BY <1>2, <1>5 DEF PollerOK
      <3> QED BY <1>2, <3>1 DEF Following, tagged, filing
    <2> QED BY <1>1, <1>5, <2>1 DEF PollerOK
  <1>6. CASE at = "imports"
    <2>1. ASSUME NEW e \in poller'.todo PROVE ImportRead(e)' /\ Unfiled(e)'
      <3>1. ImportRead(e) /\ Unfiled(e)
        BY <1>2, <1>6 DEF PollerOK
      <3>2. ImportRead(e)'
        BY <1>0, <1>2, <3>1
           DEF ImportRead, ImportGoesOn, importing, abandoned
      <3>3. e.row.client_tag \in Tag /\ e.row.client_tag[1] = e.id
        <4>1. /\ e.row.client_tag = <<e.id, e.row.chosen>>
              /\ e.row.chosen # None
          BY <3>1 DEF ImportRead
        <4>2. e.row.chosen \in ResultId
          BY <1>2, <4>1, Columns
        <4>3. <<e.id, e.row.chosen>> \in Tag
          BY <1>2, <4>2, Names
        <4>4. <<e.id, e.row.chosen>>[1] = e.id
          OBVIOUS
        <4> QED BY <4>1, <4>3, <4>4
      <3>4. library'[e.row.client_tag] = library[e.row.client_tag]
        BY <1>2, <3>3
      <3>5. Unfiled(e)'
        BY <1>2, <3>1, <3>4 DEF Unfiled
      <3> QED BY <3>2, <3>5
    <2> QED BY <1>1, <1>6, <2>1 DEF PollerOK
  <1> QED BY <1>1, <1>3, <1>4, <1>5, <1>6

(* The poller writes one row, and is somewhere it may be. *)
LEMMA PollerWrites ==
    ASSUME IInv, NEW r \in RequestId, exists(r), NEW q \in RequestRow,
           update(r, q), Shape(r, q), Linked(r, q),
           KeyKept(request[r], q),
           \A t \in Tag : t \in {request[r].client_tag, request[r].remove_tag} =>
               t \in {q.client_tag, q.remove_tag} \/ client[t] = "absent",
           q.state = "looking" => request[r].state = "looking",
           UNCHANGED <<versions, search, outside, crashes, shelf>>,
           failing' \in {"recent", "overdue", None}, faults' \in 0 .. MaxFaults,
           poller.at # "key", poller' \in PollerState, PollerOK'
    PROVE  IInv'
  <1>1. TypeOK /\ Rows /\ PollerOK /\ Copies
        /\ NoOrphanDownload /\ LookingIsSearched
    BY DEF IInv
  <1>2. /\ result' = result /\ next_result' = next_result
        /\ client' = client /\ library' = library
        /\ search' = search /\ crashes' = crashes
        /\ next_request' = next_request /\ deleted' = deleted
        /\ gone_readers' = gone_readers /\ orphaned' = orphaned
    BY DEF versions, outside, shelf, accounts
  <1>3. ClientQuiet
    BY <1>2 DEF ClientQuiet
  <1>4. /\ Rows' /\ request' \in [RequestId -> RequestRow \cup {None}]
        /\ request'[r] = q
        /\ \A o \in RequestId : o # r => request'[o] = request[o]
        /\ \A o \in RequestId : exists(o)' <=> exists(o)
    BY <1>1, <1>2, <1>3, RowMoves DEF versions, shelf, accounts
  <1>5. TypeOK'
    BY <1>1, <1>2, <1>4 DEF TypeOK
  <1>6. NoOrphanDownload'
    <2> SUFFICES ASSUME NEW t \in Tag, client[t] # "absent", t \notin orphaned
                 PROVE  \E o \in RequestId :
                           /\ exists(o)'
                           /\ t \in {request'[o].client_tag,
                                     request'[o].remove_tag}
      BY <1>2 DEF NoOrphanDownload
    <2>1. PICK o \in RequestId :
              exists(o) /\ t \in {request[o].client_tag, request[o].remove_tag}
      BY <1>1 DEF NoOrphanDownload
    <2>2. t \in {request'[o].client_tag, request'[o].remove_tag}
      BY <1>4, <2>1
    <2> QED BY <1>4, <2>1, <2>2
  <1>7. LookingIsSearched'
    <2>1. ASSUME NEW o \in RequestId, exists(o)', request'[o].state = "looking"
          PROVE  \/ exists(o) /\ request[o].state = "looking"
                 \/ \E k \in Slot : search'[k] = o
      BY <1>4, <2>1
    <2> QED BY <1>1, <1>2, <2>1, LookingKept
  <1>8. Copies'
    <2>1. next_request' \in Nat /\ next_request <= next_request'
      BY <1>1, <1>2, BoundsAssumption DEF TypeOK
    <2>2. ASSUME NEW o \in RequestId
          PROVE  /\ exists(o) => exists(o)' /\ KeyKept(request[o], request'[o])
                 /\ exists(o)' => exists(o)
      BY <1>4 DEF KeyKept
    <2> QED BY <1>1, <1>2, <2>1, <2>2, CopiesKept
  <1> QED BY <1>4, <1>5, <1>6, <1>7, <1>8 DEF IInv

(* The poller writes no row, and is somewhere it may be. *)
LEMMA PollerReads ==
    ASSUME IInv,
           UNCHANGED <<request, versions, search, outside, crashes, shelf>>,
           failing' \in {"recent", "overdue", None}, faults' \in 0 .. MaxFaults,
           poller.at # "key", poller' \in PollerState, PollerOK'
    PROVE  IInv'
  <1>1. TypeOK /\ Rows /\ PollerOK /\ Copies
        /\ NoOrphanDownload /\ LookingIsSearched
    BY DEF IInv
  <1>2. /\ result' = result /\ next_result' = next_result
        /\ client' = client /\ library' = library /\ request' = request
        /\ search' = search /\ crashes' = crashes
        /\ next_request' = next_request /\ deleted' = deleted
        /\ gone_readers' = gone_readers /\ orphaned' = orphaned
    BY DEF versions, outside, shelf, accounts
  <1>3. TypeOK'
    BY <1>1, <1>2 DEF TypeOK
  <1>4. Rows'
    BY <1>1, <1>2 DEF Rows, Shape, Linked, exists
  <1>5. NoOrphanDownload' /\ LookingIsSearched'
    BY <1>1, <1>2 DEF NoOrphanDownload, LookingIsSearched, exists
  <1>6. Copies'
    <2>1. next_request' \in Nat /\ next_request <= next_request'
      BY <1>1, <1>2, BoundsAssumption DEF TypeOK
    <2>2. ASSUME NEW o \in RequestId
          PROVE  /\ exists(o)' <=> exists(o)
                 /\ KeyKept(request[o], request'[o])
      BY <1>2 DEF KeyKept, exists
    <2> QED BY <1>1, <1>2, <2>1, <2>2, CopiesKept
  <1> QED BY <1>3, <1>4, <1>5, <1>6 DEF IInv

(* Calls that fail are counted. *)
LEMMA FaultsCounted ==
    ASSUME TypeOK, UNCHANGED faults \/ refuses \/ client_fails
    PROVE  /\ faults' \in 0 .. MaxFaults
           /\ client_fails => /\ poller' \in PollerState
                              /\ poller'.at = "unreachable"
                              /\ PollerOK'
  <1>1. faults' \in 0 .. MaxFaults
    BY BoundsAssumption DEF TypeOK, refuses, client_fails
  <1>2. ASSUME client_fails
        PROVE  /\ poller' \in PollerState /\ poller'.at = "unreachable"
               /\ poller'.todo = {}
    BY <1>2, Goes DEF client_fails, PollerSteps
  <1> QED BY <1>1, <1>2, AtRest

(* A pick is stuck, if the row still has the pick that was read. *)
LEMMA MarksStuck ==
    ASSUME IInv, poller.todo # {},
           NEW reason \in {"stopped_moving", "couldnt_add"},
           mark_stuck(reason),
           exists(id) /\ request[id].state \in {"chosen", "on_its_way"} =>
               \/ reason = "stopped_moving" /\ request[id].import_key = None
               \/ reason = "couldnt_add" /\ request[id].client_tag # None,
           UNCHANGED <<versions, search, outside, crashes, shelf>>,
           failing' \in {"recent", "overdue", None}, faults' \in 0 .. MaxFaults,
           poller.at # "key", poller' \in PollerState, PollerOK'
    PROVE  IInv'
  <1>1. CASE ~(request[id].state \in {"chosen", "on_its_way"} /\ same_pick)
    <2>1. request' = request
      BY <1>1 DEF mark_stuck
    <2> QED BY <2>1, PollerReads
  <1>2. CASE request[id].state \in {"chosen", "on_its_way"} /\ same_pick
    <2>1. id \in RequestId
      BY AtHand DEF IInv
    <2>2. PICK r \in RequestId : r = id
      BY <2>1
    <2> DEFINE old == request[r]
               q == [old EXCEPT !.state = "stuck", !.stuck_reason = reason]
    <2>3. /\ exists(r) /\ old \in RequestRow /\ Shape(r, old) /\ Linked(r, old)
          /\ old.state \in {"chosen", "on_its_way"} /\ old.chosen # None
          /\ \/ reason = "stopped_moving" /\ old.import_key = None
             \/ reason = "couldnt_add" /\ old.client_tag # None
          /\ update(r, q)
      BY <1>2, <2>2, RowOf DEF same_pick, mark_stuck
    <2>4. /\ q \in RequestRow /\ q.state = "stuck"
          /\ q.chosen = old.chosen
          /\ q.stuck_reason = reason /\ q.client_tag = old.client_tag
          /\ q.import_key = old.import_key /\ q.remove_tag = old.remove_tag
          /\ q.remove_since = old.remove_since /\ q.progress = old.progress
          /\ q.cancel_at = old.cancel_at /\ q.prior_state = old.prior_state
          /\ q.book = old.book
          /\ q.reader = old.reader
      BY <2>3 DEF RequestRow, State, StuckReason
    <2> HIDE DEF q, old
    <2>5. Shape(r, q)
      BY <2>3, <2>4, NoneFacts DEF Shape, stage, unpicked
    <2>6. old.book \notin deleted
      BY <2>3 DEF Linked
    <2>7. Linked(r, q)
      BY <2>3, <2>4, <2>6 DEF Linked, for_good
    <2>8. KeyKept(old, q) /\ q.state # "looking"
          /\ \A t \in Tag : t \in {old.client_tag, old.remove_tag} =>
               t \in {q.client_tag, q.remove_tag} \/ client[t] = "absent"
      BY <2>3, <2>4 DEF KeyKept, abandoned
    <2> QED BY <2>3, <2>4, <2>5, <2>7, <2>8, PollerWrites DEF old
  <1> QED BY <1>1, <1>2

(* What the client holds moves only where it says so; nothing else does.   *)
LEMMA Quiet ==
    ASSUME UNCHANGED outside
    PROVE  ClientQuiet /\ library' = library /\ client' = client
  BY DEF outside, ClientQuiet

(* remove_pending: asked, the client shows the job, or it is gone; only a  *)
(* row whose time to appear ran out forgets a tag, and by then the client  *)
(* has no such job.                                                        *)
LEMMA RemovePending ==
    ASSUME IInv, remove_pending
    PROVE  IInv'
  <1>0. TypeOK /\ Rows /\ PollerOK
    BY DEF IInv
  <1>1. /\ poller.at = "removals" /\ poller.todo # {}
        /\ UNCHANGED <<versions, search, outside, crashes, shelf>>
        /\ failing' = failing /\ failing \in {"recent", "overdue", None}
    BY <1>0 DEF remove_pending, at_row, TypeOK
  <1>2. at_hand \in poller.todo /\ id \in RequestId /\ row \in RequestRow
        /\ at_hand.id = id /\ at_hand.row = row
    BY <1>0, <1>1, AtHand
  <1>3. PICK r \in RequestId : r = id
    BY <1>2
  <1> DEFINE old == request[r]
             tag == row.remove_tag
  <1>4. /\ tag # None /\ RemovalRead(at_hand)
        /\ Gone(at_hand) \/ (exists(r) /\ old.remove_tag = tag)
        /\ row.remove_since # "recent" => client[tag] # "fetching"
    BY <1>0, <1>1, <1>2, <1>3 DEF PollerOK, RemovalRead
  <1>5. /\ tag \in Tag /\ row.remove_tag = tag
        /\ exists(r) => old \in RequestRow /\ Shape(r, old) /\ Linked(r, old)
                        /\ old.remove_tag = tag
    BY <1>2, <1>3, <1>4, RowOf, Columns DEF Gone
  <1>6. client[tag] \in DOMAIN ClientNext
    BY <1>0, <1>5 DEF TypeOK
  <1>7. ClientQuiet /\ crashes' = crashes /\ UNCHANGED shelf
        /\ library' = library /\ next_request' = next_request
    BY <1>1, Quiet DEF shelf
  <1>11. poller.at # "key" /\ failing' \in {"recent", "overdue", None}
    BY <1>1
  <1>12. still_to_remove <=> exists(r)
    BY <1>3, <1>5 DEF still_to_remove
  <1>8. CASE /\ client[tag] \in Shown
             /\ IF still_to_remove
                THEN update(id, [request[id] EXCEPT !.remove_since = None])
                ELSE UNCHANGED request
             /\ goto("remove", poller.todo)
             /\ UNCHANGED faults
    <2> DEFINE q == [old EXCEPT !.remove_since = None]
    <2>1. faults' \in 0 .. MaxFaults
      BY <1>0, <1>8 DEF TypeOK
    <2>2. /\ poller' \in PollerState /\ poller'.at = "remove"
          /\ poller'.todo = poller.todo
      <3>1. poller.todo \in SUBSET Copy
        BY <1>0 DEF TypeOK, PollerState
      <3> QED BY <1>8, <3>1, Goes DEF PollerSteps
    <2>3. ASSUME \A o \in RequestId :
                    /\ request'[o] # None <=> request[o] # None
                    /\ request[o] # None =>
                          request'[o].remove_tag = request[o].remove_tag
          PROVE  PollerOK'
      <3>1. ASSUME NEW e \in poller.todo PROVE RemovalRead(e)'
        <4>1. RemovalRead(e) /\ e \in Copy
          BY <1>0, <1>1 DEF PollerOK, TypeOK, PollerState
        <4>2. e.id \in RequestId /\ e.row.remove_tag \in Tag
          BY <4>1, Columns DEF RemovalRead, Copy
        <4> QED BY <1>7, <2>3, <4>1, <4>2
                DEF RemovalRead, ClientQuiet, Gone, exists
      <3> QED BY <1>0, <1>1, <2>2, <3>1 DEF PollerOK
    <2>4. CASE ~exists(r)
      <3>1. request' = request
        BY <1>8, <1>12, <2>4
      <3>2. PollerOK'
        BY <2>3, <3>1
      <3> QED BY <1>1, <1>11, <2>1, <2>2, <3>1, <3>2, PollerReads
    <2>5. CASE exists(r)
      <3>1. update(r, q)
        BY <1>3, <1>8, <1>12, <2>5
      <3>2. /\ q \in RequestRow /\ q.state = old.state
            /\ q.chosen = old.chosen
            /\ q.stuck_reason = old.stuck_reason
            /\ q.client_tag = old.client_tag
            /\ q.import_key = old.import_key /\ q.remove_tag = old.remove_tag
            /\ q.remove_since = None /\ q.progress = old.progress
            /\ q.cancel_at = old.cancel_at /\ q.prior_state = old.prior_state
            /\ q.book = old.book
        BY <1>5, <2>5 DEF RequestRow
      <3> HIDE DEF q
      <3>3. client[tag] # "fetching"
        BY <1>8 DEF Shown
      <3>4. Shape(r, q)
        BY <1>5, <2>5, <3>2, NoneFacts DEF Shape, stage, unpicked
      <3>5. Linked(r, q)
        BY <1>4, <1>5, <2>5, <3>2, <3>3 DEF Linked, for_good, may_undo
      <3>6. KeyKept(old, q) /\ TagsKept(old, q)
        BY <3>2 DEF KeyKept, TagsKept, abandoned
      <3>7. /\ request'[r] = q
            /\ \A o \in RequestId : o # r => request'[o] = request[o]
        BY <1>0, <3>1, <3>2 DEF TypeOK, update
      <3>8. PollerOK'
        <4>1. ASSUME NEW o \in RequestId
              PROVE  /\ request'[o] # None <=> request[o] # None
                     /\ request[o] # None =>
                           request'[o].remove_tag = request[o].remove_tag
          <5>1. CASE o = r
            BY <2>5, <3>2, <3>7, <5>1, NoneFacts DEF exists
          <5>2. CASE o # r
            BY <3>7, <5>2
          <5> QED BY <5>1, <5>2
        <4> QED BY <2>3, <4>1
      <3>9. \A t \in Tag : t \in {old.client_tag, old.remove_tag} =>
               t \in {q.client_tag, q.remove_tag} \/ client[t] = "absent"
        BY <3>6 DEF TagsKept
      <3>10. (q.state = "looking" => old.state = "looking") /\ q \in RequestRow
        BY <3>2
      <3> HIDE DEF old, tag
      <3> QED BY <1>1, <1>11, <2>1, <2>2, <2>5, <3>1, <3>4, <3>5, <3>6, <3>8,
                 <3>9, <3>10, PollerWrites DEF old
    <2> QED BY <2>4, <2>5
  <1>9. CASE /\ client[tag] \notin Shown
             /\ IF gone(row) /\ still_to_remove
                THEN update(id, [request[id] EXCEPT !.remove_tag = None,
                                                    !.remove_since = None])
                ELSE UNCHANGED request
             /\ next_row("removals")
             /\ UNCHANGED faults
    <2>1. faults' \in 0 .. MaxFaults
      BY <1>0, <1>9 DEF TypeOK
    <2>2. CASE request' = request
      <3>1. PollerOK' /\ poller' \in PollerState
        BY <1>0, <1>1, <1>7, <1>9, <2>2, NextKept
      <3> QED BY <1>1, <2>1, <2>2, <3>1, PollerReads
    <2>3. CASE /\ gone(row) /\ exists(r)
               /\ update(id, [request[id] EXCEPT !.remove_tag = None,
                                                 !.remove_since = None])
      <3> DEFINE q == [old EXCEPT !.remove_tag = None, !.remove_since = None]
      <3>1. update(r, q)
        BY <1>3, <2>3
      <3>2. /\ q \in RequestRow /\ q.state = old.state
            /\ q.chosen = old.chosen
            /\ q.stuck_reason = old.stuck_reason
            /\ q.client_tag = old.client_tag
            /\ q.import_key = old.import_key /\ q.remove_tag = None
            /\ q.remove_since = None /\ q.progress = old.progress
            /\ q.cancel_at = old.cancel_at /\ q.prior_state = old.prior_state
            /\ q.book = old.book
            /\ q.reader = old.reader
        BY <1>5, <2>3 DEF RequestRow
      <3> HIDE DEF q
      <3>3. client[tag] = "absent"
        <4>1. row.remove_since # "recent"
          BY <2>3, NoneFacts DEF gone
        <4> QED BY <1>4, <1>6, <1>9, <4>1 DEF ClientNext, Shown
      <3>4. Shape(r, q)
        BY <1>5, <2>3, <3>2, NoneFacts DEF Shape, stage, unpicked
      <3>5. Linked(r, q)
        BY <1>5, <2>3, <3>2 DEF Linked
      <3>6. KeyKept(old, q)
        BY <3>2 DEF KeyKept, abandoned
      <3>7. \A t \in Tag : t \in {old.client_tag, old.remove_tag} =>
                t \in {q.client_tag, q.remove_tag} \/ client[t] = "absent"
        BY <1>5, <2>3, <3>2, <3>3
      <3>8. \A o \in RequestId : o # id => request'[o] = request[o]
        BY <1>0, <1>3, <3>1 DEF TypeOK, update
      <3>9. PollerOK' /\ poller' \in PollerState
        BY <1>0, <1>1, <1>7, <1>9, <3>8, NextKept
      <3>10. (q.state = "looking" => old.state = "looking") /\ q \in RequestRow
        BY <3>2
      <3> HIDE DEF old, tag
      <3> QED BY <1>1, <1>11, <2>1, <2>3, <3>1, <3>4, <3>5, <3>6, <3>7, <3>9,
                 <3>10, PollerWrites DEF old
    <2> QED BY <1>9, <1>12, <2>2, <2>3
  <1>10. CASE client_fails /\ UNCHANGED request
    <2>1. faults' \in 0 .. MaxFaults /\ poller' \in PollerState /\ PollerOK'
      BY <1>0, <1>10, FaultsCounted
    <2> QED BY <1>1, <1>10, <2>1, PollerReads
  <1> QED BY <1>8, <1>9, <1>10 DEF remove_pending

(* A tag to be handed over is that of a pick, or was left behind by a row. *)
Handed(t) ==
    \/ \E r \in RequestId : exists(r) /\ request[r].client_tag = t
    \/ ~exists(t[1]) /\ t \in orphaned

(* The poller calls the client, and writes no row. *)
LEMMA ClientCalled ==
    ASSUME IInv,
           UNCHANGED <<request, versions, search, library, crashes, shelf>>,
           failing' \in {"recent", "overdue", None}, faults' \in 0 .. MaxFaults,
           client' \in [Tag -> DOMAIN ClientNext],
           \A t \in Tag : client'[t] # "absent" =>
               client[t] # "absent" \/ Handed(t),
           \A t \in Tag : client'[t] = "fetching" =>
               client[t] = "fetching" \/ Handed(t),
           poller.at # "key", poller' \in PollerState, PollerOK'
    PROVE  IInv'
  <1>1. TypeOK /\ Rows /\ PollerOK /\ Copies
        /\ NoOrphanDownload /\ LookingIsSearched
    BY DEF IInv
  <1>2. /\ result' = result /\ next_result' = next_result
        /\ library' = library /\ request' = request
        /\ search' = search /\ crashes' = crashes
        /\ next_request' = next_request /\ deleted' = deleted
        /\ gone_readers' = gone_readers /\ orphaned' = orphaned
    BY DEF versions, shelf, accounts
  <1>3. TypeOK'
    BY <1>1, <1>2 DEF TypeOK
  <1>4. Rows'
    <2>1. ASSUME NEW o \in RequestId, exists(o) PROVE Linked(o, request[o])'
      <3>1. PICK p \in RequestRow : p = request[o] /\ Linked(o, p)
        BY <2>1, RowOf
      <3>2. p.remove_tag # None =>
               p.remove_tag \in Tag /\ ~Handed(p.remove_tag)
        <4>1. p.remove_tag # None =>
                 ~ \E r \in RequestId :
                      exists(r) /\ request[r].client_tag = p.remove_tag
          BY <2>1, <3>1, Columns, NoneFacts, PickIsNotRemoved, ZenonT(60)
        <4>2. p.remove_tag # None => p.remove_tag[1] = o
          BY <2>1, <3>1, RowOf DEF Shape
        <4> QED BY <2>1, <4>1, <4>2, Columns DEF Handed
      <3>3. p.remove_tag # None /\ client'[p.remove_tag] = "fetching" =>
               client[p.remove_tag] = "fetching"
        BY <3>2
      <3>4. next_result \in Nat
        BY <1>1, BoundsAssumption DEF TypeOK
      <3>5. Linked(o, p)'
        BY <1>2, <3>1, <3>3, <3>4, LinkedKept
      <3> QED BY <1>2, <3>1, <3>5 DEF Linked
    <2> QED BY <1>1, <1>2, <2>1 DEF Rows, Shape, exists
  <1>5. NoOrphanDownload'
    BY <1>1, <1>2 DEF NoOrphanDownload, exists, Handed
  <1>6. LookingIsSearched'
    BY <1>1, <1>2 DEF LookingIsSearched, exists
  <1>7. Copies'
    <2>1. next_request' \in Nat /\ next_request <= next_request'
      BY <1>1, <1>2, BoundsAssumption DEF TypeOK
    <2>2. ASSUME NEW o \in RequestId
          PROVE  /\ exists(o)' <=> exists(o)
                 /\ KeyKept(request[o], request'[o])
      BY <1>2 DEF KeyKept, exists
    <2> QED BY <1>1, <1>2, <2>1, <2>2, CopiesKept
  <1> QED BY <1>3, <1>4, <1>5, <1>6, <1>7 DEF IInv

(* remove_call: the download goes, files and all, or the call fails. *)
LEMMA RemoveCall ==
    ASSUME IInv, remove_call
    PROVE  IInv'
  <1>0. TypeOK /\ PollerOK
    BY DEF IInv
  <1>1. /\ poller.at = "remove" /\ poller.todo # {}
        /\ UNCHANGED <<request, versions, search, library, crashes, shelf>>
        /\ failing' \in {"recent", "overdue", None}
        /\ poller.at # "key"
    BY <1>0 DEF remove_call, TypeOK, PollerOK
  <1>2. /\ client' \in [Tag -> DOMAIN ClientNext] /\ ClientQuiet
    <2>1. \/ client' = client
          \/ client' = [client EXCEPT ![row.remove_tag] = "absent"]
      BY DEF remove_call
    <2>2. "absent" \in DOMAIN ClientNext
      BY DEF ClientNext
    <2> QED BY <1>0, <2>1, <2>2 DEF TypeOK, ClientQuiet
  <1>3. faults' \in 0 .. MaxFaults
    BY <1>0, FaultsCounted DEF remove_call
  <1>4. PollerOK' /\ poller' \in PollerState
    <2>1. CASE next_row("removals")
      BY <1>0, <1>1, <1>2, <2>1, NextKept
    <2>2. CASE client_fails
      BY <1>0, <2>2, FaultsCounted
    <2> QED BY <2>1, <2>2 DEF remove_call
  <1> QED BY <1>1, <1>2, <1>3, <1>4, ClientCalled DEF ClientQuiet

(* begin_download: the pick is tagged before the client is called. *)
LEMMA BeginDownload ==
    ASSUME IInv, begin_download
    PROVE  IInv'
  <1>0. TypeOK /\ Rows /\ PollerOK
    BY DEF IInv
  <1>1. /\ poller.at = "adds" /\ poller.todo # {} /\ poller.at # "key"
        /\ UNCHANGED <<versions, search, outside, crashes, shelf>>
        /\ UNCHANGED faults
        /\ failing' \in {"recent", "overdue", None}
        /\ faults' \in 0 .. MaxFaults
    BY <1>0 DEF begin_download, at_row, TypeOK, budgets
  <1>2. at_hand \in poller.todo /\ id \in RequestId /\ row \in RequestRow
        /\ at_hand.id = id /\ at_hand.row = row
    BY <1>0, <1>1, AtHand
  <1>3. ClientQuiet /\ crashes' = crashes /\ UNCHANGED shelf
        /\ library' = library
    BY <1>1, Quiet
  <1>4. CASE id \notin awaiting_add
    <2>1. next_row("adds") /\ request' = request
      BY <1>4 DEF begin_download
    <2>2. PollerOK' /\ poller' \in PollerState
      BY <1>0, <1>1, <1>3, <2>1, NextKept
    <2> QED BY <1>1, <2>1, <2>2, PollerReads
  <1>5. CASE id \in awaiting_add
    <2>1. PICK r \in RequestId : r = id
      BY <1>2
    <2> DEFINE old == request[r]
               q == [old EXCEPT !.client_tag = <<r, old.chosen>>]
    <2>2. /\ exists(r) /\ old \in RequestRow /\ Shape(r, old) /\ Linked(r, old)
          /\ old.state = "chosen" /\ old.chosen # None
          /\ old.chosen \in ResultId
          /\ update(r, q)
      BY <1>5, <2>1, RowOf, Columns DEF awaiting_add, begin_download
    <2>3. /\ <<r, old.chosen>> \in Tag
          /\ <<r, old.chosen>> # None
      BY <2>2, Names, NoneFacts
    <2>4. /\ q \in RequestRow /\ q.state = "chosen"
          /\ q.chosen = old.chosen
          /\ q.stuck_reason = old.stuck_reason
          /\ q.client_tag = <<r, old.chosen>>
          /\ q.import_key = old.import_key /\ q.remove_tag = old.remove_tag
          /\ q.remove_since = old.remove_since /\ q.progress = old.progress
          /\ q.cancel_at = old.cancel_at /\ q.prior_state = old.prior_state
          /\ q.book = old.book
          /\ q.reader = old.reader
      BY <2>2, <2>3 DEF RequestRow
    <2> HIDE DEF q, old
    <2>5. Shape(r, q)
      BY <2>2, <2>3, <2>4, NoneFacts DEF Shape, stage, unpicked
    <2>6. old.book \notin deleted
      BY <2>2 DEF Linked
    <2>7. Linked(r, q)
      BY <2>2, <2>4, <2>6 DEF Linked, for_good
    <2>8. KeyKept(old, q) /\ q.state # "looking"
          /\ \A t \in Tag : t \in {old.client_tag, old.remove_tag} =>
               t \in {q.client_tag, q.remove_tag} \/ client[t] = "absent"
      <3>1. old.client_tag # None => old.client_tag = <<r, old.chosen>>
        BY <2>2 DEF Shape
      <3> QED BY <2>2, <2>4, <3>1, NoneFacts DEF KeyKept, abandoned
    <2>9. /\ request'[r] = q
          /\ \A o \in RequestId : o # id => request'[o] = request[o]
      BY <1>0, <2>1, <2>2 DEF TypeOK, update
    <2>10. PollerOK' /\ poller' \in PollerState
      <3>1. CASE next_row("adds")
        BY <1>0, <1>1, <1>3, <2>9, <3>1, NextKept
      <3>2. CASE goto("hand_over", (poller.todo \ {at_hand}) \cup
                           {[at_hand EXCEPT !.row.client_tag = <<r, old.chosen>>]})
        <4> DEFINE tag == <<r, old.chosen>>
                   e0 == [at_hand EXCEPT !.row.client_tag = tag]
                   rest == (poller.todo \ {at_hand}) \cup {e0}
        <4>1. poller.todo \in SUBSET Copy /\ at_hand \in Copy
          BY <1>0, <1>2 DEF TypeOK, PollerState
        <4>2. e0 \in Copy /\ e0.id = id /\ e0.row.client_tag = tag
          BY <1>2, <2>3, <4>1 DEF Copy, RequestRow
        <4> HIDE DEF e0
        <4>3. rest \in SUBSET Copy /\ rest # {}
          BY <4>1, <4>2
        <4>4. \A e \in poller.todo \ {at_hand} : e.id # id /\ id <= e.id
                                               /\ e.id \in Nat
          BY <1>0, <1>1, <1>2, <4>1, AtHand, Names DEF PollerOK, Copy
        <4>5. \A e, f \in rest : e.id = f.id => e = f
          BY <1>0, <4>2, <4>4 DEF PollerOK
        <4>6. /\ poller' \in PollerState /\ poller'.at = "hand_over"
              /\ poller'.todo = rest
          BY <3>2, <4>3, Goes DEF PollerSteps, e0
        <4>7. at_hand' = e0
          <5>1. /\ at_hand' \in rest
                /\ \A f \in rest : at_hand'.id <= f.id
            <6> HIDE DEF rest
            <6> QED BY <4>3, <4>6, FirstRow DEF at_hand
          <5>2. at_hand'.id <= id
            BY <4>2, <5>1
          <5>3. id \in Nat
            BY <1>2, Names
          <5> QED BY <4>4, <5>1, <5>2, <5>3
        <4>8. ASSUME NEW e \in Copy, e = e0 PROVE HandRead(e)'
          <5>1. request'[e.id] = q /\ q # None
            BY <2>1, <2>4, <2>9, <4>2, <4>8, NoneFacts
          <5>2. handing(q) /\ q.client_tag = e.row.client_tag
            BY <2>3, <2>4, <4>2, <4>8 DEF handing
          <5>3. e.row.client_tag # None /\ e.row.client_tag[1] = e.id
            BY <2>1, <2>3, <4>2, <4>8
          <5> QED BY <5>1, <5>2, <5>3 DEF HandRead, exists, handing
        <4>9. HandRead(at_hand)'
          BY <4>2, <4>7, <4>8 DEF HandRead, Gone, exists, handing
        <4> HIDE DEF rest
        <4> QED BY <4>3, <4>5, <4>6, <4>9 DEF PollerOK
      <3> QED BY <1>5, <2>1, <3>1, <3>2 DEF begin_download, old
    <2>11. q.state = "looking" => old.state = "looking"
      BY <2>4
    <2>12. q \in RequestRow
      BY <2>4
    <2> QED BY <1>1, <2>2, <2>5, <2>7, <2>8, <2>10, <2>11, <2>12, PollerWrites
            DEF old
  <1> QED BY <1>4, <1>5

(* hand_over: the job added is the one the row has just been tagged with.  *)
LEMMA HandOver ==
    ASSUME IInv, hand_over
    PROVE  IInv'
  <1> DEFINE tag == row.client_tag
  <1>0. TypeOK /\ PollerOK
    BY DEF IInv
  <1>1. /\ poller.at = "hand_over" /\ poller.todo # {}
        /\ UNCHANGED <<request, versions, search, library, crashes, shelf>>
        /\ failing' \in {"recent", "overdue", None}
        /\ poller.at # "key"
        /\ HandRead(at_hand)
    BY <1>0 DEF hand_over, TypeOK, PollerOK
  <1>2. /\ id \in RequestId /\ row \in RequestRow /\ at_hand \in Copy
        /\ at_hand.id = id /\ at_hand.row = row
    BY <1>0, <1>1, AtHand
  <1>3. tag \in Tag /\ Handed(tag)
    <2>1. tag \in Tag /\ tag[1] = id
      BY <1>1, <1>2, Columns DEF HandRead
    <2> QED BY <1>1, <1>2, <2>1 DEF HandRead, Handed, Gone
  <1>4. \/ client' = client
        \/ client' = [client EXCEPT ![tag] = IF @ = "absent" THEN "fetching"
                                             ELSE @]
    BY Zenon DEF hand_over
  <1>5. /\ client' \in [Tag -> DOMAIN ClientNext]
        /\ \A t \in Tag : t # tag => client'[t] = client[t]
    <2>1. "fetching" \in DOMAIN ClientNext
      BY DEF ClientNext
    <2> QED BY <1>0, <1>3, <1>4, <2>1 DEF TypeOK
  <1>6. faults' \in 0 .. MaxFaults
    BY <1>0, FaultsCounted DEF hand_over
  <1>7. PollerOK' /\ poller' \in PollerState
    <2>1. ASSUME NEW at \in {"added", "refused"}, goto(at, poller.todo)
          PROVE  PollerOK' /\ poller' \in PollerState
      <3>1. poller.todo \in SUBSET Copy
        BY <1>0 DEF TypeOK, PollerState
      <3>2. /\ poller' \in PollerState /\ poller'.at = at
            /\ poller'.todo = poller.todo
        BY <2>1, <3>1, Goes DEF PollerSteps
      <3>3. at_hand' = at_hand
        BY <3>2 DEF at_hand
      <3>4. HandRead(at_hand)'
        BY <1>1, <3>3
           DEF HandRead, Gone, exists, handing, shelf, accounts
      <3> QED BY <1>0, <1>1, <3>2, <3>4 DEF PollerOK
    <2>2. CASE client_fails
      BY <1>0, <2>2, FaultsCounted
    <2>3. \/ \E at \in {"added", "refused"} : goto(at, poller.todo)
          \/ client_fails
      BY Zenon DEF hand_over
    <2> QED BY <2>1, <2>2, <2>3
  <1>8. ASSUME NEW t \in Tag
        PROVE  client'[t] = client[t] \/ Handed(t)
    BY <1>3, <1>5
  <1> HIDE DEF tag
  <1> QED BY <1>1, <1>5, <1>6, <1>7, <1>8, ClientCalled

(* mark_on_its_way: the row handed over is followed. *)
LEMMA OnItsWay ==
    ASSUME IInv, mark_on_its_way
    PROVE  IInv'
  <1>0. TypeOK /\ Rows /\ PollerOK
    BY DEF IInv
  <1>1. /\ poller.at = "added" /\ poller.todo # {} /\ poller.at # "key"
        /\ UNCHANGED <<versions, search, outside, crashes, shelf>>
        /\ failing' \in {"recent", "overdue", None}
        /\ faults' \in 0 .. MaxFaults
        /\ HandRead(at_hand) /\ next_row("adds")
    BY <1>0 DEF mark_on_its_way, TypeOK, budgets, PollerOK
  <1>2. id \in RequestId /\ (exists(id) => handing(request[id]))
    BY <1>0, <1>1, AtHand DEF HandRead, Gone
  <1>3. ClientQuiet /\ crashes' = crashes /\ UNCHANGED shelf
        /\ library' = library
    BY <1>1, Quiet
  <1>4. CASE ~(exists(id) /\ request[id].state = "chosen")
    <2>1. request' = request
      BY <1>4 DEF mark_on_its_way
    <2>2. PollerOK' /\ poller' \in PollerState
      BY <1>0, <1>1, <1>3, <2>1, NextKept
    <2> QED BY <1>1, <2>1, <2>2, PollerReads
  <1>5. CASE exists(id) /\ request[id].state = "chosen"
    <2>1. PICK r \in RequestId : r = id
      BY <1>2
    <2> DEFINE old == request[r]
               q == [old EXCEPT !.state = "on_its_way"]
    <2>2. /\ exists(r) /\ old \in RequestRow /\ Shape(r, old) /\ Linked(r, old)
          /\ old.state = "chosen" /\ old.client_tag # None
          /\ update(r, q)
      BY <1>2, <1>5, <2>1, RowOf DEF mark_on_its_way, handing
    <2>3. /\ q \in RequestRow /\ q.state = "on_its_way"
          /\ q.chosen = old.chosen
          /\ q.stuck_reason = old.stuck_reason
          /\ q.client_tag = old.client_tag
          /\ q.import_key = old.import_key /\ q.remove_tag = old.remove_tag
          /\ q.remove_since = old.remove_since /\ q.progress = old.progress
          /\ q.cancel_at = old.cancel_at /\ q.prior_state = old.prior_state
          /\ q.book = old.book
          /\ q.reader = old.reader
      BY <2>2 DEF RequestRow, State, LIVE_STATES
    <2> HIDE DEF q, old
    <2>4. Shape(r, q)
      BY <2>2, <2>3, NoneFacts DEF Shape, stage, unpicked
    <2>5. old.book \notin deleted
      BY <2>2 DEF Linked
    <2>6. Linked(r, q)
      BY <2>2, <2>3, <2>5 DEF Linked, for_good
    <2>7. /\ KeyKept(old, q) /\ q \in RequestRow
          /\ q.state = "looking" => old.state = "looking"
          /\ \A t \in Tag : t \in {old.client_tag, old.remove_tag} =>
               t \in {q.client_tag, q.remove_tag} \/ client[t] = "absent"
      BY <2>2, <2>3 DEF KeyKept, abandoned
    <2>8. \A o \in RequestId : o # id => request'[o] = request[o]
      BY <1>0, <2>1, <2>2 DEF TypeOK, update
    <2>9. PollerOK' /\ poller' \in PollerState
      BY <1>0, <1>1, <1>3, <2>8, NextKept
    <2> QED BY <1>1, <2>2, <2>4, <2>6, <2>7, <2>9, PollerWrites DEF old
  <1> QED BY <1>4, <1>5

(* add_refused: a pick the client will not have is stuck. *)
LEMMA AddRefused ==
    ASSUME IInv, add_refused
    PROVE  IInv'
  <1>0. TypeOK /\ Rows /\ PollerOK
    BY DEF IInv
  <1>1. /\ poller.at = "refused" /\ poller.todo # {} /\ poller.at # "key"
        /\ UNCHANGED <<versions, search, outside, crashes, shelf>>
        /\ failing' \in {"recent", "overdue", None}
        /\ faults' \in 0 .. MaxFaults
        /\ HandRead(at_hand) /\ next_row("adds")
        /\ mark_stuck("stopped_moving")
    BY <1>0 DEF add_refused, TypeOK, budgets, PollerOK
  <1>2. id \in RequestId /\ (exists(id) => handing(request[id]))
    BY <1>0, <1>1, AtHand DEF HandRead, Gone
  <1>3. ClientQuiet /\ crashes' = crashes /\ UNCHANGED shelf
        /\ library' = library
    BY <1>1, Quiet
  <1>4. exists(id) /\ request[id].state \in {"chosen", "on_its_way"} =>
           request[id].import_key = None
    BY <1>2, RowOf DEF handing, Shape, stage
  <1>5. \A o \in RequestId : o # id => request'[o] = request[o]
    BY <1>0, <1>1 DEF mark_stuck, update, TypeOK
  <1>6. PollerOK' /\ poller' \in PollerState
    BY <1>0, <1>1, <1>3, <1>5, NextKept
  <1> QED BY <1>1, <1>4, <1>6, MarksStuck

(* follow_downloads: the answer is a verdict to write, or nothing to say.  *)
LEMMA FollowDownloads ==
    ASSUME IInv, follow_downloads
    PROVE  IInv'
  <1>0. TypeOK /\ Rows /\ PollerOK
    BY DEF IInv
  <1>1. /\ poller.at = "downloads" /\ poller.todo # {} /\ poller.at # "key"
        /\ UNCHANGED <<request, versions, search, outside, crashes, shelf>>
        /\ failing' \in {"recent", "overdue", None}
    BY <1>0 DEF follow_downloads, at_row, TypeOK
  <1>2. ClientQuiet /\ crashes' = crashes /\ UNCHANGED shelf
        /\ library' = library
    BY <1>1, Quiet
  <1>3. CASE client_fails
    BY <1>0, <1>1, <1>3, FaultsCounted, PollerReads
  <1>4. CASE next_row("downloads") /\ UNCHANGED faults
    <2>1. PollerOK' /\ poller' \in PollerState
      BY <1>0, <1>1, <1>2, <1>4, NextKept
    <2> QED BY <1>0, <1>1, <1>4, <2>1, FaultsCounted, PollerReads
  <1>5. ASSUME NEW v \in judge(row, client[row.client_tag]), v # None,
               poller' = [poller EXCEPT !.at = "verdict", !.verdict = v],
               UNCHANGED faults
        PROVE  IInv'
    <2>1. v \in {"stopped", "part", "full", None}
      <3>1. \A s \in {{"stopped"}, {None}, {None, "stopped"}, {"full"},
                      {"part"}, {"part", None, "stopped"}} :
               v \in s => v \in {"stopped", "part", "full", None}
        OBVIOUS
      <3>2. client[row.client_tag] \in DOMAIN ClientNext
        <4>1. row.client_tag \in Tag
          BY <1>0, <1>1, AtHand, Columns DEF PollerOK, Following
        <4> QED BY <1>0, <4>1 DEF TypeOK
      <3>3. judge(row, client[row.client_tag]) \in
               {{"stopped"}, {None}, {None, "stopped"}, {"full"},
                {"part"}, {"part", None, "stopped"}}
        BY <3>2 DEF judge, Shown, ClientNext
      <3> QED BY <1>5, <3>1, <3>3
    <2>2. /\ poller' \in PollerState /\ poller'.at = "verdict"
          /\ poller'.verdict = v /\ poller'.todo = poller.todo
      BY <1>0, <1>5, <2>1 DEF TypeOK, PollerState, PollerSteps
    <2>3. ASSUME NEW e \in poller.todo PROVE Following(e)'
      BY <1>0, <1>1, <2>3
         DEF PollerOK, Following, Gone, exists, tagged, filing, shelf
    <2>4. PollerOK'
      BY <1>0, <1>1, <1>5, <2>2, <2>3 DEF PollerOK
    <2> QED BY <1>0, <1>1, <1>5, <2>2, <2>4, FaultsCounted, PollerReads
  <1> QED BY <1>3, <1>4, <1>5 DEF follow_downloads

(* write_verdict, of a download not filed yet. *)
LEMMA WriteVerdict ==
    ASSUME IInv, write_verdict
    PROVE  IInv'
  <1>0. TypeOK /\ Rows /\ PollerOK
    BY DEF IInv
  <1>1. /\ poller.at = "verdict" /\ poller.todo # {} /\ poller.at # "key"
        /\ UNCHANGED <<versions, search, outside, crashes, shelf>>
        /\ failing' \in {"recent", "overdue", None}
        /\ faults' \in 0 .. MaxFaults
        /\ next_row("downloads")
    BY <1>0 DEF write_verdict, TypeOK, budgets, PollerOK
  <1>2. /\ at_hand \in poller.todo /\ id \in RequestId /\ at_hand.id = id
    BY <1>0, <1>1, AtHand
  <1>3. ClientQuiet /\ crashes' = crashes /\ UNCHANGED shelf
        /\ library' = library
    BY <1>1, Quiet
  <1>4. exists(id) => ~filing(request[id])
    BY <1>0, <1>1, <1>2 DEF PollerOK, Following, Gone
  <1>5. CASE mark_stuck("stopped_moving")
    <2>1. \A o \in RequestId : o # id => request'[o] = request[o]
      BY <1>0, <1>5 DEF mark_stuck, update, TypeOK
    <2>2. PollerOK' /\ poller' \in PollerState
      BY <1>0, <1>1, <1>3, <2>1, NextKept
    <2> QED BY <1>1, <1>4, <1>5, <2>2, MarksStuck DEF filing
  <1>6. CASE poller.verdict \in {"part", "full"} /\ record_progress
    <2>1. CASE request' = request
      <3>1. PollerOK' /\ poller' \in PollerState
        BY <1>0, <1>1, <1>3, <2>1, NextKept
      <3> QED BY <1>1, <2>1, <3>1, PollerReads
    <2>2. CASE exists(id) /\ request[id].state = "on_its_way"
               /\ update(id, [request[id] EXCEPT !.progress = poller.verdict])
      <3>1. PICK r \in RequestId : r = id
        BY <1>2
      <3>2. PICK verdict \in {"part", "full"} : verdict = poller.verdict
        BY <1>6
      <3> DEFINE old == request[r]
                 q == [old EXCEPT !.progress = verdict]
      <3>3. /\ exists(r) /\ old \in RequestRow /\ Shape(r, old)
            /\ Linked(r, old)
            /\ old.state = "on_its_way" /\ old.import_key = None
            /\ update(r, q)
        BY <1>4, <2>2, <3>1, <3>2, RowOf DEF filing
      <3>4. /\ q \in RequestRow /\ q.state = "on_its_way"
            /\ q.chosen = old.chosen
            /\ q.stuck_reason = old.stuck_reason
            /\ q.client_tag = old.client_tag
            /\ q.import_key = old.import_key /\ q.remove_tag = old.remove_tag
            /\ q.remove_since = old.remove_since /\ q.progress = verdict
            /\ q.cancel_at = old.cancel_at /\ q.prior_state = old.prior_state
            /\ q.book = old.book
            /\ q.reader = old.reader
        BY <3>3 DEF RequestRow
      <3> HIDE DEF q, old
      <3>5. Shape(r, q)
        BY <3>3, <3>4, NoneFacts DEF Shape, stage, unpicked
      <3>6. Linked(r, q)
        BY <3>3, <3>4 DEF Linked, for_good, may_undo
      <3>7. /\ KeyKept(old, q) /\ q \in RequestRow
            /\ q.state = "looking" => old.state = "looking"
            /\ \A t \in Tag : t \in {old.client_tag, old.remove_tag} =>
                 t \in {q.client_tag, q.remove_tag} \/ client[t] = "absent"
        BY <3>3, <3>4 DEF KeyKept, abandoned
      <3>8. \A o \in RequestId : o # id => request'[o] = request[o]
        BY <1>0, <3>1, <3>3 DEF TypeOK, update
      <3>9. PollerOK' /\ poller' \in PollerState
        BY <1>0, <1>1, <1>3, <3>8, NextKept
      <3> QED BY <1>1, <3>3, <3>5, <3>6, <3>7, <3>9, PollerWrites DEF old
    <2> QED BY <1>6, <2>1, <2>2 DEF record_progress, same_pick
  <1> QED BY <1>5, <1>6 DEF write_verdict

(* stop_downloading: what was on its way and not filed is stuck. *)
LEMMA StopDownloading ==
    ASSUME IInv, stop_downloading
    PROVE  IInv'
  <1>0. TypeOK /\ Rows /\ PollerOK
    BY DEF IInv
  <1>1. /\ poller.at \in {"stop", "stop_idle"} /\ poller.todo # {}
        /\ poller.at # "key"
        /\ UNCHANGED <<versions, search, outside, crashes, shelf>>
        /\ failing' \in {"recent", "overdue", None}
        /\ faults' \in 0 .. MaxFaults
        /\ next_row(poller.at) /\ mark_stuck("stopped_moving")
    BY <1>0 DEF stop_downloading, at_row, TypeOK, budgets
  <1>2. /\ at_hand \in poller.todo /\ id \in RequestId /\ at_hand.id = id
    BY <1>0, <1>1, AtHand
  <1>3. ClientQuiet /\ crashes' = crashes /\ UNCHANGED shelf
        /\ library' = library
    BY <1>1, Quiet
  <1>4. exists(id) => request[id].import_key = None
    BY <1>0, <1>1, <1>2 DEF PollerOK, Following, Gone, filing
  <1>5. \A o \in RequestId : o # id => request'[o] = request[o]
    BY <1>0, <1>1 DEF mark_stuck, update, TypeOK
  <1>6. PollerOK' /\ poller' \in PollerState
    <2>1. ASSUME NEW at \in {"stop", "stop_idle"}, at = poller.at
          PROVE  PollerOK' /\ poller' \in PollerState
      BY <1>0, <1>1, <1>3, <1>5, <2>1, NextKept
    <2> QED BY <1>1, <2>1
  <1> QED BY <1>1, <1>4, <1>6, MarksStuck

(* The rows of a phase are copies of rows of the table, one of each. *)
LEMMA RowsRead ==
    ASSUME TypeOK, NEW ids, \A r \in ids : r \in RequestId /\ exists(r)
    PROVE  /\ rows(ids) \in SUBSET Copy
           /\ \A e \in rows(ids) : e.id \in ids /\ e.row = request[e.id]
           /\ \A e, f \in rows(ids) : e.id = f.id => e = f
  <1>1. ASSUME NEW e \in rows(ids)
        PROVE  e \in Copy /\ e.id \in ids /\ e = [id |-> e.id, row |-> request[e.id]]
               /\ e.row = request[e.id]
    <2>1. PICK r \in ids : e = [id |-> r, row |-> request[r]]
      BY DEF rows
    <2>2. r \in RequestId /\ request[r] \in RequestRow
      BY RowThere
    <2> QED BY <2>1, <2>2 DEF Copy
  <1>2. ASSUME NEW e \in rows(ids), NEW f \in rows(ids), e.id = f.id
        PROVE  e = f
    BY <1>1, <1>2
  <1> QED BY <1>1, <1>2

(* A phase begins with rows that have what the phase relies on. *)
LEMMA PhaseBegins ==
    ASSUME IInv, UNCHANGED <<request, client, library, crashes, shelf>>,
           \/ goto("removals", rows(awaiting_removal))
           \/ goto("adds", rows(awaiting_add))
           \/ goto("downloads", rows(following))
           \/ goto("stop", rows(following))
           \/ goto("stop_idle", rows(following))
           \/ goto("imports", rows(awaiting_import)) /\ poller.at # "key"
    PROVE  PollerOK' /\ poller' \in PollerState
  <1>0. TypeOK /\ Rows /\ Copies
    BY DEF IInv
  <1>1. ASSUME NEW e \in rows(awaiting_removal), e.id \in awaiting_removal,
               e.row = request[e.id], e \in Copy
        PROVE  RemovalRead(e)'
    <2>1. /\ exists(e.id) /\ request[e.id].remove_tag # None
          /\ e.id \in RequestId
      BY <1>1 DEF awaiting_removal
    <2>2. Linked(e.id, request[e.id]) /\ Shape(e.id, request[e.id])
      BY <2>1, RowOf
    <2> QED BY <1>1, <2>1, <2>2 DEF RemovalRead, Linked, Shape, exists
  <1>2. ASSUME NEW e \in rows(following), e.id \in following,
               e.row = request[e.id], e \in Copy
        PROVE  Following(e)'
    <2>1. /\ exists(e.id) /\ request[e.id].client_tag # None
          /\ request[e.id].state = "on_its_way"
          /\ request[e.id].progress # "full"
          /\ e.id \in RequestId
      BY <1>2 DEF following, downloading
    <2>2. Shape(e.id, request[e.id]) /\ request[e.id] \in RequestRow
      BY <2>1, RowOf
    <2>3. request[e.id].import_key = None
      BY <2>1, <2>2 DEF Shape, stage
    <2> QED BY <1>2, <2>1, <2>3 DEF Following, tagged, filing, exists
  <1>3. ASSUME NEW e \in rows(awaiting_import), e.id \in awaiting_import,
               e.row = request[e.id], e \in Copy, poller.at # "key"
        PROVE  ImportRead(e)' /\ Unfiled(e)'
    <2> DEFINE q == request[e.id]
    <2>1. /\ exists(e.id) /\ q.client_tag # None
          /\ q.state = "on_its_way" /\ q.progress = "full"
          /\ e.id \in RequestId
      BY <1>3 DEF awaiting_import, finished
    <2>2. Shape(e.id, q) /\ q \in RequestRow
      BY <2>1, RowOf
    <2>3. /\ q.chosen # None /\ q.client_tag = <<e.id, q.chosen>>
          /\ q.client_tag \in Tag /\ q.client_tag[1] = e.id
          /\ q.import_key \in {None, q.client_tag}
      BY <2>1, <2>2, Columns DEF Shape
    <2>4. ImportRead(e)'
      BY <1>3, <2>1, <2>3 DEF ImportRead, ImportGoesOn, importing, exists
    <2>5. q.import_key = None => library[q.client_tag] <= crashes
      <3> SUFFICES ASSUME q.import_key = None,
                          ~(library[q.client_tag] <= crashes)
                   PROVE  FALSE
        OBVIOUS
      <3>1. Noted(q.client_tag)
        BY <1>0, <2>3 DEF Copies
      <3> QED BY <1>3, <2>1, <2>3, <3>1, NoneFacts DEF Noted, abandoned
    <2>6. Unfiled(e)'
      BY <1>3, <2>5 DEF Unfiled, exists
    <2> QED BY <2>4, <2>6
  <1>4. /\ \A r \in awaiting_removal : r \in RequestId /\ exists(r)
        /\ \A e, f \in rows(awaiting_removal) : e.id = f.id => e = f
    <2>1. \A r \in awaiting_removal : r \in RequestId /\ exists(r)
      BY DEF awaiting_removal
    <2>2. \A e, f \in rows(awaiting_removal) : e.id = f.id => e = f
      BY <1>0, <2>1, RowsRead
    <2> QED BY <2>1, <2>2
  <1>5. /\ \A r \in awaiting_add : r \in RequestId /\ exists(r)
        /\ \A e, f \in rows(awaiting_add) : e.id = f.id => e = f
    <2>1. \A r \in awaiting_add : r \in RequestId /\ exists(r)
      BY DEF awaiting_add
    <2>2. \A e, f \in rows(awaiting_add) : e.id = f.id => e = f
      BY <1>0, <2>1, RowsRead
    <2> QED BY <2>1, <2>2
  <1>6. /\ \A r \in following : r \in RequestId /\ exists(r)
        /\ \A e, f \in rows(following) : e.id = f.id => e = f
    <2>1. \A r \in following : r \in RequestId /\ exists(r)
      BY DEF following
    <2>2. \A e, f \in rows(following) : e.id = f.id => e = f
      BY <1>0, <2>1, RowsRead
    <2> QED BY <2>1, <2>2
  <1>7. /\ \A r \in awaiting_import : r \in RequestId /\ exists(r)
        /\ \A e, f \in rows(awaiting_import) : e.id = f.id => e = f
    <2>1. \A r \in awaiting_import : r \in RequestId /\ exists(r)
      BY DEF awaiting_import
    <2>2. \A e, f \in rows(awaiting_import) : e.id = f.id => e = f
      BY <1>0, <2>1, RowsRead
    <2> QED BY <2>1, <2>2
  <1>8. ASSUME NEW T \in SUBSET Copy, NEW at \in PollerSteps, goto(at, T)
        PROVE  poller' \in PollerState /\ poller'.at = at /\ poller'.todo = T
    BY <1>8, Goes
  <1>9. {"removals", "adds", "downloads", "stop", "stop_idle", "imports"}
           \subseteq PollerSteps
    BY DEF PollerSteps
  <1>10. CASE goto("removals", rows(awaiting_removal))
    <2>1. /\ poller' \in PollerState /\ poller'.at = "removals"
          /\ poller'.todo = rows(awaiting_removal)
      BY <1>0, <1>4, <1>8, <1>9, <1>10, RowsRead
    <2>2. \A e \in poller'.todo : RemovalRead(e)'
      BY <1>0, <1>1, <1>4, <2>1, RowsRead
    <2>3. \A e, f \in poller'.todo : e.id = f.id => e = f
      BY <1>4, <2>1
    <2> QED BY <2>1, <2>2, <2>3 DEF PollerOK
  <1>11. CASE goto("adds", rows(awaiting_add))
    <2>1. /\ poller' \in PollerState /\ poller'.at = "adds"
          /\ poller'.todo = rows(awaiting_add)
      BY <1>0, <1>5, <1>8, <1>9, <1>11, RowsRead
    <2>2. \A e, f \in poller'.todo : e.id = f.id => e = f
      BY <1>5, <2>1
    <2> QED BY <2>1, <2>2, AtRest
  <1>12. ASSUME NEW at \in {"downloads", "stop", "stop_idle"},
                goto(at, rows(following))
         PROVE  PollerOK' /\ poller' \in PollerState
    <2>1. /\ poller' \in PollerState /\ poller'.at = at
          /\ poller'.todo = rows(following)
      BY <1>0, <1>6, <1>8, <1>9, <1>12, RowsRead, ZenonT(60)
    <2>2. \A e \in poller'.todo : Following(e)'
      BY <1>0, <1>2, <1>6, <2>1, RowsRead
    <2>3. \A e, f \in poller'.todo : e.id = f.id => e = f
      BY <1>6, <2>1
    <2> QED BY <2>1, <2>2, <2>3 DEF PollerOK
  <1>13. CASE goto("imports", rows(awaiting_import)) /\ poller.at # "key"
    <2>1. /\ poller' \in PollerState /\ poller'.at = "imports"
          /\ poller'.todo = rows(awaiting_import)
      BY <1>0, <1>7, <1>8, <1>9, <1>13, RowsRead
    <2>2. \A e \in poller'.todo : ImportRead(e)' /\ Unfiled(e)'
      BY <1>0, <1>3, <1>7, <1>13, <2>1, RowsRead
    <2>3. \A e, f \in poller'.todo : e.id = f.id => e = f
      BY <1>7, <2>1
    <2> QED BY <2>1, <2>2, <2>3 DEF PollerOK
  <1> QED BY <1>10, <1>11, <1>12, <1>13

(* From one phase to the next, the failure clock, a tick without a client. *)
LEMMA Phases ==
    ASSUME IInv, next_phase \/ poll_once \/ poll_tick_unconfigured
    PROVE  IInv'
  <1>0. TypeOK /\ Rows /\ PollerOK
    BY DEF IInv
  <1>1. /\ UNCHANGED <<request, versions, search, outside, crashes, shelf>>
        /\ failing' \in {"recent", "overdue", None}
        /\ faults' \in 0 .. MaxFaults
    BY <1>0 DEF next_phase, poll_once, poll_tick_unconfigured, budgets, TypeOK
  <1>2. UNCHANGED <<request, client, library, crashes, shelf>>
    BY <1>1 DEF outside
  <1>3. ASSUME NEW at \in {"idle", "read_adds", "read_downloads",
                           "read_finished"},
               goto(at, {}), poller.at # "key"
        PROVE  IInv'
    <2>1. /\ poller' \in PollerState /\ poller'.at = at /\ poller'.todo = {}
      BY <1>3, Goes DEF PollerSteps
    <2>2. PollerOK'
      BY <2>1, AtRest
    <2> QED BY <1>1, <1>3, <2>1, <2>2, PollerReads
  <1>4. ASSUME poller.at # "key",
               \/ goto("removals", rows(awaiting_removal))
               \/ goto("adds", rows(awaiting_add))
               \/ goto("downloads", rows(following))
               \/ goto("stop", rows(following))
               \/ goto("stop_idle", rows(following))
               \/ goto("imports", rows(awaiting_import))
        PROVE  IInv'
    <2>1. PollerOK' /\ poller' \in PollerState
      BY <1>2, <1>4, PhaseBegins
    <2> QED BY <1>1, <1>4, <2>1, PollerReads
  <1>5. CASE next_phase
    BY <1>3, <1>4, <1>5 DEF next_phase, read, leave
  <1>6. CASE poll_once
    BY <1>3, <1>4, <1>6 DEF poll_once, leave
  <1>7. CASE poll_tick_unconfigured
    BY <1>3, <1>4, <1>7 DEF poll_tick_unconfigured, read
  <1> QED BY <1>5, <1>6, <1>7

(* claim_due_cancels: the download of a cancel whose grace ended goes on   *)
(* the removal list, which is free for it.                                 *)
LEMMA ClaimDueCancels ==
    ASSUME IInv, claim_due_cancels
    PROVE  IInv'
  <1> DEFINE claimed(r) ==
                [request[r] EXCEPT
                   !.remove_tag = IF request[r].client_tag = None THEN @
                                  ELSE request[r].client_tag,
                   !.remove_since = IF request[r].client_tag = None THEN @
                                    ELSE "recent",
                   !.client_tag = None, !.cancel_at = None]
  <1>0. TypeOK /\ Rows
    BY DEF IInv
  <1>1. /\ poller.at = "idle" /\ poller.at # "key"
        /\ goto("read_removals", {})
        /\ result' = result /\ next_result' = next_result
        /\ client' = client /\ library' = library /\ search' = search
        /\ failing' = failing /\ faults' = faults /\ crashes' = crashes
        /\ next_request' = next_request /\ deleted' = deleted
        /\ gone_readers' = gone_readers /\ orphaned' = orphaned
    BY DEF claim_due_cancels, versions, outside, budgets, shelf, accounts
  <1>2. request' = [r \in RequestId |->
                      IF exists(r) /\ claimable(request[r]) THEN claimed(r)
                      ELSE request[r]]
    BY DEF claim_due_cancels
  <1>3. ASSUME NEW o \in RequestId, exists(o), claimable(request[o])
        PROVE  LET old == request[o]
                   q == claimed(o)
               IN  /\ q \in RequestRow /\ q.state = "cancelled"
                   /\ old.state = "cancelled"
                   /\ q.chosen = old.chosen
                   /\ q.stuck_reason = old.stuck_reason
                   /\ q.client_tag = None
                   /\ q.import_key = old.import_key
                   /\ old.client_tag = None => q.remove_tag = old.remove_tag
                                    /\ q.remove_since = old.remove_since
                   /\ old.client_tag # None => q.remove_tag = old.client_tag
                                    /\ q.remove_since = "recent"
                                    /\ old.remove_tag = None
                   /\ q.progress = old.progress /\ q.cancel_at = None
                   /\ q.prior_state = old.prior_state /\ q.book = old.book
                   /\ q.reader = old.reader
    <2>1. PICK old \in RequestRow : old = request[o]
      BY <1>0, <1>3, RowThere
    <2>2. old.state = "cancelled"
          /\ (old.client_tag = None \/ old.remove_tag = None)
      BY <1>3, <2>1, RowOf, NoneFacts DEF claimable, Shape
    <2>3. CASE old.client_tag = None
      <3>1. claimed(o) = [old EXCEPT !.client_tag = None, !.cancel_at = None]
        BY <2>1, <2>3 DEF RequestRow
      <3> HIDE DEF claimed
      <3> QED BY <2>1, <2>2, <2>3, <3>1, ZenonT(60) DEF RequestRow
    <2>4. CASE old.client_tag # None
      <3>1. claimed(o) = [old EXCEPT !.remove_tag = old.client_tag,
                            !.remove_since = "recent",
                            !.client_tag = None, !.cancel_at = None]
        BY <2>1, <2>4
      <3> HIDE DEF claimed
      <3> QED BY <2>1, <2>2, <2>4, <3>1, ZenonT(60) DEF RequestRow
    <2> QED BY <2>3, <2>4
  <1> HIDE DEF claimed
  <1>4. ASSUME NEW o \in RequestId
        PROVE  /\ exists(o)' <=> exists(o)
               /\ exists(o) /\ claimable(request[o]) => request'[o] = claimed(o)
               /\ ~(exists(o) /\ claimable(request[o])) =>
                     request'[o] = request[o]
               /\ request'[o] \in RequestRow \cup {None}
    <2>1. CASE exists(o) /\ claimable(request[o])
      BY <1>2, <1>3, <2>1, NoneFacts DEF exists
    <2>2. CASE ~(exists(o) /\ claimable(request[o]))
      <3>1. request'[o] = request[o]
        BY <1>2, <2>2
      <3> QED BY <1>0, <2>2, <3>1, RowThere DEF exists
    <2> QED BY <2>1, <2>2
  <1>5. request' \in [RequestId -> RequestRow \cup {None}]
    <2>1. request' = [o \in RequestId |-> request'[o]]
      BY <1>2
    <2> QED BY <1>4, <2>1
  <1>6. /\ poller' \in PollerState /\ poller'.at = "read_removals"
        /\ poller'.todo = {}
    BY <1>1, Goes DEF PollerSteps
  <1>7. PollerOK'
    BY <1>6, AtRest
  <1>8. TypeOK'
    BY <1>0, <1>1, <1>5, <1>6 DEF TypeOK
  <1>9. ASSUME NEW o \in RequestId, exists(o), claimable(request[o])
        PROVE  /\ Shape(o, request'[o]) /\ Linked(o, request[o])'
               /\ TagsKept(request[o], request'[o])
               /\ KeyKept(request[o], request'[o])
               /\ request'[o].state = "cancelled"
    <2>1. PICK q \in RequestRow : q = claimed(o) /\ request'[o] = q
      BY <1>3, <1>4, <1>9
    <2>2. PICK old \in RequestRow :
             old = request[o] /\ Shape(o, old) /\ Linked(o, old)
      BY <1>9, RowOf
    <2>3. /\ q.state = "cancelled" /\ old.state = "cancelled"
          /\ q.chosen = old.chosen
          /\ q.stuck_reason = old.stuck_reason
          /\ q.client_tag = None
          /\ q.import_key = old.import_key
          /\ old.client_tag = None => q.remove_tag = old.remove_tag
                                   /\ q.remove_since = old.remove_since
          /\ old.client_tag # None => q.remove_tag = old.client_tag
                           /\ q.remove_since = "recent"
                           /\ old.remove_tag = None
          /\ q.progress = old.progress /\ q.cancel_at = None
          /\ q.prior_state = old.prior_state /\ q.book = old.book
          /\ q.reader = old.reader
      BY <1>3, <1>9, <2>1, <2>2, ZenonT(60)
    <2>4. old.client_tag # None =>
             /\ old.client_tag = <<o, old.chosen>>
             /\ old.chosen # None /\ old.chosen \in ResultId
             /\ old.chosen < next_result
      <3>1. old.client_tag # None =>
             /\ old.client_tag = <<o, old.chosen>> /\ old.chosen # None
        BY <2>2 DEF Shape
      <3>2. old.chosen # None => old.chosen \in ResultId
                                 /\ result[old.chosen] # None
        BY <2>2, Columns DEF Linked
      <3>3. \A v \in ResultId : result[v] # None => v < next_result
        BY <1>0 DEF Rows
      <3> QED BY <3>1, <3>2, <3>3
    <2>5. Shape(o, q)
      <3>1. CASE old.client_tag = None
        BY <2>2, <2>3, <3>1, NoneFacts DEF Shape, stage, unpicked
      <3>2. CASE old.client_tag # None
        BY <2>2, <2>3, <2>4, <3>2, NoneFacts DEF Shape, stage, unpicked
      <3> QED BY <3>1, <3>2
    <2>6. for_good(q)
      BY <2>3, NoneFacts DEF for_good, may_undo
    <2>7. Linked(o, q)
      <3>1. q.remove_tag # None => q.remove_tag[2] < next_result
        BY <2>2, <2>3, <2>4 DEF Linked
      <3> QED BY <2>2, <2>3, <2>6, <3>1, NoneFacts DEF Linked
    <2>8. Linked(o, q)'
      BY <1>1, <2>7 DEF Linked
    <2>9. TagsKept(old, q) /\ KeyKept(old, q)
      BY <2>3, NoneFacts DEF TagsKept, KeyKept, abandoned
    <2> QED BY <2>1, <2>2, <2>3, <2>5, <2>8, <2>9 DEF Linked
  <1>10. ASSUME NEW o \in RequestId, exists(o), ~claimable(request[o])
         PROVE  /\ request'[o] = request[o]
                /\ Shape(o, request'[o]) /\ Linked(o, request[o])'
                /\ TagsKept(request[o], request'[o])
                /\ KeyKept(request[o], request'[o])
    <2>1. PICK q \in RequestRow :
             q = request[o] /\ Shape(o, q) /\ Linked(o, q)
      BY <1>10, RowOf
    <2>2. request'[o] = q
      BY <1>4, <1>10, <2>1
    <2> QED BY <1>1, <2>1, <2>2 DEF Linked, TagsKept, KeyKept
  <1>11. Rows'
    <2>1. ASSUME NEW o \in RequestId, exists(o)'
          PROVE  (o < next_request /\ Shape(o, request[o])
                    /\ Linked(o, request[o]))'
      <3>1. exists(o) /\ o < next_request'
        BY <1>1, <1>4, <2>1, RowOf
      <3> QED BY <1>9, <1>10, <3>1 DEF Shape
    <2>2. \A v \in ResultId : result'[v] # None => v < next_result'
      BY <1>0, <1>1 DEF Rows
    <2> QED BY <2>1, <2>2 DEF Rows
  <1>12. ASSUME NEW o \in RequestId, exists(o)
         PROVE  /\ exists(o)' /\ TagsKept(request[o], request'[o])
                /\ KeyKept(request[o], request'[o])
    BY <1>4, <1>9, <1>10, <1>12
  <1>13. NoOrphanDownload'
    <2>1. \A t \in Tag : client'[t] # "absent" => client[t] # "absent"
      BY <1>1
    <2>2. NoOrphanDownload
      BY DEF IInv
    <2> QED BY <1>0, <1>1, <1>12, <2>1, <2>2, OrphanKept
  <1>14. LookingIsSearched'
    <2>1. ASSUME NEW o \in RequestId, exists(o)', request'[o].state = "looking"
          PROVE  exists(o) /\ request[o].state = "looking"
      <3>1. exists(o)
        BY <1>4, <2>1
      <3> QED BY <1>9, <1>10, <2>1, <3>1
    <2> QED BY <1>1, <2>1, LookingKept DEF IInv
  <1>15. Copies'
    <2>1. next_request' \in Nat /\ next_request <= next_request'
      BY <1>0, <1>1, BoundsAssumption DEF TypeOK
    <2>2. \A o \in RequestId : exists(o)' => exists(o)
      BY <1>4
    <2>3. Copies
      BY DEF IInv
    <2> QED BY <1>0, <1>1, <1>12, <2>1, <2>2, <2>3, CopiesKept
  <1> QED BY <1>7, <1>8, <1>11, <1>13, <1>14, <1>15 DEF IInv

-----------------------------------------------------------------------------
(* The import.                                                             *)

(* The rows left to import are of tags of their own. *)
LEMMA ImportTag ==
    ASSUME TypeOK, NEW e \in Copy, ImportRead(e)
    PROVE  /\ e.id \in RequestId /\ e.row \in RequestRow
           /\ e.row.client_tag \in Tag /\ e.row.client_tag[1] = e.id
  <1>1. e.id \in RequestId /\ e.row \in RequestRow
    BY DEF Copy
  <1>2. e.row.client_tag # None /\ e.row.client_tag = <<e.id, e.row.chosen>>
    BY DEF ImportRead
  <1>3. e.row.client_tag \in Tag
    BY <1>1, <1>2, Columns
  <1>4. e.row.client_tag[1] = e.id
    BY <1>2
  <1> QED BY <1>1, <1>3, <1>4

(* The poller stays at the row it imports. *)
LEMMA HoldsOn ==
    ASSUME TypeOK, PollerOK, poller.todo # {}, poller.at \in {"imports", "key"},
           NEW at \in {"key", "scan"}, goto(at, poller.todo),
           crashes' = crashes, UNCHANGED shelf,
           \A o \in RequestId : o # id => request'[o] = request[o],
           \A t \in Tag : t[1] # id => library'[t] = library[t],
           NEW e0 \in poller.todo, e0 = at_hand, ImportRead(e0)',
           at = "key" =>
               /\ request'[id] # None => request'[id].import_key = None
               /\ library'[row.client_tag] > 0,
           at = "scan" /\ request'[id] # None
               /\ request'[id].state = "on_its_way" =>
               request'[id].import_key # None
    PROVE  /\ PollerOK' /\ poller' \in PollerState /\ poller'.at = at
           /\ row' = row /\ id' = id
  <1>1. /\ poller.todo \in SUBSET Copy
        /\ \A e, f \in poller.todo : e.id = f.id => e = f
    BY DEF TypeOK, PollerState, PollerOK
  <1>2. poller' \in PollerState /\ poller'.at = at /\ poller'.todo = poller.todo
    BY <1>1, Goes DEF PollerSteps
  <1>3. at_hand' = at_hand /\ row' = row /\ id' = id
    BY <1>2 DEF row, id, at_hand
  <1>4. at_hand.id = id /\ at_hand.row = row /\ id \in RequestId
    BY AtHand
  <1>5. ASSUME NEW e \in poller.todo, e # at_hand
        PROVE  ImportRead(e)' /\ Unfiled(e)'
    <2>1. e \in Copy /\ e.id # id /\ ImportRead(e) /\ Unfiled(e)
      BY <1>1, <1>4, <1>5, AtHand DEF PollerOK
    <2>2. /\ e.id \in RequestId /\ e.row.client_tag \in Tag
          /\ e.row.client_tag[1] = e.id
      BY <2>1, ImportTag
    <2>3. /\ request'[e.id] = request[e.id]
          /\ library'[e.row.client_tag] = library[e.row.client_tag]
      BY <2>1, <2>2
    <2>4. ImportRead(e)'
      BY <2>1, <2>3 DEF ImportRead, ImportGoesOn, Gone, exists, importing,
                        abandoned, shelf, accounts
    <2>5. Unfiled(e)'
      BY <2>1, <2>3 DEF Unfiled, exists
    <2> QED BY <2>4, <2>5
  <1>6. ASSUME NEW e \in poller'.todo
        PROVE  ImportRead(e)' /\ (e # at_hand' => Unfiled(e)')
    BY <1>2, <1>3, <1>5
  <1>7. /\ \A e, f \in poller'.todo : e.id = f.id => e = f
        /\ poller'.todo # {}
    BY <1>1, <1>2
  <1>8. PollerOK'
    BY <1>2, <1>3, <1>6, <1>7 DEF PollerOK, exists
  <1> QED BY <1>2, <1>3, <1>8

(* The poller writes the row at hand, if it is still there, and the copies *)
(* of its downloads.                                                       *)
LEMMA ImportMoves ==
    ASSUME IInv, poller.at \in {"imports", "key"}, poller.todo # {},
           NEW r \in RequestId, r = id,
           request' \in [RequestId -> RequestRow \cup {None}],
           \A o \in RequestId : o # r => request'[o] = request[o],
           request'[r] # None <=> exists(r),
           exists(r) =>
               /\ Shape(r, request[r])' /\ Linked(r, request[r])'
               /\ TagsKept(request[r], request'[r])
               /\ request'[r].state = "looking" => request[r].state = "looking",
           library' \in [Tag -> Nat],
           \A t \in Tag : t[1] # r => library'[t] = library[t],
           \A t \in Tag : t[1] = r =>
               \/ library'[t] <= crashes
               \/ library'[t] = crashes + 1 /\ Noted(t)',
           UNCHANGED <<versions, search, client, failing, crashes, shelf>>,
           faults' \in 0 .. MaxFaults, poller' \in PollerState, PollerOK'
    PROVE  IInv'
  <1>1. TypeOK /\ Rows /\ PollerOK /\ Copies
        /\ NoOrphanDownload /\ LookingIsSearched
    BY DEF IInv
  <1>2. /\ result' = result /\ next_result' = next_result
        /\ client' = client /\ failing' = failing
        /\ search' = search /\ crashes' = crashes
        /\ next_request' = next_request /\ deleted' = deleted
        /\ gone_readers' = gone_readers /\ orphaned' = orphaned
    BY DEF versions, shelf, accounts
  <1>3. ASSUME NEW o \in RequestId, o # r PROVE request'[o] = request[o]
    BY <1>3
  <1>4. ASSUME NEW o \in RequestId PROVE exists(o)' <=> exists(o)
    BY <1>3 DEF exists
  <1>5. TypeOK'
    BY <1>1, <1>2 DEF TypeOK
  <1>6. Rows'
    <2>1. ASSUME NEW o \in RequestId, exists(o), o # r
          PROVE  Shape(o, request[o])' /\ Linked(o, request[o])'
      <3>1. PICK p \in RequestRow :
               p = request[o] /\ Shape(o, p) /\ Linked(o, p)
        BY <2>1, RowOf
      <3>2. request'[o] = p
        BY <1>3, <2>1, <3>1
      <3>3. p.import_key # None => /\ p.import_key \in Tag
                                   /\ p.import_key[1] = o
        BY <3>1, Columns DEF Shape
      <3>4. next_result \in Nat /\ next_result' \in Nat
            /\ next_result <= next_result'
        BY <1>1, <1>2, BoundsAssumption DEF TypeOK
      <3>5. p.import_key # None =>
               library'[p.import_key] = library[p.import_key]
        BY <2>1, <3>3
      <3>6. Linked(o, p)'
        BY <1>2, <3>1, <3>4, <3>5, LinkedKept
      <3> QED BY <3>1, <3>2, <3>6 DEF Linked, Shape
    <2>2. ASSUME NEW o \in RequestId, exists(o)'
          PROVE  (o < next_request /\ Shape(o, request[o])
                    /\ Linked(o, request[o]))'
      <3>1. exists(o) /\ o < next_request'
        BY <1>2, <1>4, <2>2, RowOf
      <3>2. CASE o = r
        BY <3>1, <3>2
      <3> QED BY <2>1, <3>1, <3>2
    <2>3. \A v \in ResultId : result'[v] # None => v < next_result'
      BY <1>1, <1>2 DEF Rows
    <2> QED BY <2>2, <2>3 DEF Rows
  <1>7. NoOrphanDownload'
    <2>1. ASSUME NEW o \in RequestId, exists(o)
          PROVE  exists(o)' /\ TagsKept(request[o], request'[o])
      BY <1>3, <1>4, <2>1 DEF TagsKept
    <2>2. \A t \in Tag : client'[t] # "absent" => client[t] # "absent"
      BY <1>2
    <2> QED BY <1>1, <1>2, <2>1, <2>2, OrphanKept
  <1>8. LookingIsSearched'
    <2>1. ASSUME NEW o \in RequestId, exists(o)', request'[o].state = "looking"
          PROVE  exists(o) /\ request[o].state = "looking"
      BY <1>3, <1>4, <2>1
    <2> QED BY <1>1, <1>2, <2>1, LookingKept
  <1>9. Copies'
    <2>1. ASSUME NEW t \in Tag, t[1] # r, ~(library[t] <= crashes)
          PROVE  library[t] = crashes + 1 /\ Noted(t)'
      <3>1. library[t] = crashes + 1 /\ Noted(t)
        BY <1>1, <2>1 DEF Copies
      <3>2. t[1] \in RequestId /\ request'[t[1]] = request[t[1]]
        BY <1>3, <2>1, Names
      <3>3. ~(poller.at = "key" /\ row.client_tag = t)
        <4>1. CASE poller.at = "key"
          <5>1. at_hand \in Copy /\ at_hand.id = id /\ at_hand.row = row
                /\ ImportRead(at_hand)
            BY <1>1, <4>1, AtHand DEF PollerOK
          <5>2. PICK e \in Copy : e = at_hand
            BY <5>1
          <5>3. e.row.client_tag[1] = e.id
            BY <1>1, <5>1, <5>2, ImportTag
          <5> QED BY <2>1, <5>1, <5>2, <5>3
        <4> QED BY <4>1
      <3> QED BY <1>2, <3>1, <3>2, <3>3 DEF Noted, exists
    <2> QED BY <1>2, <2>1 DEF Copies
  <1> QED BY <1>5, <1>6, <1>7, <1>8, <1>9 DEF IInv

(* The row at hand is there and is written. *)
LEMMA ImportWrites ==
    ASSUME IInv, poller.at \in {"imports", "key"}, poller.todo # {},
           NEW r \in RequestId, r = id, exists(r),
           NEW q \in RequestRow, update(r, q), Shape(r, q), Linked(r, q)',
           library' \in [Tag -> Nat],
           \A t \in Tag : t[1] # r => library'[t] = library[t],
           \A t \in Tag : t[1] = r =>
               \/ library'[t] <= crashes
               \/ library'[t] = crashes + 1 /\ Noted(t)',
           TagsKept(request[r], q),
           q.state = "looking" => request[r].state = "looking",
           UNCHANGED <<versions, search, client, failing, crashes, shelf>>,
           faults' \in 0 .. MaxFaults, poller' \in PollerState, PollerOK'
    PROVE  IInv'
  <1>1. /\ request' \in [RequestId -> RequestRow \cup {None}]
        /\ request'[r] = q
        /\ \A o \in RequestId : o # r => request'[o] = request[o]
    BY DEF IInv, TypeOK, update
  <1>2. request'[r] # None
    BY <1>1, NoneFacts
  <1>3. Shape(r, request[r])' /\ Linked(r, request[r])'
    BY <1>1 DEF Shape, Linked
  <1> QED BY <1>1, <1>2, <1>3, ImportMoves

(* The row at hand went with its account: no try follows this one. *)
LEMMA ImportOrphan ==
    ASSUME IInv, poller.at \in {"imports", "key"}, poller.todo # {},
           NEW r \in RequestId, r = id, ~exists(r), r < next_request,
           request' = request,
           library' \in [Tag -> Nat],
           \A t \in Tag : t[1] # r => library'[t] = library[t],
           \A t \in Tag : t[1] = r =>
               library'[t] <= crashes \/ library'[t] = crashes + 1,
           UNCHANGED <<versions, search, client, failing, crashes, shelf>>,
           faults' \in 0 .. MaxFaults, poller' \in PollerState, PollerOK'
    PROVE  IInv'
  <1>1. request' \in [RequestId -> RequestRow \cup {None}]
    BY DEF IInv, TypeOK
  <1>2. request'[r] = None /\ next_request' = next_request
    BY DEF exists, shelf
  <1>3. ASSUME NEW t \in Tag, t[1] = r PROVE Noted(t)'
    BY <1>2, <1>3 DEF Noted, exists
  <1> QED BY <1>1, <1>2, <1>3, ImportMoves DEF exists

(* What a row being imported is, when the poller is at it. *)
LEMMA AtImport ==
    ASSUME IInv, poller.at \in {"imports", "key", "scan"}, poller.todo # {}
    PROVE  /\ id \in RequestId /\ at_hand.id = id
           /\ at_hand.row = row /\ at_hand \in poller.todo
           /\ ImportRead(at_hand)
           /\ row.client_tag \in Tag /\ row.client_tag[1] = id
           /\ row.client_tag = <<id, row.chosen>> /\ row.chosen # None
           /\ exists(id) =>
                 /\ request[id].chosen = row.chosen
                 /\ \/ importing(request[id])
                    \/ /\ abandoned(request[id])
                       /\ request[id].book \in deleted
                 /\ request[id].state \in {"chosen", "on_its_way"} =>
                       request[id].client_tag # None
           /\ ~exists(id) => row.reader \in gone_readers /\ id < next_request
  <1>1. TypeOK /\ PollerOK
    BY DEF IInv
  <1>2. /\ at_hand \in poller.todo /\ at_hand \in Copy /\ at_hand.id = id
        /\ at_hand.row = row /\ id \in RequestId
    BY <1>1, AtHand
  <1>3. ImportRead(at_hand)
    BY <1>1, <1>2 DEF PollerOK
  <1>4. PICK e \in Copy : e = at_hand
    BY <1>2
  <1>5. row.client_tag \in Tag /\ row.client_tag[1] = id
    BY <1>1, <1>2, <1>3, <1>4, ImportTag
  <1>6. /\ row.client_tag = <<id, row.chosen>> /\ row.chosen # None
        /\ exists(id) => ImportGoesOn(request[id], row)
        /\ ~exists(id) => row.reader \in gone_readers /\ id < next_request
    BY <1>2, <1>3 DEF ImportRead, Gone
  <1>7. exists(id) =>
           /\ request[id].chosen = row.chosen
           /\ \/ importing(request[id])
              \/ abandoned(request[id]) /\ request[id].book \in deleted
    BY <1>6 DEF ImportGoesOn
  <1>8. exists(id) /\ request[id].state \in {"chosen", "on_its_way"} =>
           request[id].client_tag # None
    BY <1>2, <1>7, RowOf, NoneFacts DEF Shape, stage, importing, abandoned
  <1> QED BY <1>2, <1>3, <1>5, <1>6, <1>7, <1>8

(* import_one: a file noted before is taken up again; a new one is filed   *)
(* only where no earlier one of the same pick stands, restarts aside.      *)
LEMMA ImportOne ==
    ASSUME IInv, import_one
    PROVE  IInv'
  <1> DEFINE tag == row.client_tag
             filed == row.import_key # None /\ library[row.import_key] > 0
  <1>0. TypeOK /\ Rows /\ PollerOK /\ Copies
    BY DEF IInv
  <1>1. /\ poller.at = "imports" /\ poller.todo # {} /\ poller.at # "key"
        /\ UNCHANGED <<versions, search, client, failing, crashes, shelf>>
        /\ failing' \in {"recent", "overdue", None}
        /\ client' = client /\ crashes' = crashes
        /\ next_request' = next_request /\ deleted' = deleted
        /\ gone_readers' = gone_readers
    BY <1>0 DEF import_one, at_row, TypeOK, shelf, accounts
  <1>2. /\ id \in RequestId /\ at_hand.id = id
        /\ at_hand.row = row /\ at_hand \in poller.todo
        /\ ImportRead(at_hand)
        /\ row.client_tag \in Tag /\ row.client_tag[1] = id
        /\ exists(id) /\ request[id].state \in {"chosen", "on_its_way"} =>
              request[id].client_tag # None
        /\ ~exists(id) => id < next_request
    BY <1>1, AtImport
  <1>3. /\ exists(id) => request[id].import_key = row.import_key
        /\ row.import_key = None => library[row.client_tag] <= crashes
        /\ row.import_key \in {None, row.client_tag}
    BY <1>0, <1>1, <1>2 DEF PollerOK, Unfiled, ImportRead
  <1>4. ClientQuiet
    BY <1>1 DEF ClientQuiet
  <1>5. CASE filed /\ goto("scan", poller.todo)
             /\ UNCHANGED <<request, library, faults>>
    <2>1. /\ request' = request /\ library' = library /\ faults' = faults
          /\ request'[id] # None => request'[id].import_key # None
      BY <1>3, <1>5 DEF exists
    <2>2. PICK e0 \in poller.todo : e0 = at_hand
      BY <1>2
    <2>3. ImportRead(e0)'
      BY <1>1, <1>2, <2>1, <2>2 DEF ImportRead, ImportGoesOn, Gone, exists
    <2>4. PollerOK' /\ poller' \in PollerState
      BY <1>0, <1>1, <1>5, <2>1, <2>2, <2>3, HoldsOn
    <2>5. faults' \in 0 .. MaxFaults
      BY <1>0, <2>1 DEF TypeOK
    <2> QED BY <1>1, <2>1, <2>4, <2>5, PollerReads DEF outside
  <1>6. CASE /\ ~filed
             /\ library' = [library EXCEPT ![tag] = @ + 1]
             /\ goto("key", poller.todo)
             /\ UNCHANGED <<request, faults>>
    <2>1. PICK r \in RequestId : r = id
      BY <1>2
    <2>2. exists(r) => request[r].import_key = None
      <3>1. ASSUME exists(r), request[r].import_key # None
            PROVE  library[request[r].import_key] > 0
        BY <3>1, RowOf DEF Linked
      <3> QED BY <1>3, <1>6, <2>1, <3>1
    <2>4. PICK t0 \in Tag : t0 = tag
      BY <1>2
    <2>5. library[t0] \in Nat /\ library[t0] <= crashes /\ crashes \in Nat
      <3>1. library[t0] \in Nat /\ crashes \in Nat
        BY <1>0, BoundsAssumption DEF TypeOK
      <3>2. CASE row.import_key = None
        BY <1>3, <2>4, <3>1, <3>2
      <3>3. CASE row.import_key = tag
        <4>1. ~(library[t0] > 0)
          BY <1>2, <1>6, <2>4, <3>3, NoneFacts
        <4> QED BY <3>1, <4>1
      <3> QED BY <1>3, <3>2, <3>3
    <2>6. library \in [Tag -> Nat] /\ library' = [library EXCEPT ![t0] = @ + 1]
      BY <1>0, <1>6, <2>4 DEF TypeOK
    <2>7. /\ library' \in [Tag -> Nat] /\ library'[t0] = library[t0] + 1
          /\ \A t \in Tag : t # t0 => library'[t] = library[t]
      BY <2>5, <2>6
    <2>8. request' = request /\ faults' = faults /\ goto("key", poller.todo)
      BY <1>6
    <2> HIDE DEF tag, filed
    <2>9. \A t \in Tag : t[1] # r => library'[t] = library[t]
      BY <1>2, <2>1, <2>4, <2>7 DEF tag
    <2>10. PICK e0 \in poller.todo : e0 = at_hand
      BY <1>2
    <2>11. ImportRead(e0)'
      BY <1>1, <1>2, <2>8, <2>10 DEF ImportRead, ImportGoesOn, Gone, exists
    <2>12. request'[id] # None => request'[id].import_key = None
      BY <2>1, <2>2, <2>8 DEF exists
    <2>13. library'[row.client_tag] > 0
      BY <2>4, <2>5, <2>7 DEF tag
    <2>14. /\ PollerOK' /\ poller' \in PollerState /\ poller'.at = "key"
           /\ row' = row
      BY <1>0, <1>1, <2>1, <2>8, <2>9, <2>10, <2>11, <2>12, <2>13, HoldsOn
    <2>15. ASSUME NEW t \in Tag, t[1] = r
           PROVE  \/ library'[t] <= crashes
                  \/ library'[t] = crashes + 1 /\ Noted(t)'
      <3>1. CASE t = t0
        <4>1. Noted(t)'
          BY <2>4, <2>14, <3>1 DEF Noted, tag
        <4>2. library'[t] <= crashes \/ library'[t] = crashes + 1
          BY <2>5, <2>7, <3>1
        <4> QED BY <4>1, <4>2
      <3>2. CASE t # t0
        <4>1. library'[t] = library[t]
          BY <2>7, <3>2
        <4>2. library[t] <= crashes \/ (library[t] = crashes + 1 /\ Noted(t))
          BY <1>0 DEF Copies
        <4>3. Noted(t) => Noted(t)'
          BY <1>1, <1>2, <2>1, <2>8, <2>15 DEF Noted, exists
        <4> QED BY <4>1, <4>2, <4>3
      <3> QED BY <3>1, <3>2
    <2>16. exists(r) =>
              /\ Shape(r, request[r])' /\ Linked(r, request[r])'
              /\ TagsKept(request[r], request'[r])
              /\ request'[r].state = "looking" => request[r].state = "looking"
      <3>1. ASSUME exists(r)
            PROVE  Shape(r, request[r]) /\ Linked(r, request[r])
        BY <3>1, RowOf
      <3> QED BY <1>1, <2>2, <2>8, <3>1 DEF Shape, Linked, versions, TagsKept
    <2>17. request' \in [RequestId -> RequestRow \cup {None}]
           /\ (request'[r] # None <=> exists(r))
      BY <1>0, <2>8 DEF TypeOK, exists
    <2>18. faults' \in 0 .. MaxFaults
      BY <1>0, <2>8 DEF TypeOK
    <2> QED BY <1>1, <2>1, <2>7, <2>8, <2>9, <2>14, <2>15, <2>16, <2>17, <2>18,
               ImportMoves
  <1>7. ASSUME next_row("imports"), UNCHANGED library, refuses \/ UNCHANGED faults,
               mark_stuck("couldnt_add") \/ UNCHANGED request
        PROVE  IInv'
    <2>1. UNCHANGED outside
      BY <1>1, <1>7 DEF outside
    <2>2. \A o \in RequestId : o # id => request'[o] = request[o]
      BY <1>0, <1>7 DEF mark_stuck, update, TypeOK
    <2>3. PollerOK' /\ poller' \in PollerState
      BY <1>0, <1>1, <1>4, <1>7, <2>2, NextKept
    <2>4. faults' \in 0 .. MaxFaults
      BY <1>0, <1>7, FaultsCounted
    <2>5. UNCHANGED <<versions, search, outside, crashes, shelf>>
      BY <1>1, <2>1
    <2>6. CASE UNCHANGED request
      BY <1>1, <2>3, <2>4, <2>5, <2>6, PollerReads
    <2>7. CASE mark_stuck("couldnt_add")
      BY <1>1, <1>2, <2>3, <2>4, <2>5, <2>7, MarksStuck
    <2> QED BY <1>7, <2>6, <2>7
  <1> QED BY <1>5, <1>6, <1>7 DEF import_one

(* set_import_key: the file is noted, unless the book was deleted; or it   *)
(* is taken back.                                                          *)
LEMMA SetImportKey ==
    ASSUME IInv, set_import_key
    PROVE  IInv'
  <1> DEFINE tag == row.client_tag
  <1>0. TypeOK /\ Rows /\ PollerOK /\ Copies
    BY DEF IInv
  <1>1. /\ poller.at = "key" /\ poller.todo # {}
        /\ UNCHANGED <<versions, search, client, failing, crashes, shelf>>
        /\ client' = client /\ crashes' = crashes /\ deleted' = deleted
        /\ next_request' = next_request /\ gone_readers' = gone_readers
        /\ result' = result /\ next_result' = next_result
        /\ exists(id) => request[id].import_key = None
        /\ library[tag] > 0
    BY <1>0 DEF set_import_key, PollerOK, shelf, accounts, versions
  <1>2. /\ id \in RequestId /\ at_hand.id = id
        /\ at_hand.row = row /\ at_hand \in poller.todo
        /\ ImportRead(at_hand)
        /\ tag \in Tag /\ tag[1] = id
        /\ tag = <<id, row.chosen>> /\ row.chosen # None
        /\ ~exists(id) => id < next_request
    BY <1>1, AtImport
  <1>3. ClientQuiet
    BY <1>1 DEF ClientQuiet
  <1>4. PICK r \in RequestId : r = id
    BY <1>2
  <1>6. PICK t0 \in Tag : t0 = tag
    BY <1>2
  <1>7. PICK e0 \in poller.todo : e0 = at_hand
    BY <1>2
  <1>8. /\ library \in [Tag -> Nat] /\ crashes \in Nat
        /\ library[t0] \in Nat /\ library[t0] > 0 /\ library[t0] <= crashes + 1
    BY <1>0, <1>1, <1>6, BoundsAssumption DEF TypeOK, Copies
  <1>A. CASE ~exists(r)
    <2> HIDE DEF tag
    <2>1. /\ library' \in [Tag -> Nat]
          /\ \A t \in Tag : library'[t] <= library[t]
          /\ \A t \in Tag : t # t0 => library'[t] = library[t]
      <3>1. CASE UNCHANGED library
        BY <1>8, <3>1
      <3>2. CASE library' = [library EXCEPT ![t0] = @ - 1]
        BY <1>8, <3>2
      <3> QED BY <1>6, <3>1, <3>2 DEF set_import_key, tag
    <2>2. ASSUME NEW t \in Tag
          PROVE  library'[t] <= crashes \/ library'[t] = crashes + 1
      <3>1. library[t] <= crashes \/ library[t] = crashes + 1
        BY <1>0 DEF Copies
      <3>2. library[t] \in Nat /\ library'[t] \in Nat /\ library'[t] <= library[t]
        BY <1>8, <2>1
      <3> QED BY <1>8, <3>1, <3>2
    <2>3. request' = request
      BY <1>4, <1>A DEF set_import_key, same_pick, mark_stuck
    <2>4. \A t \in Tag : t[1] # id => library'[t] = library[t]
      BY <1>2, <1>6, <2>1
    <2>5. ImportRead(e0)'
      BY <1>1, <1>2, <1>7, <2>3 DEF ImportRead, ImportGoesOn, Gone, exists
    <2>6. request'[id] = None
      BY <1>4, <1>A, <2>3 DEF exists
    <2>7. ASSUME goto("scan", poller.todo)
          PROVE  PollerOK' /\ poller' \in PollerState
      BY <1>0, <1>1, <1>7, <2>3, <2>4, <2>5, <2>6, <2>7, HoldsOn
    <2>8. ASSUME next_row("imports")
          PROVE  PollerOK' /\ poller' \in PollerState
      BY <1>0, <1>1, <1>3, <2>3, <2>4, <2>8, NextKept
    <2>9. faults' \in 0 .. MaxFaults
      BY <1>0, FaultsCounted DEF set_import_key
    <2>10. PollerOK' /\ poller' \in PollerState
      BY <2>7, <2>8 DEF set_import_key
    <2> QED BY <1>1, <1>2, <1>4, <1>A, <2>1, <2>2, <2>3, <2>4, <2>9, <2>10,
               ImportOrphan
  <1> SUFFICES ASSUME exists(r) PROVE IInv'
    BY <1>A
  <1>B. /\ request[id].import_key = None
        /\ request[id].chosen = row.chosen
        /\ \/ request[id].state = "on_its_way" /\ request[id].progress = "full"
           \/ abandoned(request[id]) /\ request[id].state = "cancelled"
        /\ request[id].state \in {"chosen", "on_its_way"} =>
              request[id].client_tag # None
    BY <1>1, <1>4, AtImport DEF importing, abandoned
  <1>5. PICK old \in RequestRow :
           old = request[r] /\ Shape(r, old) /\ Linked(r, old)
    BY <1>4, RowOf
  <1>9. ASSUME NEW t \in Tag, t[1] = r, t # t0
        PROVE  \/ library[t] <= crashes
               \/ library[t] = crashes + 1 /\ abandoned(old)
    <2>1. library[t] <= crashes \/ (library[t] = crashes + 1 /\ Noted(t))
      BY <1>0 DEF Copies
    <2>2. Noted(t) => abandoned(old)
      BY <1>1, <1>2, <1>B, <1>4, <1>5, <1>6, <1>9, NoneFacts DEF Noted
    <2> QED BY <2>1, <2>2
  <1>10. update(r, old) <=> UNCHANGED request
    BY <1>0, <1>5 DEF update, TypeOK
  <1>11. ASSUME NEW q \in RequestRow, update(r, q)
         PROVE  /\ request'[r] = q
                /\ \A o \in RequestId : o # id => request'[o] = request[o]
    BY <1>0, <1>4, <1>11 DEF update, TypeOK
  <1>12. CASE /\ IF same_pick /\ request[id].state = "on_its_way"
                 THEN update(id, [request[id] EXCEPT !.import_key = tag])
                 ELSE UNCHANGED request
              /\ goto("scan", poller.todo)
              /\ UNCHANGED <<library, faults>>
    <2> DEFINE p == [old EXCEPT !.import_key = t0]
    <2>1. library' = library /\ faults' \in 0 .. MaxFaults
      BY <1>0, <1>12 DEF TypeOK
    <2>2. CASE old.state = "on_its_way"
      <3>1. /\ p \in RequestRow /\ p.state = old.state
            /\ p.chosen = old.chosen
            /\ p.stuck_reason = old.stuck_reason
            /\ p.client_tag = old.client_tag
            /\ p.import_key = t0 /\ p.remove_tag = old.remove_tag
            /\ p.remove_since = old.remove_since /\ p.progress = old.progress
            /\ p.cancel_at = old.cancel_at /\ p.prior_state = old.prior_state
            /\ p.book = old.book
            /\ p.reader = old.reader
        BY <1>5 DEF RequestRow
      <3>2. update(r, p)
        BY <1>2, <1>B, <1>4, <1>5, <1>6, <1>12, <2>2 DEF same_pick
      <3> HIDE DEF p, tag
      <3>3. PICK q \in RequestRow : q = p
        BY <3>1
      <3>4. request'[r] = q
            /\ \A o \in RequestId : o # id => request'[o] = request[o]
        BY <1>11, <3>2, <3>3
      <3>5. /\ q.import_key # None /\ q.import_key = <<r, q.chosen>>
            /\ q.progress = "full" /\ q.chosen # None /\ q.client_tag # None
            /\ q.state = "on_its_way"
        BY <1>2, <1>B, <1>4, <1>5, <1>6, <2>2, <3>1, <3>3, NoneFacts DEF tag, abandoned
      <3>6. Shape(r, q)
        BY <1>5, <2>2, <3>1, <3>3, <3>5, NoneFacts DEF Shape, stage, unpicked
      <3>7. old.book \notin deleted
        BY <1>5, <2>2 DEF Linked
      <3>8. Linked(r, q)
        BY <1>5, <1>8, <2>2, <3>1, <3>3, <3>7 DEF Linked, for_good
      <3>9. Linked(r, q)'
        BY <1>1, <2>1, <3>8 DEF Linked
      <3>10. ImportRead(e0)'
        <4>1. e0.id = r /\ ImportRead(e0)
          BY <1>2, <1>4, <1>7
        <4>2. exists(e0.id)'
          BY <3>4, <4>1, NoneFacts DEF exists
        <4>3. /\ request'[r] = q /\ q.reader = old.reader /\ importing(q)
              /\ q.chosen = old.chosen /\ old.chosen = e0.row.chosen
          BY <1>2, <1>B, <1>4, <1>5, <1>7, <3>1, <3>3, <3>4, <3>5 DEF importing
        <4>4. e0.row.reader = old.reader
          BY <1>4, <1>5, <4>1 DEF ImportRead, Gone, ImportGoesOn
        <4>5. ImportGoesOn(request[e0.id], e0.row)'
          BY <4>1, <4>3, <4>4 DEF ImportGoesOn, importing
        <4> QED BY <4>1, <4>2, <4>5 DEF ImportRead
      <3>11. request'[id] # None => request'[id].import_key # None
        BY <1>4, <3>4, <3>5
      <3>12. /\ PollerOK' /\ poller' \in PollerState
        BY <1>0, <1>1, <1>7, <1>12, <2>1, <3>4, <3>10, <3>11, HoldsOn
      <3>13. ASSUME NEW t \in Tag, t[1] = r
             PROVE  \/ library'[t] <= crashes
                    \/ library'[t] = crashes + 1 /\ Noted(t)'
        <4>1. CASE t = t0
          <5>1. exists(r)' /\ request'[r].import_key = t
            BY <3>1, <3>3, <3>4, <4>1, NoneFacts DEF exists
          <5>2. Noted(t)'
            BY <3>13, <5>1 DEF Noted
          <5> QED BY <1>8, <2>1, <4>1, <5>2
        <4>2. CASE t # t0
          BY <1>9, <2>1, <2>2, <3>13, <4>2 DEF abandoned
        <4> QED BY <4>1, <4>2
      <3>14. TagsKept(request[r], q)
             /\ (q.state = "looking" => request[r].state = "looking")
        BY <1>5, <3>1, <3>3 DEF TagsKept
      <3> QED BY <1>1, <1>2, <1>4, <1>8, <2>1, <3>2, <3>3, <3>6, <3>9, <3>12,
                 <3>13, <3>14, ImportWrites
    <2>3. CASE old.state # "on_its_way"
      <3>1. request' = request
        BY <1>4, <1>5, <1>12, <2>3
      <3>2. ImportRead(e0)'
        BY <1>1, <1>2, <1>7, <3>1 DEF ImportRead, ImportGoesOn, Gone, exists
      <3>3. PollerOK' /\ poller' \in PollerState
        BY <1>0, <1>1, <1>4, <1>5, <1>7, <1>12, <2>1, <2>3, <3>1, <3>2, HoldsOn
      <3>4. ASSUME NEW t \in Tag, t[1] = r
             PROVE  \/ library'[t] <= crashes
                    \/ library'[t] = crashes + 1 /\ Noted(t)'
        <4>1. exists(r)' /\ abandoned(request'[r])
          BY <1>2, <1>B, <1>4, <1>5, <2>3, <3>1 DEF exists
        <4>2. Noted(t)'
          BY <3>4, <4>1 DEF Noted, abandoned
        <4>3. library[t] <= crashes \/ library[t] = crashes + 1
          BY <1>0 DEF Copies
        <4> QED BY <2>1, <4>2, <4>3
      <3>5. Linked(r, old)'
        BY <1>1, <1>5, <2>1 DEF Linked
      <3>6. TagsKept(request[r], old)
             /\ (old.state = "looking" => request[r].state = "looking")
        BY <1>5 DEF TagsKept
      <3> QED BY <1>1, <1>2, <1>4, <1>5, <1>8, <1>10, <2>1, <3>1, <3>3, <3>4,
                 <3>5, <3>6, ImportWrites
    <2> QED BY <2>2, <2>3
  <1>13. CASE /\ refuses
              /\ library' = [library EXCEPT ![tag] = @ - 1]
              /\ mark_stuck("couldnt_add")
              /\ next_row("imports")
    <2>1. /\ library' \in [Tag -> Nat]
          /\ library'[t0] <= crashes
          /\ \A t \in Tag : t # t0 => library'[t] = library[t]
      <3>1. library' = [library EXCEPT ![t0] = @ - 1]
        BY <1>6, <1>13
      <3>2. library[t0] - 1 \in Nat /\ library[t0] - 1 <= crashes
        BY <1>8
      <3> QED BY <1>8, <3>1, <3>2
    <2>2. faults' \in 0 .. MaxFaults
      BY <1>0, <1>13, FaultsCounted
    <2>3. ASSUME NEW t \in Tag, t[1] = r, abandoned(old) => abandoned(request'[r]),
                 exists(r)'
          PROVE  \/ library'[t] <= crashes
                 \/ library'[t] = crashes + 1 /\ Noted(t)'
      <3>1. CASE t = t0
        BY <2>1, <3>1
      <3>2. CASE t # t0
        <4>1. abandoned(old) => Noted(t)'
          BY <2>3 DEF Noted, abandoned
        <4> QED BY <1>9, <2>1, <2>3, <3>2, <4>1
      <3> QED BY <3>1, <3>2
    <2>4. \A t \in Tag : t[1] # id => library'[t] = library[t]
      BY <1>2, <1>6, <2>1
    <2> HIDE DEF tag
    <2>5. ASSUME \A o \in RequestId : o # id => request'[o] = request[o]
          PROVE  PollerOK' /\ poller' \in PollerState
      BY <1>0, <1>1, <1>3, <1>13, <2>4, <2>5, NextKept
    <2>6. ASSUME NEW q \in RequestRow, update(r, q), Shape(r, q), Linked(r, q)',
                 TagsKept(old, q), q.state = "looking" => old.state = "looking",
                 abandoned(old) => abandoned(q)
          PROVE  IInv'
      <3>1. /\ request'[r] = q
            /\ \A o \in RequestId : o # id => request'[o] = request[o]
        BY <1>11, <2>6
      <3>2. exists(r)' /\ (abandoned(old) => abandoned(request'[r]))
        BY <2>6, <3>1, NoneFacts DEF exists
      <3>3. PollerOK' /\ poller' \in PollerState
        BY <2>5, <3>1
      <3>4. ASSUME NEW t \in Tag, t[1] = r
            PROVE  \/ library'[t] <= crashes
                   \/ library'[t] = crashes + 1 /\ Noted(t)'
        BY <2>3, <3>2, <3>4
      <3>5. \A t \in Tag : t[1] # r => library'[t] = library[t]
        BY <1>4, <2>4
      <3> QED BY <1>1, <1>2, <1>4, <1>5, <2>1, <2>2, <2>6, <3>3, <3>4, <3>5,
                 ImportWrites
    <2>7. CASE old.state = "on_its_way"
      <3> DEFINE p == [old EXCEPT !.state = "stuck",
                                  !.stuck_reason = "couldnt_add"]
      <3>1. update(r, p)
        BY <1>2, <1>B, <1>4, <1>5, <1>13, <2>7 DEF mark_stuck, same_pick
      <3>2. /\ p \in RequestRow /\ p.state = "stuck"
            /\ p.stuck_reason = "couldnt_add" /\ p.progress = old.progress
            /\ p.cancel_at = old.cancel_at /\ p.prior_state = old.prior_state
            /\ p.chosen = old.chosen /\ p.client_tag = old.client_tag
            /\ p.import_key = old.import_key
            /\ p.remove_tag = old.remove_tag
            /\ p.remove_since = old.remove_since /\ p.book = old.book
            /\ p.reader = old.reader
        BY DEF RequestRow, State, StuckReason
      <3> HIDE DEF p
      <3>3. PICK q \in RequestRow : q = p
        BY <3>2
      <3>4. old.book \notin deleted /\ old.import_key = None
        BY <1>B, <1>4, <1>5, <2>7 DEF Linked
      <3>5. Linked(r, q)
        BY <1>5, <2>7, <3>2, <3>3, <3>4 DEF Linked, for_good
      <3>6. q.import_key = None
        BY <3>2, <3>3, <3>4
      <3>7. Linked(r, q)'
        BY <1>1, <3>5, <3>6 DEF Linked
      <3>8. old.client_tag # None
        BY <1>B, <1>4, <1>5, <2>7
      <3>9. Shape(r, q)
        BY <1>5, <2>7, <3>2, <3>3, <3>8, NoneFacts DEF Shape, stage, unpicked
      <3>10. TagsKept(old, q)
        BY <3>2, <3>3 DEF TagsKept
      <3> QED BY <2>6, <2>7, <3>1, <3>2, <3>3, <3>7, <3>9, <3>10 DEF abandoned
    <2>8. CASE old.state # "on_its_way"
      <3>1. old.state = "cancelled" /\ request' = request
        BY <1>B, <1>4, <1>5, <1>13, <2>8 DEF mark_stuck
      <3>2. Linked(r, old)'
        BY <1>1, <1>B, <1>4, <1>5 DEF Linked
      <3> QED BY <1>5, <1>10, <2>6, <3>1, <3>2 DEF TagsKept
    <2> QED BY <2>7, <2>8
  <1> QED BY <1>12, <1>13 DEF set_import_key

(* scan_and_merge: the request is ready, or its import failed.             *)
LEMMA ScanAndMerge ==
    ASSUME IInv, scan_and_merge
    PROVE  IInv'
  <1>0. TypeOK /\ Rows /\ PollerOK
    BY DEF IInv
  <1>1. /\ poller.at = "scan" /\ poller.todo # {} /\ poller.at # "key"
        /\ UNCHANGED <<versions, search, outside, crashes, shelf>>
        /\ failing' \in {"recent", "overdue", None}
        /\ next_row("imports")
        /\ UNCHANGED faults \/ refuses
        /\ mark_ready \/ mark_stuck("couldnt_add")
    BY <1>0 DEF scan_and_merge, PollerOK, TypeOK
  <1>2. /\ id \in RequestId
        /\ exists(id) /\ request[id].state \in {"chosen", "on_its_way"} =>
              request[id].client_tag # None
        /\ exists(id) /\ request[id].state = "on_its_way" =>
              request[id].import_key # None
    BY <1>0, <1>1, AtImport DEF PollerOK
  <1>3. ClientQuiet /\ crashes' = crashes /\ UNCHANGED shelf
        /\ library' = library
    BY <1>1, Quiet
  <1>4. \A o \in RequestId : o # id => request'[o] = request[o]
    BY <1>0, <1>1 DEF mark_ready, mark_stuck, update, TypeOK
  <1>5. PollerOK' /\ poller' \in PollerState
    BY <1>0, <1>1, <1>3, <1>4, NextKept
  <1>6. faults' \in 0 .. MaxFaults
    BY <1>0, <1>1, FaultsCounted
  <1>7. CASE mark_stuck("couldnt_add")
    BY <1>1, <1>2, <1>5, <1>6, <1>7, MarksStuck
  <1>8. CASE mark_ready /\ ~(request[id].state = "on_its_way" /\ same_pick)
    <2>1. UNCHANGED request
      BY <1>8 DEF mark_ready
    <2> QED BY <1>1, <1>5, <1>6, <2>1, PollerReads
  <1>9. CASE mark_ready /\ request[id].state = "on_its_way" /\ same_pick
    <2>1. PICK r \in RequestId : r = id
      BY <1>2
    <2> DEFINE old == request[r]
               q == [old EXCEPT !.state = "ready"]
    <2>2. /\ exists(r) /\ old \in RequestRow /\ Shape(r, old) /\ Linked(r, old)
          /\ old.state = "on_its_way" /\ old.client_tag # None
          /\ old.import_key # None
          /\ update(r, q)
      BY <1>2, <1>9, <2>1, RowOf DEF mark_ready, same_pick
    <2>3. /\ q \in RequestRow /\ q.state = "ready"
          /\ q.chosen = old.chosen
          /\ q.stuck_reason = old.stuck_reason
          /\ q.client_tag = old.client_tag
          /\ q.import_key = old.import_key /\ q.remove_tag = old.remove_tag
          /\ q.remove_since = old.remove_since /\ q.progress = old.progress
          /\ q.cancel_at = old.cancel_at /\ q.prior_state = old.prior_state
          /\ q.book = old.book
          /\ q.reader = old.reader
      BY <2>2 DEF RequestRow, State
    <2> HIDE DEF q, old
    <2>4. Shape(r, q)
      BY <2>2, <2>3, NoneFacts DEF Shape, stage, unpicked
    <2>5. old.book \notin deleted
      BY <2>2 DEF Linked
    <2>6. Linked(r, q)
      BY <2>2, <2>3, <2>5 DEF Linked, for_good
    <2>7. /\ KeyKept(old, q) /\ q \in RequestRow
          /\ q.state = "looking" => old.state = "looking"
          /\ \A t \in Tag : t \in {old.client_tag, old.remove_tag} =>
               t \in {q.client_tag, q.remove_tag} \/ client[t] = "absent"
      BY <2>2, <2>3 DEF KeyKept, abandoned
    <2> QED BY <1>1, <1>5, <1>6, <2>2, <2>4, <2>6, <2>7, PollerWrites DEF old
  <1> QED BY <1>1, <1>7, <1>8, <1>9

-----------------------------------------------------------------------------
(* The invariant.                                                          *)

(* Nothing is requested, held or read at the beginning. *)
LEMMA Initial == Init => IInv
  <1> SUFFICES ASSUME Init PROVE IInv
    OBVIOUS
  <1>1. /\ next_request = 1 /\ deleted = {} /\ next_result = 1
        /\ request = [r \in RequestId |-> None]
        /\ result = [v \in ResultId |-> None]
        /\ search = [k \in Slot |-> None]
        /\ client = [t \in Tag |-> "absent"]
        /\ library = [t \in Tag |-> 0]
        /\ failing = None /\ faults = 0 /\ crashes = 0
        /\ gone_readers = {} /\ orphaned = {}
    BY DEF Init
  <1>2. /\ \A r \in RequestId : ~exists(r)
        /\ \A v \in ResultId : result[v] = None
        /\ \A t \in Tag : client[t] = "absent" /\ library[t] = 0
    BY <1>1 DEF exists
  <1>3. poller = [at |-> "idle", todo |-> {}, verdict |-> None]
    BY DEF Init, Poller
  <1>4. poller \in PollerState /\ poller.at = "idle" /\ poller.todo = {}
    BY <1>3 DEF PollerState, PollerSteps
  <1>5. TypeOK
    <2>1. "absent" \in DOMAIN ClientNext
      BY DEF ClientNext
    <2> QED BY <1>1, <1>4, <2>1, BoundsAssumption DEF TypeOK
  <1>6. Rows /\ NoOrphanDownload /\ LookingIsSearched
    BY <1>2 DEF Rows, NoOrphanDownload, LookingIsSearched
  <1>7. PollerOK
    BY <1>4 DEF PollerOK
  <1>8. Copies
    BY <1>1, <1>2 DEF Copies
  <1> QED BY <1>5, <1>6, <1>7, <1>8 DEF IInv

(* A stutter changes nothing. *)
LEMMA Stutter ==
    ASSUME IInv, UNCHANGED vars
    PROVE  IInv'
  <1>1. /\ result' = result /\ next_result' = next_result
        /\ client' = client /\ library' = library /\ request' = request
        /\ search' = search /\ crashes' = crashes /\ faults' = faults
        /\ next_request' = next_request /\ deleted' = deleted
        /\ gone_readers' = gone_readers /\ orphaned' = orphaned
        /\ poller' = poller /\ failing' = failing
    BY DEF vars, versions, outside, budgets, shelf, accounts
  <1>2. TypeOK' /\ Rows'
    BY <1>1 DEF IInv, TypeOK, Rows, Shape, Linked, exists
  <1>3. NoOrphanDownload' /\ LookingIsSearched'
    BY <1>1 DEF IInv, NoOrphanDownload, LookingIsSearched, exists
  <1>4. PollerOK'
    <2>1. ASSUME NEW o \in RequestId, exists(o)
          PROVE  exists(o)' /\ ReadKept(request[o], request'[o], deleted')
                 /\ request'[o].book = request[o].book
      BY <1>1, <2>1 DEF exists, ReadKept
    <2>2. Onward
      BY <1>1, BoundsAssumption DEF IInv, Onward, TypeOK, exists
    <2> QED BY <1>1, <2>1, <2>2, PollerKept DEF IInv, ClientQuiet
  <1>5. Copies'
    <2>1. next_request' \in Nat /\ next_request <= next_request'
      BY <1>1, BoundsAssumption DEF IInv, TypeOK
    <2>2. ASSUME NEW o \in RequestId
          PROVE  /\ exists(o)' <=> exists(o)
                 /\ KeyKept(request[o], request'[o])
      BY <1>1 DEF KeyKept, exists
    <2> QED BY <1>1, <2>1, <2>2, CopiesKept DEF IInv
  <1> QED BY <1>2, <1>3, <1>4, <1>5 DEF IInv

(* Every step keeps the invariant. *)
LEMMA Steps == IInv /\ [Next]_vars => IInv'
  <1> SUFFICES ASSUME IInv, [Next]_vars PROVE IInv'
    OBVIOUS
  <1>1. CASE claim_due_cancels
    BY <1>1, ClaimDueCancels
  <1>2. CASE poll_tick_unconfigured \/ poll_once \/ next_phase
    BY <1>2, Phases
  <1>3. CASE remove_pending
    BY <1>3, RemovePending
  <1>4. CASE remove_call
    BY <1>4, RemoveCall
  <1>5. CASE begin_download
    BY <1>5, BeginDownload
  <1>6. CASE hand_over
    BY <1>6, HandOver
  <1>7. CASE mark_on_its_way
    BY <1>7, OnItsWay
  <1>8. CASE add_refused
    BY <1>8, AddRefused
  <1>9. CASE follow_downloads
    BY <1>9, FollowDownloads
  <1>10. CASE write_verdict
    BY <1>10, WriteVerdict
  <1>11. CASE stop_downloading
    BY <1>11, StopDownloading
  <1>12. CASE import_one
    BY <1>12, ImportOne
  <1>13. CASE set_import_key
    BY <1>13, SetImportKey
  <1>14. CASE scan_and_merge
    BY <1>14, ScanAndMerge
  <1>15. CASE PollerStep
    BY <1>1, <1>2, <1>3, <1>4, <1>5, <1>6, <1>7, <1>8, <1>9, <1>10, <1>11,
       <1>12, <1>13, <1>14, <1>15 DEF PollerStep
  <1>16. CASE \E u \in Readers, b \in Books : start(u, b)
    BY <1>16, Start
  <1>17. CASE \E r \in RequestId : cancel(r) \/ undo_cancel(r)
    BY <1>17, Cancel, UndoCancel
  <1>18. CASE \E r \in RequestId : swap(r) \/ restart(r)
    BY <1>18, SwapOrRestart
  <1>19. CASE \E r \in RequestId, v \in ResultId : choose(r, v)
    BY <1>19, Choose
  <1>20. CASE ReaderStep
    BY <1>16, <1>17, <1>18, <1>19, <1>20 DEF ReaderStep
  <1>21. CASE \E k \in Slot : SearchStep(k)
    BY <1>21, SearchStops, FinishSearch DEF SearchStep
  <1>22. CASE \E b \in Books : drop_requests(b)
    BY <1>22, DropRequests
  <1>23. CASE (\E t \in Tag : client_moves(t)) \/ outage_ages
    BY <1>23, ClientOrClock
  <1>24. CASE \E r \in RequestId : grace_ends(r) \/ removal_ages(r)
    BY <1>24, GraceEnds, RemovalAges
  <1>25. CASE crash
    BY <1>25, Crash
  <1>26. CASE \E u \in Readers : delete_user(u)
    BY <1>26, DeleteUser
  <1>27. CASE UNCHANGED vars
    BY <1>27, Stutter
  <1> QED BY <1>15, <1>20, <1>21, <1>22, <1>23, <1>24, <1>25, <1>26, <1>27
          DEF Next

(* The invariant holds in every state reached. *)
THEOREM Invariance == Spec => []IInv
  BY Initial, Steps, PTL DEF Spec

(* The tables, the client, the library and the poller keep their types,    *)
(* and the columns of a request only hold what the code writes in them.    *)
THEOREM TypeCorrectness == Spec => []TypeOK
  <1>1. IInv => TypeOK
    BY DEF IInv
  <1> QED BY <1>1, Invariance, PTL

(* No download is forgotten in the client but those of deleted accounts,   *)
(* whatever order the readers, the poller, the deletion of books and of    *)
(* accounts and restarts take: the jobs named by no request are those      *)
(* whose row went with its reader's account (auth/users.rs).               *)
THEOREM NoneForgotten == Spec => []NoOrphanDownload
  <1>1. IInv => NoOrphanDownload
    BY DEF IInv
  <1> QED BY <1>1, Invariance, PTL

(* Short of a restart, a request that is looking is being looked for.      *)
THEOREM SomebodyLooks == Spec => []LookingIsSearched
  <1>1. IInv => LookingIsSearched
    BY DEF IInv
  <1> QED BY <1>1, Invariance, PTL

(* A download on the removal list, or about to be removed with its files   *)
(* on the strength of a row read earlier, is nobody's current download.    *)
THEOREM PickStays == Spec => []RemovalSparesPick
  <1>1. ASSUME IInv PROVE RemovalSparesPick
    <2>1. ASSUME NEW r \in RequestId, exists(r), request[r].client_tag # None,
                 poller.at = "remove"
          PROVE  row.remove_tag # request[r].client_tag
      <3>1. TypeOK /\ PollerOK /\ poller.todo # {}
        BY <1>1, <2>1 DEF IInv, PollerOK
      <3>2. /\ at_hand \in poller.todo /\ id \in RequestId
            /\ at_hand.id = id /\ at_hand.row = row
        BY <3>1, AtHand
      <3>3. RemovalRead(at_hand)
        BY <2>1, <3>1, <3>2 DEF PollerOK
      <3>4. CASE exists(id)
        <4>1. request[id].remove_tag = row.remove_tag
          BY <3>2, <3>3, <3>4 DEF RemovalRead, Gone
        <4> QED BY <1>1, <2>1, <3>2, <3>4, <4>1, PickIsNotRemoved
      <3>5. CASE ~exists(id)
        <4>1. row.remove_tag[1] = id
          BY <3>2, <3>3 DEF RemovalRead
        <4>2. request[r].client_tag = <<r, request[r].chosen>>
          BY <1>1, <2>1, RowOf DEF Shape
        <4>3. request[r].client_tag[1] = r
          BY <4>2
        <4> QED BY <2>1, <3>5, <4>1, <4>3 DEF exists
      <3> QED BY <3>4, <3>5
    <2> QED BY <1>1, <2>1, PickIsNotRemoved DEF RemovalSparesPick
  <1> QED BY <1>1, Invariance, PTL

(* A file noted as the import of a request was filed from its current pick *)
(* and a request is ready only with that file in the library.              *)
THEOREM PickIsImported == Spec => []ImportedThePick
  <1>1. ASSUME IInv PROVE ImportedThePick
    <2>1. ASSUME NEW r \in RequestId, exists(r)
          PROVE  LET q == request[r]
                 IN  /\ q.import_key # None => q.import_key = <<r, q.chosen>>
                     /\ q.state = "ready" =>
                           q.import_key # None /\ library[q.import_key] > 0
      BY <1>1, <2>1, RowOf DEF Shape, Linked
    <2> QED BY <2>1 DEF ImportedThePick
  <1> QED BY <1>1, Invariance, PTL

(* While the poller imports a download, nothing but the deletion of its    *)
(* book or of its reader's account moves the request, and no pick is filed *)
(* more often than once and once more per restart.                         *)
THEOREM FiledOnce == Spec => []OneCopy
  <1>1. ASSUME IInv PROVE OneCopy
    <2>1. TypeOK /\ PollerOK /\ Copies
      BY <1>1 DEF IInv
    <2>2. ASSUME poller.at \in {"key", "scan"}
          PROVE  IF exists(id)
                 THEN /\ request[id].chosen = row.chosen
                      /\ \/ request[id].state = "on_its_way"
                         \/ request[id].book \in deleted
                 ELSE row.reader \in gone_readers
      <3>1. poller.todo # {}
        BY <2>1, <2>2 DEF PollerOK
      <3> QED BY <1>1, <2>2, <3>1, AtImport DEF importing
    <2>3. \A t \in Tag : library[t] <= 1 + crashes
      <3>1. ASSUME NEW t \in Tag PROVE library[t] <= 1 + crashes
        <4>1. library[t] \in Nat /\ crashes \in Nat
          BY <2>1, BoundsAssumption DEF TypeOK
        <4>2. library[t] <= crashes \/ library[t] = crashes + 1
          BY <2>1 DEF Copies
        <4> QED BY <4>1, <4>2
      <3> QED BY <3>1
    <2> QED BY <2>2, <2>3 DEF OneCopy
  <1> QED BY <1>1, Invariance, PTL

-----------------------------------------------------------------------------
(* Cancels.                                                                *)

(* What a step may do with a cancelled row: leave it cancelled, or undo    *)
(* the cancel while its grace lasts, the download untouched.               *)
CancelKept(r) ==
    \/ request'[r].state = "cancelled"
    \/ /\ request[r].cancel_at # None
       /\ request'[r].client_tag = request[r].client_tag
       /\ request'[r].remove_tag = request[r].remove_tag

(* A step that writes one row, cancelled before, leaves it cancelled; or   *)
(* that row is not cancelled.                                              *)
LEMMA OneWrite ==
    ASSUME TypeOK, NEW r \in RequestId, request[r].state = "cancelled",
           exists(r),
           NEW o, NEW new, update(o, new),
           o = r => new.state = "cancelled"
    PROVE  CancelKept(r)
  BY DEF CancelKept, update, TypeOK

(* A claim leaves every request in its state. *)
LEMMA ClaimKeepsState ==
    ASSUME IInv, claim_due_cancels
    PROVE  \A o \in RequestId : exists(o) =>
               request'[o].state = request[o].state
  <1> DEFINE claimed(r) ==
                [request[r] EXCEPT
                   !.remove_tag = IF request[r].client_tag = None THEN @
                                  ELSE request[r].client_tag,
                   !.remove_since = IF request[r].client_tag = None THEN @
                                    ELSE "recent",
                   !.client_tag = None, !.cancel_at = None]
  <1>1. request' = [r \in RequestId |->
                      IF exists(r) /\ claimable(request[r]) THEN claimed(r)
                      ELSE request[r]]
    BY DEF claim_due_cancels
  <1>2. ASSUME NEW o \in RequestId, exists(o)
        PROVE  claimed(o).state = request[o].state
    BY <1>2, RowOf DEF RequestRow
  <1> HIDE DEF claimed
  <1> QED BY <1>1, <1>2

(* The deletion of a book cancels its requests, or forgets them. *)
LEMMA DropLeavesCancelled ==
    ASSUME IInv, NEW book \in Books, drop_requests(book)
    PROVE  \A o \in RequestId : exists(o) =>
               \/ request'[o] = None \/ request'[o] = request[o]
               \/ request'[o].state = "cancelled"
  <1> DEFINE of_book == {r \in RequestId : exists(r) /\ request[r].book = book}
             kept == {r \in of_book : \/ request[r].client_tag # None
                                      \/ request[r].remove_tag # None}
             struck(r) == [request[r] EXCEPT !.state = "cancelled",
                                             !.prior_state = None,
                                             !.cancel_at = "due"]
  <1>1. request' = [r \in RequestId |->
              IF r \in kept THEN struck(r)
              ELSE IF r \in of_book THEN None ELSE request[r]]
    BY DEF drop_requests
  <1>2. ASSUME NEW o \in RequestId, exists(o)
        PROVE  struck(o).state = "cancelled"
    BY <1>2, RowOf DEF RequestRow
  <1> HIDE DEF of_book, kept, struck
  <1> QED BY <1>1, <1>2

(* The poller never takes a cancel back. *)
LEMMA PollerKeepsCancel ==
    ASSUME IInv, PollerStep, NEW r \in RequestId, exists(r), exists(r)',
           request[r].state = "cancelled"
    PROVE  CancelKept(r)
  <1>0. TypeOK /\ request[r] \in RequestRow
    BY RowOf DEF IInv
  <1>1. CASE UNCHANGED request
    BY <1>1 DEF CancelKept
  <1>2. ASSUME NEW reason, mark_stuck(reason)
        PROVE  CancelKept(r)
    BY <1>0, <1>1, <1>2, OneWrite DEF mark_stuck
  <1>3. CASE claim_due_cancels
    BY <1>3, ClaimKeepsState DEF CancelKept
  <1>4. CASE remove_pending
    <2>1. CASE update(id, [request[id] EXCEPT !.remove_since = None])
      <3>1. request'[r].state = request[r].state
        BY <1>0, <2>1 DEF update, TypeOK, RequestRow
      <3> QED BY <3>1 DEF CancelKept
    <2>2. CASE update(id, [request[id] EXCEPT !.remove_tag = None,
                                              !.remove_since = None])
      <3>1. request'[r].state = request[r].state
        BY <1>0, <2>2 DEF update, TypeOK, RequestRow
      <3> QED BY <3>1 DEF CancelKept
    <2> QED BY <1>1, <1>4, <2>1, <2>2 DEF remove_pending
  <1>5. CASE begin_download
    <2>1. request'[r].state = request[r].state
      BY <1>0, <1>5 DEF begin_download, update, TypeOK, RequestRow
    <2> QED BY <2>1 DEF CancelKept
  <1>6. CASE mark_on_its_way
    BY <1>0, <1>1, <1>6, OneWrite DEF mark_on_its_way
  <1>7. CASE add_refused \/ stop_downloading
    BY <1>2, <1>7 DEF add_refused, stop_downloading
  <1>8. CASE write_verdict
    <2>1. CASE record_progress
      BY <1>0, <1>1, <2>1, OneWrite DEF record_progress
    <2> QED BY <1>2, <1>8, <2>1 DEF write_verdict
  <1>9. CASE import_one
    BY <1>1, <1>2, <1>9 DEF import_one
  <1>10. CASE set_import_key
    <2>1. CASE IF same_pick /\ request[id].state = "on_its_way"
               THEN update(id, [request[id] EXCEPT !.import_key = row.client_tag])
               ELSE UNCHANGED request
      BY <1>0, <1>1, <2>1, OneWrite
    <2> QED BY <1>2, <1>10, <2>1 DEF set_import_key
  <1>11. CASE scan_and_merge
    <2>1. CASE mark_ready
      BY <1>0, <1>1, <2>1, OneWrite DEF mark_ready
    <2> QED BY <1>2, <1>11, <2>1 DEF scan_and_merge
  <1>12. CASE poll_tick_unconfigured \/ poll_once \/ next_phase \/ remove_call
              \/ hand_over \/ follow_downloads
    <2>1. UNCHANGED request
      <3>1. CASE poll_tick_unconfigured
        BY <3>1 DEF poll_tick_unconfigured
      <3>2. CASE poll_once
        BY <3>2 DEF poll_once
      <3>3. CASE next_phase
        BY <3>3 DEF next_phase
      <3>4. CASE remove_call
        BY <3>4 DEF remove_call
      <3>5. CASE hand_over
        BY <3>5 DEF hand_over
      <3>6. CASE follow_downloads
        <4>1. UNCHANGED <<request, versions, search, outside, failing, crashes,
                          shelf>>
          BY <3>6 DEF follow_downloads
        <4> QED BY <4>1
      <3> QED BY <1>12, <3>1, <3>2, <3>3, <3>4, <3>5, <3>6
    <2> QED BY <1>1, <2>1
  <1> QED BY <1>3, <1>4, <1>5, <1>6, <1>7, <1>8, <1>9, <1>10, <1>11, <1>12
          DEF PollerStep

(* A reader takes a cancel back only by undoing it in time. *)
LEMMA ReaderKeepsCancel ==
    ASSUME IInv, ReaderStep, NEW r \in RequestId, exists(r), exists(r)',
           request[r].state = "cancelled"
    PROVE  CancelKept(r)
  <1>0. TypeOK /\ request[r] \in RequestRow /\ r < next_request
    BY RowOf DEF IInv
  <1>1. CASE \E u \in Readers, b \in Books : start(u, b)
    <2>1. r # next_request /\ next_request \in RequestId
      BY <1>0, <1>1, Names DEF start
    <2>2. request'[r] = request[r]
      BY <1>0, <1>1, <2>1 DEF start, update, TypeOK
    <2> QED BY <2>2 DEF CancelKept
  <1>2. ASSUME NEW o \in RequestId, undo_cancel(o)
        PROVE  CancelKept(r)
    <2>1. CASE o = r
      <3>1. /\ request'[r].client_tag = request[r].client_tag
            /\ request'[r].remove_tag = request[r].remove_tag
        BY <1>0, <1>2, <2>1 DEF undo_cancel, update, TypeOK, RequestRow
      <3>2. request[r].cancel_at # None
        BY <1>2, <2>1, NoneFacts DEF undo_cancel, may_undo
      <3> QED BY <3>1, <3>2 DEF CancelKept
    <2>2. CASE o # r
      BY <1>0, <1>2, <2>2, OneWrite DEF undo_cancel
    <2> QED BY <2>1, <2>2
  <1>3. ASSUME NEW o \in RequestId, cancel(o)
        PROVE  CancelKept(r)
    BY <1>0, <1>3, OneWrite DEF cancel, may_cancel, downloading
  <1>4. ASSUME NEW o \in RequestId, swap_in(o)
        PROVE  CancelKept(r)
    BY <1>0, <1>4, OneWrite DEF swap_in, may_swap, downloading
  <1>5. ASSUME NEW o \in RequestId, restart(o)
        PROVE  CancelKept(r)
    BY <1>0, <1>4, <1>5, OneWrite DEF restart
  <1>6. ASSUME NEW o \in RequestId, NEW v \in ResultId, choose(o, v)
        PROVE  CancelKept(r)
    BY <1>0, <1>6, OneWrite DEF choose
  <1> QED BY <1>1, <1>2, <1>3, <1>4, <1>5, <1>6 DEF ReaderStep, swap

(* Once its grace is claimed a cancel stands for ever, and a cancel that   *)
(* was undone kept its download: the undo racing the end of the grace wins *)
(* or loses, never both.                                                   *)
THEOREM CancelStands == Spec => CancelStandsOrNot
  <1> DEFINE Kept == \A r \in RequestId :
          exists(r) /\ exists(r)' /\ request[r].state = "cancelled" =>
          /\ request[r].cancel_at = None => request'[r].state = "cancelled"
          /\ request'[r].state # "cancelled" =>
                /\ request'[r].client_tag = request[r].client_tag
                /\ request'[r].remove_tag = request[r].remove_tag
  <1>1. ASSUME IInv, Next PROVE Kept
    <2>1. ASSUME NEW r \in RequestId, exists(r), exists(r)',
                 request[r].state = "cancelled"
          PROVE  CancelKept(r)
      <3>0. TypeOK /\ request[r] \in RequestRow
        BY <1>1, <2>1, RowOf DEF IInv
      <3>1. CASE \E k \in Slot : SearchStep(k)
        <4>1. PICK k \in Slot : SearchStep(k)
          BY <3>1
        <4>2. CASE run_search_stops(k)
          BY <2>1, <4>2 DEF run_search_stops, CancelKept
        <4>3. CASE finish_search(k)
          <5>1. search[k] # r => request'[r] = request[r]
            <6>1. PICK q : update(search[k], q)
              BY <4>3 DEF finish_search
            <6> QED BY <3>0, <6>1 DEF update, TypeOK
          <5>2. request[search[k]].state = "looking"
            BY <4>3 DEF finish_search, looking
          <5> QED BY <2>1, <5>1, <5>2 DEF CancelKept
        <4> QED BY <4>1, <4>2, <4>3 DEF SearchStep
      <3>2. CASE \E b \in Books : drop_requests(b)
        <4>1. request'[r] = request[r] \/ request'[r].state = "cancelled"
              \/ request'[r] = None
          BY <1>1, <2>1, <3>2, DropLeavesCancelled
        <4> QED BY <2>1, <4>1 DEF CancelKept, exists
      <3>5. CASE \E u \in Readers : delete_user(u)
        <4>1. request'[r] = request[r] \/ request'[r] = None
          BY <3>5 DEF delete_user
        <4> QED BY <2>1, <4>1 DEF CancelKept, exists
      <3>3. CASE (\E t \in Tag : client_moves(t)) \/ outage_ages \/ crash
        BY <2>1, <3>3 DEF client_moves, outage_ages, crash, CancelKept
      <3>4. CASE \E o \in RequestId : grace_ends(o) \/ removal_ages(o)
        <4>1. request'[r].state = request[r].state
          <5>1. ASSUME NEW o \in RequestId, grace_ends(o)
                PROVE  request'[r].state = request[r].state
            BY <3>0, <5>1 DEF grace_ends, update, TypeOK, RequestRow
          <5>2. ASSUME NEW o \in RequestId, removal_ages(o)
                PROVE  request'[r].state = request[r].state
            BY <3>0, <5>2 DEF removal_ages, update, TypeOK, RequestRow
          <5> QED BY <3>4, <5>1, <5>2
        <4> QED BY <2>1, <4>1 DEF CancelKept
      <3> QED BY <1>1, <2>1, <3>1, <3>2, <3>3, <3>4, <3>5, PollerKeepsCancel,
                 ReaderKeepsCancel DEF Next
    <2> QED BY <2>1 DEF CancelKept
  <1>2. IInv /\ [Next]_vars => [Kept]_vars
    BY <1>1
  <1> QED BY <1>2, Invariance, PTL DEF Spec, CancelStandsOrNot
=============================================================================
