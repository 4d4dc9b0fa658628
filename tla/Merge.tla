-------------------------------- MODULE Merge --------------------------------
(***************************************************************************)
(* Merging a book into another and undoing it (db/src/merge): merge_books  *)
(* moves everything the source has to the target, settles what both have,  *)
(* writes down in merge_log what it did, and deletes the source;           *)
(* undo_merge recreates the source and takes back what the merge moved,    *)
(* through later merges into the same book, undone in any order, and what  *)
(* the reader has written on the survivor meanwhile.                       *)
(*                                                                         *)
(* One reader and one format of positions. A write is named by its number, *)
(* which is also its date. Each transaction is one step.                   *)
(***************************************************************************)
EXTENDS Integers, FiniteSets, FiniteSetsExt, SequencesExt

CONSTANTS
    Books,        \* durable uuids; each has one file of its own on disk
    FormatOf,     \* the format of that file
    Catalogues,   \* what the scan found: the authors of each book, in order
    Latest,       \* curated tables of one value: read status
    Folded,       \* curated tables settled field by field: reviews
    MaxWrites,    \* bound: writes of the reader
    MaxMerges,    \* bound: merges
    None

Curated == Latest \cup Folded

ASSUME MergeConstants ==
    /\ IsFiniteSet(Books) /\ DOMAIN FormatOf = Books
    /\ MaxWrites \in Nat /\ MaxMerges \in Nat
    /\ Latest \cap Folded = {}

VARIABLES
    live,       \* the books that have a row
    holder,     \* book_files: the book each file belongs to
    guard,      \* merged_uuids: the book that took over a uuid, if any
    authors,    \* the author links of each book, in order
    sort,       \* its author_sort
    progress,   \* its reading_progress row
    opinion,    \* its row of each curated table
    ground,     \* its reading_progress_slots bucket
    event,      \* annotations: the book each row is on
    log,        \* merge_log: the merges not undone
    next_row,   \* the AUTOINCREMENT of reading_progress
    merges,     \* merges so far, the ids of merge_log
    writes,     \* writes so far
    home,       \* history: the book each annotation was made on
    noted,      \* history: what the reader said in reviews and neither
                \* replaced nor let go with a merge that was merged on
    gained,     \* history: the ground the reader has covered in all
    before,     \* history: the contents when the first open merge began
    mixed       \* history: the reader has written since

tables == <<live, holder, authors, sort, progress, opinion, ground, event>>
history == <<home, noted, gained, before, mixed>>
vars == <<tables, guard, log, next_row, merges, writes, history>>

Write == 1 .. MaxWrites
Author == UNION {UNION {Range(c[b]) : b \in Books} : c \in Catalogues}
Names == {names \in Seq(Author) : IsInjective(names)}
Position == [id : 1 .. MaxWrites + MaxMerges, at : Write]
(* A review has stars, a text, which carries its spoiler flag, and private *)
(* notes; a table of one value has one field. A remark is one field of one *)
(* write, and `at` the updated_at of the row.                              *)
Field == {"stars", "text", "notes"}
fields(t) == IF t \in Folded THEN Field ELSE {t}
Remark == (Latest \cup Field) \X Write
Says == [says : SUBSET Remark, at : Write]
Guard == [book : Books, has_key : BOOLEAN]
Maybe(set) == set \cup {None}
Opinions == [Curated -> Maybe(Says)]

(* A row of merge_log.                                                     *)
Snapshot ==
    [id : 1 .. MaxMerges, source : Books, target : Books,
     files : SUBSET Books, guards : SUBSET Books,
     authors : Names, added : Names,
     source_sort : Author \cup Books, target_sort : Author \cup Books,
     moved : Maybe(Position), deleted : SUBSET [row : Position, book : Books],
     source_said : Opinions, target_said : Opinions, merged_said : Opinions,
     moved_ground : 0 .. MaxWrites, folded_ground : 0 .. MaxWrites,
     events : SUBSET Write, writes : 0 .. MaxWrites]

(* The author links have the book and the author as their key.             *)
ASSUME CataloguesAssumption == Catalogues \subseteq [Books -> Names]

ASSUME NoneAssumption ==
    None \notin Books \cup Nat /\ None \notin Position \cup Says \cup Guard

TypeOK ==
    /\ live \subseteq Books
    /\ holder \in [Books -> live]
    /\ guard \in [Books -> Maybe(Guard)]
    /\ authors \in [Books -> Names]
    /\ DOMAIN sort = Books /\ \A b \in Books : sort[b] \in Author \cup {b}
    /\ progress \in [Books -> Maybe(Position)]
    /\ opinion \in [Curated -> [Books -> Maybe(Says)]]
    /\ ground \in [Books -> 0 .. MaxWrites]
    /\ event \in [Write -> Maybe(live)]
    /\ \A b \in Books \ live :
          /\ progress[b] = None /\ ground[b] = 0 /\ authors[b] = <<>>
          /\ \A t \in Curated : opinion[t][b] = None
    /\ log \subseteq Snapshot
    /\ \A l \in log : l.target \in live /\ l.source \notin live
    /\ \A l, m \in log : l.id = m.id => l = m
    /\ next_row \in 1 .. MaxWrites + MaxMerges + 1
    /\ merges \in 0 .. MaxMerges /\ writes \in 0 .. MaxWrites

(* The key of a book's first author; a book without one keeps the key the  *)
(* scan stored, here the book itself.                                      *)
sort_of(names, stored) == IF names = <<>> THEN stored ELSE Head(names)

(* The names, in their order, but for those to drop.                       *)
without(names, drop) ==
    LET rest[i \in 0 .. Len(names)] ==
            IF i = 0 THEN <<>>
            ELSE IF names[i] \in drop THEN rest[i - 1]
            ELSE Append(rest[i - 1], names[i])
    IN rest[Len(names)]

Init ==
    /\ live = Books
    /\ holder = [b \in Books |-> b]
    /\ guard = [b \in Books |-> None]
    /\ authors \in Catalogues
    /\ sort = [b \in Books |-> sort_of(authors[b], b)]
    /\ progress = [b \in Books |-> None]
    /\ opinion = [t \in Curated |-> [b \in Books |-> None]]
    /\ ground = [b \in Books |-> 0]
    /\ event = [w \in Write |-> None]
    /\ log = {}
    /\ next_row = 1 /\ merges = 0 /\ writes = 0
    /\ home = [w \in Write |-> None]
    /\ noted = [t \in Folded |-> {}] /\ gained = 0
    /\ before = None /\ mixed = FALSE

-----------------------------------------------------------------------------
(* What the reader writes, on any book that is there.                      *)

now == writes + 1

written ==
    /\ now \in Write
    /\ writes' = now
    /\ mixed' = (log # {})
    /\ before' = IF log = {} THEN None ELSE before
    /\ UNCHANGED <<live, holder, guard, authors, sort, log, merges>>

upsert_progress(b) ==
    /\ written
    /\ LET fresh == progress[b] = None IN
       /\ progress' = [progress EXCEPT ![b] =
              [id |-> IF fresh THEN next_row ELSE progress[b].id, at |-> now]]
       /\ next_row' = IF fresh THEN next_row + 1 ELSE next_row
    /\ UNCHANGED <<opinion, ground, event, home, noted, gained>>

(* What a row of a curated table says, if there is one.                    *)
Said(row) == IF row = None THEN {} ELSE row.says

(* The new value of one field replaces the old ones. An edit of the notes  *)
(* alone does not date the row.                                            *)
set_opinion(t, field, b) ==
    /\ written
    /\ LET old == opinion[t][b]
           replaced == {r \in Said(old) : r[1] = field}
           dated == field # "notes" \/ old = None
       IN /\ opinion' = [opinion EXCEPT ![t][b] =
                 [says |-> (Said(old) \ replaced) \cup {<<field, now>>},
                  at |-> IF dated THEN now ELSE old.at]]
          /\ noted' = IF t \notin Folded THEN noted
                      ELSE [noted EXCEPT ![t] =
                               (@ \ replaced) \cup {<<field, now>>}]
    /\ UNCHANGED <<progress, ground, event, next_row, home, gained>>

add_ground(b) ==
    /\ written
    /\ ground' = [ground EXCEPT ![b] = @ + 1]
    /\ gained' = gained + 1
    /\ UNCHANGED <<progress, opinion, event, next_row, home, noted>>

create_annotation(b) ==
    /\ written
    /\ event' = [event EXCEPT ![now] = b]
    /\ home' = [home EXCEPT ![now] = b]
    /\ UNCHANGED <<progress, opinion, ground, next_row, noted, gained>>

-----------------------------------------------------------------------------
(* merge_books: s into t.                                                  *)

contents ==
    [live |-> live, holder |-> holder, authors |-> authors, sort |-> sort,
     progress |-> progress, opinion |-> opinion, ground |-> ground,
     event |-> event]

held_files(s) == {f \in Books : holder[f] = s}
guards_of(s) == {g \in Books : guard[g] # None /\ guard[g].book = s}

(* A file of a format that some attached file of the book has does not     *)
(* count as the book's own, and no guard is written for it.                *)
native_files(s) ==
    {f \in held_files(s) : \A g \in guards_of(s) : FormatOf[g] # FormatOf[f]}

rewire_merged_uuid_refs(s, t) ==
    guard' = [g \in Books |->
        IF g = s /\ native_files(s) # {} THEN [book |-> t, has_key |-> TRUE]
        ELSE IF g \in guards_of(s) THEN [guard[g] EXCEPT !.book = t]
        ELSE guard[g]]

(* The source's authors go after the target's; what was added is recorded. *)
added_links(s, t) == without(authors[s], Range(authors[t]))

target_wins(source, target) == target.at >= source.at

(* dedupe_collisions under Keep::Max: of two rows the newer stays.         *)
kept(source, target) ==
    IF source = None \/ (target # None /\ target_wins(source, target))
    THEN target ELSE source

(* The rows the dedupe deleted, each with the book it was on.              *)
deleted_rows(s, t) ==
    IF progress[s] = None \/ progress[t] = None THEN {}
    ELSE IF target_wins(progress[s], progress[t])
         THEN {[row |-> progress[s], book |-> s]}
         ELSE {[row |-> progress[t], book |-> t]}

(* Whether a row has a field other readers see, and the notes they do not. *)
is_public(row) == \E r \in row.says : r[1] # "notes"

(* The remarks of two reviews that their merged review has: the notes of   *)
(* both, the later stars, and the text of the newer review, or of the      *)
(* other one if that alone has a text.                                     *)
settled_says(source, target) ==
    LET both == source.says \cup target.says
        newer == IF source.at > target.at THEN source ELSE target
    IN {r \in both :
           \/ r[1] = "notes"
           \/ r[1] = "stars" /\ \A q \in both : q[1] = "stars" => q[2] <= r[2]
           \/ /\ r[1] = "text"
              /\ r \in newer.says \/ \A q \in newer.says : q[1] # "text"}

(* A side with notes alone dates a review only if the other is one too.    *)
settled_at(source, target) ==
    LET seen == {row \in {source, target} : is_public(row)}
    IN Max({row.at : row \in IF seen = {} THEN {source, target} ELSE seen})

(* settle_reviews folds the two reviews; the dedupe picks a status.        *)
settle(t, source, target) ==
    IF source = None THEN target
    ELSE IF target = None THEN source
    ELSE IF t \in Folded
         THEN [says |-> settled_says(source, target),
               at |-> settled_at(source, target)]
         ELSE kept(source, target)

build_snapshot(s, t) ==
    [id |-> merges + 1, source |-> s, target |-> t,
     files |-> held_files(s), guards |-> guards_of(s),
     authors |-> authors[s], added |-> added_links(s, t),
     source_sort |-> sort[s], target_sort |-> sort[t],
     moved |-> IF kept(progress[s], progress[t]) = progress[s]
               THEN progress[s] ELSE None,
     deleted |-> deleted_rows(s, t),
     source_said |-> [c \in Curated |-> opinion[c][s]],
     target_said |-> [c \in Curated |-> opinion[c][t]],
     merged_said |-> [c \in Curated |->
                         settle(c, opinion[c][s], opinion[c][t])],
     moved_ground |-> IF ground[t] = 0 THEN ground[s] ELSE 0,
     folded_ground |-> IF ground[t] = 0 THEN 0 ELSE ground[s],
     events |-> {e \in Write : event[e] = s},
     writes |-> writes]

(* Mutant: the log does not cascade with the book it merged into.          *)
cascaded_never(s) == log

(* The delete of the source takes the log of merges into it along.         *)
cascaded(s) == {l \in log : l.target # s}

(* The remarks in the reviews, and in the copies of the two reviews that   *)
(* the undo of a merge puts back.                                          *)
reviewed(t) == UNION {Said(opinion[t][b]) : b \in Books}
saved(rows, t) ==
    UNION {Said(l.source_said[t]) \cup Said(l.target_said[t]) :
              l \in {m \in rows : m.source_said[t] # None}}

(* The stars and texts that only the log had which cascades with s.        *)
released(s, t) ==
    {r \in saved(log \ cascaded(s), t) \ reviewed(t) : r[1] # "notes"}

merge_books(s, t) ==
    /\ {s, t} \subseteq live /\ s # t /\ merges < MaxMerges
    /\ merges' = merges + 1
    /\ live' = live \ {s}
    /\ holder' = [f \in Books |-> IF holder[f] = s THEN t ELSE holder[f]]
    /\ rewire_merged_uuid_refs(s, t)
    /\ authors' = [authors EXCEPT ![t] = @ \o added_links(s, t), ![s] = <<>>]
    /\ sort' = [sort EXCEPT ![t] = IF authors[t] = <<>>
                                   THEN sort_of(authors'[t], @) ELSE @]
    /\ progress' = [progress EXCEPT ![t] = kept(progress[s], progress[t]),
                                    ![s] = None]
    /\ opinion' = [c \in Curated |->
          [opinion[c] EXCEPT ![t] = settle(c, opinion[c][s], opinion[c][t]),
                             ![s] = None]]
    /\ ground' = [ground EXCEPT ![t] = @ + ground[s], ![s] = 0]
    /\ event' = [e \in Write |-> IF event[e] = s THEN t ELSE event[e]]
    /\ log' = cascaded(s) \cup {build_snapshot(s, t)}
    /\ IF cascaded(s) = {}
       THEN before' = contents /\ mixed' = FALSE
       ELSE before' = before /\ mixed' = (mixed \/ cascaded(s) # log)
    /\ noted' = [c \in Folded |-> noted[c] \ released(s, c)]
    /\ UNCHANGED <<next_row, writes, home, gained>>

-----------------------------------------------------------------------------
(* undo_merge: entry l of the log.                                         *)

(* Mutant: claims from every other open merge, the earlier ones included.  *)
later_others(l) == {m \in log \ {l} : m.target = l.target}

(* load_later_merge_claims: the open merges into the same book after l.    *)
later(l) == {m \in log : m.target = l.target /\ m.id > l.id}

(* Every reason to refuse: an added author a later book supplies too, a    *)
(* moved row a later merge deleted, an opinion a later merge also moved or *)
(* the reader has changed since.                                           *)
UndoConflict(l) ==
    \/ \E m \in later(l) : Range(l.added) \cap Range(m.authors) # {}
    \/ /\ l.moved # None
       /\ \E m \in later(l) : \E d \in m.deleted : d.row.id = l.moved.id
    \/ l.moved_ground > 0 /\ \E m \in later(l) : m.folded_ground > 0
    \/ \E c \in Curated :
          /\ l.source_said[c] # None
          /\ \/ \E m \in later(l) : m.source_said[c] # None
             \/ opinion[c][l.target] # l.merged_said[c]

(* move_files_back: those the target still holds.                          *)
move_files_back(l) ==
    holder' = [f \in Books |->
        IF f \in l.files /\ holder[f] = l.target THEN l.source ELSE holder[f]]

(* The attachments of the source are its own again, without the key of the *)
(* file, and its own guard goes.                                           *)
restore_attach_ledger(l) ==
    guard' = [g \in Books |->
        IF g = l.source THEN None
        ELSE IF g \in l.guards THEN [book |-> l.source, has_key |-> FALSE]
        ELSE guard[g]]

(* Whether the row the merge moved has been written since.                 *)
changed_since(l) ==
    /\ progress[l.target] # None
    /\ progress[l.target].id = l.moved.id
    /\ progress[l.target] # l.moved

(* move_back: the moved row goes home if it is still on the target.        *)
moved_back(l) ==
    IF l.moved = None THEN progress
    ELSE IF changed_since(l)
    THEN [progress EXCEPT ![l.source] = [id |-> next_row, at |-> l.moved.at]]
    ELSE IF progress[l.target] = l.moved
    THEN [progress EXCEPT ![l.source] = l.moved, ![l.target] = None]
    ELSE progress

(* reinsert, INSERT OR IGNORE: a row comes back where there is room.       *)
reinserted(rows, deleted) ==
    [b \in Books |->
        IF rows[b] = None /\ \E d \in deleted : d.book = b
        THEN (CHOOSE d \in deleted : d.book = b).row ELSE rows[b]]

(* Mutant: the undo takes every annotation on the target.                  *)
returned_all(l) == {e \in Write : event[e] = l.target}

(* move_back of the annotations: those the target still has.               *)
returned(l) == {e \in l.events : event[e] = l.target}

(* Mutant: the undo leaves the folded ground on the target.                *)
unfolded_never(l) == ground[l.target]

(* unfold_ledger_row: the bucket the target keeps.                         *)
unfolded(l) == Max({0, ground[l.target] - l.folded_ground})

restore_relocation(l) ==
    /\ progress' = reinserted(moved_back(l), l.deleted)
    /\ next_row' = IF l.moved # None /\ changed_since(l)
                   THEN next_row + 1 ELSE next_row
    /\ ground' = IF l.moved_ground > 0
                 THEN [ground EXCEPT ![l.source] = ground[l.target],
                                     ![l.target] = 0]
                 ELSE [ground EXCEPT ![l.source] = l.folded_ground,
                                     ![l.target] = unfolded(l)]
    /\ event' = [e \in Write |-> IF e \in returned(l)
                                 THEN l.source ELSE event[e]]

(* Each book its own opinion, where the source had one.                    *)
restore_curation(l) ==
    opinion' = [c \in Curated |->
        IF l.source_said[c] = None THEN opinion[c]
        ELSE [opinion[c] EXCEPT ![l.source] = l.source_said[c],
                                ![l.target] = l.target_said[c]]]

(* strip_added_links, restore_target_author_sort, refresh_author_sort.     *)
restore_links(l) ==
    /\ authors' = [authors EXCEPT
          ![l.source] = l.authors,
          ![l.target] = without(@, Range(l.added))]
    /\ sort' = [sort EXCEPT
          ![l.source] = l.source_sort,
          ![l.target] = sort_of(authors'[l.target], l.target_sort)]

(* Mutant: the undo leaves the captured sort keys alone.                   *)
hand_on_author_sort_never(l) == log \ {l}

(* The next open merge into the book inherits the sort key from before l.  *)
hand_on_author_sort(l) ==
    {IF m \in later(l) /\ \A n \in later(l) : m.id <= n.id
     THEN [m EXCEPT !.target_sort = l.target_sort] ELSE m : m \in log \ {l}}

undo_merge(l) ==
    /\ ~UndoConflict(l)
    /\ live' = live \cup {l.source}
    /\ move_files_back(l)
    /\ restore_links(l)
    /\ log' = hand_on_author_sort(l)
    /\ restore_attach_ledger(l)
    /\ restore_relocation(l)
    /\ restore_curation(l)
    /\ UNCHANGED <<merges, writes, history>>

Next ==
    \/ \E b \in live :
          \/ upsert_progress(b) \/ add_ground(b) \/ create_annotation(b)
          \/ \E t \in Curated : \E field \in fields(t) :
                set_opinion(t, field, b)
    \/ \E s, t \in Books : merge_books(s, t)
    \/ \E l \in log : undo_merge(l)

Spec == Init /\ [][Next]_vars

-----------------------------------------------------------------------------
(* When every merge has been undone and the reader has written nothing     *)
(* since the first of them, in whatever order they were undone, the books  *)
(* are what they were: files, authors and their sort key, positions,       *)
(* opinions, ground and annotations (the promise of merge/undo.rs).        *)
RoundTrip ==
    log = {} /\ before # None /\ ~mixed => contents = before

(* An annotation is on a book that exists, and on the one it was made on   *)
(* whenever that one exists: no merge or undo strands it.                  *)
EventOnItsBook ==
    \A e \in Write : event[e] # None =>
        event[e] \in live /\ (home[e] \in live => event[e] = home[e])

(* What a function comes to over a finite set.                              *)
total(counts, set) ==
    LET sum[S \in SUBSET set] ==
            IF S = {} THEN 0
            ELSE LET x == CHOOSE y \in S : TRUE IN counts[x] + sum[S \ {x}]
    IN sum[set]

(* What a reader left is not lost on the way. The ground covered is        *)
(* neither dropped nor counted twice by folding buckets and unfolding them *)
(* (fold_ledger_counters, unfold_ledger_row). A note that was not replaced *)
(* is in the review of some book; stars and a text, of which settle keeps  *)
(* one, are in a review, or in the copy that an open merge keeps to put    *)
(* them back, until the book with that copy is merged on (finalize_merge). *)
NothingLost ==
    /\ total(ground, Books) = gained
    /\ \A t \in Folded : \A r \in noted[t] :
          r \in reviewed(t) \/ (r[1] # "notes" /\ r \in saved(log, t))

(* The newest merge into a book can be undone as long as the reader has    *)
(* written nothing since: the refusals name only merges to undo first and  *)
(* changes of the reader, and never leave a merge stuck.                   *)
LastMergeUndoable ==
    \A l \in log :
        /\ \A m \in log : m.target = l.target => m.id <= l.id
        /\ l.writes = writes
        => ~UndoConflict(l)
=============================================================================
