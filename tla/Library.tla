------------------------------- MODULE Library -------------------------------
(***************************************************************************)
(* The library index (db/src/indexer, sync, missing_files, deletion): a    *)
(* scan walks a folder, compares what it saw with the books, their files   *)
(* and the ledger of attached files (merged_uuids), and writes the         *)
(* difference in one transaction, matching each file with the book it      *)
(* belongs to by path, then by size and time, then by title and author.    *)
(* Meanwhile people move, copy and edit files, merge and delete books.     *)
(*                                                                         *)
(* One scan root and the ebook pipeline. A path is a number, in the order  *)
(* of file names. A stat stands for the pair (size, mtime); a new or       *)
(* rewritten file gets one nothing else has, a copy keeps the original's.  *)
(* No scan overlaps another: the worker's key for the library excludes it. *)
(***************************************************************************)
EXTENDS Integers, FiniteSets, FiniteSetsExt, Functions

CONSTANTS
    LastPath,         \* how many paths there are
    FormatOf,         \* the extension of each path
    StemOf,           \* the leaf name of each path, without it
    Works,            \* what a file can hold: a title and author
    Library0,         \* the libraries a first scan may find: sets of functions
    MASS_MISSING_MIN_ABSOLUTE,
    MaxBooks,         \* bound: ids, reused once nothing names them
    MaxOps,           \* bound: what people do
    MaxFaults,        \* bound: walks that miss files
    None

Paths == 1 .. LastPath
Id == 1 .. MaxBooks
Stat == 1 .. 3 * LastPath
File == [work : Works, stat : Stat]
Book == [key : Paths, work : Works \cup {None},
         missing : {"no", "recent", "old"}, read : BOOLEAN]
Row == [book : Id, key : Paths, stat : Stat]
Attachment == [uuid : Int, book : Id, format : Range(FormatOf), key : Paths]

ASSUME LibraryConstants ==
    /\ LastPath \in Nat
    /\ DOMAIN FormatOf = Paths /\ DOMAIN StemOf = Paths
    /\ \A l \in Library0 : l \in [Paths -> Works \cup {None}]
    /\ {MASS_MISSING_MIN_ABSOLUTE, MaxBooks, MaxOps, MaxFaults} \subseteq Nat
    /\ None \notin Works \cup Nat \cup File \cup Book

(* What the code lets happen and the index does not always survive.        *)
Troubles == {"same format merged", "guard lost", "key taken over", "path reused",
             "twins return", "unread attachment"}

VARIABLES
    disk,     \* the file at each path
    books,    \* the books, by id, which also stands for the uuid
    files,    \* book_files
    ledger,   \* merged_uuids
    step,     \* how far the scan is
    pass,     \* what it holds: seen and read, the plan, the books to purge
    doomed,   \* paths a committed deletion has still to unlink
    calm,     \* history: scans in a row, up to two, with nothing touched meanwhile;
              \* -1 in a scan that is disturbed
    owner,    \* history: the book each file was last known as
    troubled, \* history: the Troubles there have been
    ops, faults

tables == <<books, files, ledger>>
vars == <<disk, tables, step, pass, doomed, calm, owner, troubled, ops, faults>>

OnDisk == {p \in Paths : disk[p] # None}
BooksOf(T) == {b \in Id : T.books[b] # None}
live == {b \in Id : books[b] # None}
FilesOf(T, b) == {f \in T.files : f.book = b}
FormatsOf(T, b) == {FormatOf[f.key] : f \in FilesOf(T, b)}
SlotOf(T, b, format) == {f \in FilesOf(T, b) : FormatOf[f.key] = format}
Tables == [books |-> books, files |-> files, ledger |-> ledger]
SetTables(T) == books' = T.books /\ files' = T.files /\ ledger' = T.ledger

(* books.id and uuid are never reused by the program; the model reuses a   *)
(* number nothing refers to any more.                                      *)
Spare(T) ==
    Id \ (BooksOf(T) \cup {m.uuid : m \in T.ledger} \cup Range(owner)
          \cup (IF step = "sync" THEN pass.removed ELSE {}))

(* The handle of an attachment made by a scan, derived from its path.      *)
stable_uuid(p) == -p

(* A pair of size and time that nothing has.                               *)
remembered ==
    CASE step = "walk" -> {pass.was[p].stat : p \in {q \in Paths : pass.was[q] # None}}
      [] step \in {"read", "sync"} -> Range(pass.seen)
      [] OTHER -> {}
FreshStats ==
    Stat \ ({disk[p].stat : p \in OnDisk} \cup {f.stat : f \in files} \cup remembered)

TypeOK ==
    /\ disk \in [Paths -> File \cup {None}]
    /\ books \in [Id -> Book \cup {None}]
    /\ files \subseteq Row /\ ledger \subseteq Attachment
    /\ step \in {"idle", "walk", "read", "sync", "gc", "purge"}
    /\ doomed \subseteq Paths
    /\ owner \in [Paths -> Id \cup {None}]
    /\ troubled \subseteq Troubles
    /\ ops \in 0 .. MaxOps /\ faults \in 0 .. MaxFaults /\ calm \in -1 .. 2
    \* foreign keys, the primary key of the ledger, UNIQUE (library, scan_key)
    /\ {f.book : f \in files} \cup {m.book : m \in ledger} \subseteq live
    /\ \A m, n \in ledger : m.uuid = n.uuid => m = n
    /\ \A b, c \in live : books[b].key = books[c].key => b = c

Init ==
    /\ \E l \in Library0 :
          disk = [p \in Paths |-> IF l[p] = None THEN None ELSE [work |-> l[p], stat |-> p]]
    /\ books = [b \in Id |-> None] /\ files = {} /\ ledger = {}
    /\ step = "idle" /\ pass = None /\ doomed = {} /\ calm = 0
    /\ owner = [p \in Paths |-> None] /\ troubled = {} /\ ops = 0 /\ faults = 0

-----------------------------------------------------------------------------
(* The difference between a walk and the index (indexer/mod.rs).           *)

(* list_indexed_rows_for_formats: a book with its own file, at its own     *)
(* key, or with no file at all.                                            *)
native_rows ==
    {[uuid |-> f.book, key |-> f.key, stat |-> f.stat, has_file |-> TRUE] :
        f \in {g \in files : books[g.book].key = g.key}}
    \cup {[uuid |-> b, key |-> books[b].key, stat |-> 0, has_file |-> FALSE] :
        b \in {c \in live : FilesOf(Tables, c) = {}}}

(* list_merged_rows_for_formats: an attached file, by book and key.        *)
merged_rows ==
    {[uuid |-> mf[1].uuid, key |-> mf[1].key, stat |-> mf[2].stat, has_file |-> TRUE] :
        mf \in {x \in ledger \X files : x[1].book = x[2].book /\ x[1].key = x[2].key}}

enumeration_is_trustworthy(incomplete, saw_any_file, db_has_files) ==
    ~incomplete /\ (saw_any_file \/ ~db_has_files)

FileBacked(db) == {r \in db : r.has_file}

(* Removed files over a fifth of the library, and over the floor.          *)
check_mass_missing(removed, db) ==
    ~(/\ Cardinality(removed) > MASS_MISSING_MIN_ABSOLUTE
      /\ 5 * Cardinality(removed) > Cardinality(FileBacked(db)))

(* Mutant: no pairing, a moved file is one gone and one come. *)
match_moved_files_never(departures, arrivals, seen) == {}

(* Departures and arrivals of the same stat and format, if they are alone  *)
(* in that or, failing that, alone with the same stem.                     *)
match_moved_files(departures, arrivals, seen) ==
    LET alike(d, a) == seen[a] = d.stat /\ FormatOf[a] = FormatOf[d.key]
        theirs(a) == {d \in departures : alike(d, a)}
        others(d) == {a \in arrivals : alike(d, a)}
        same_stem(d, a) == StemOf[a] = StemOf[d.key]
    IN  {da \in departures \X arrivals :
            LET d == da[1]  a == da[2] IN
            /\ alike(d, a)
            /\ \/ theirs(a) = {d} /\ others(d) = {a}
               \/ /\ {e \in theirs(a) : same_stem(e, a)} = {d}
                  /\ {b \in others(d) : same_stem(d, b)} = {a}}

(* diff_library. An attached file's row stands for the path before a book's. *)
diff_library(seen, native, merged, trustworthy) ==
    LET db == native \cup merged
        row_at(p) == LET m == {r \in merged : r.key = p}
                     IN  CHOOSE r \in (IF m # {} THEN m ELSE native) : r.key = p
        known == {r.key : r \in db}
        arrivals == DOMAIN seen \ known
        departures == IF trustworthy
                      THEN {r \in FileBacked(db) : r.key \notin DOMAIN seen} ELSE {}
        pairs == match_moved_files(departures, arrivals, seen)
    IN  [changed |-> {p \in DOMAIN seen \cap known :
                         ~row_at(p).has_file \/ row_at(p).stat # seen[p]},
         new     |-> arrivals \ {da[2] : da \in pairs},
         moved   |-> {[uuid |-> da[1].uuid, to |-> da[2]] : da \in pairs},
         removed |-> {r.uuid : r \in departures \ {da[1] : da \in pairs}},
         seen    |-> seen]

-----------------------------------------------------------------------------
(* The transaction that writes it (sync/books, sync/attach).               *)

NotMissing(b) == [b EXCEPT !.missing = "no"]

(* A removed book keeps its row; a file an attachment backs is spared.     *)
sync_removed(T, removed) ==
    LET ids == removed \cap BooksOf(T)
        backed(f) == \E m \in T.ledger :
            m.book = f.book /\ m.format = FormatOf[f.key] /\ m.key = f.key
        left == {f \in T.files : f.book \in ids => backed(f)}
    IN  [T EXCEPT
            !.files = left,
            !.books = [b \in Id |->
                IF b \in ids /\ @[b].missing = "no" /\ ~(\E f \in left : f.book = b)
                THEN [@[b] EXCEPT !.missing = "recent"] ELSE @[b]]]

(* Mutant: the attachment is forgotten and its file row stays. *)
remove_attached_files_ledger_only(T, removed) ==
    [T EXCEPT !.ledger = {m \in @ : m.uuid \notin removed}]

remove_attached_files(T, removed) ==
    LET gone == {m \in T.ledger : m.uuid \in removed}
    IN  [T EXCEPT
            !.files = {f \in @ : ~\E m \in gone : m.book = f.book /\ m.key = f.key},
            !.ledger = @ \ gone]

relocate_file_row(fs, b, from, to) ==
    {IF f.book = b /\ f.key = from THEN [f EXCEPT !.key = to] ELSE f : f \in fs}

(* A book moves with its own key, an attached file with its ledger row; a  *)
(* path already spoken for declines the move.                              *)
relocate_one(T, m) ==
    IF m.uuid \in BooksOf(T)
    THEN IF \E c \in BooksOf(T) \ {m.uuid} : T.books[c].key = m.to THEN T
         ELSE [T EXCEPT !.books[m.uuid] = NotMissing([@ EXCEPT !.key = m.to]),
                        !.files = relocate_file_row(@, m.uuid, T.books[m.uuid].key, m.to)]
    ELSE IF ~\E a \in T.ledger : a.uuid = m.uuid THEN T
    ELSE IF \E a \in T.ledger : a.uuid # m.uuid /\ a.key = m.to THEN T
    ELSE LET a == CHOOSE x \in T.ledger : x.uuid = m.uuid IN
         [T EXCEPT !.ledger = (@ \ {a}) \cup {[a EXCEPT !.key = m.to]},
                   !.files = relocate_file_row(@, a.book, a.key, m.to)]

sync_moved(T0, moved) ==
    LET done[n \in 0 .. LastPath] ==
            IF n = 0 THEN T0
            ELSE IF \E m \in moved : m.to = n
                 THEN relocate_one(done[n - 1], CHOOSE m \in moved : m.to = n)
                 ELSE done[n - 1]
    IN  done[LastPath]

(* The file p as the walk dated it and as the parse, later, finds it.      *)
Parsed(p) == [key |-> p, stat |-> pass.seen[p],
              work |-> IF disk[p] = None THEN None ELSE disk[p].work]

(* The rows of the format make place for the file.                         *)
PutRow(T, b, format, f) ==
    [T EXCEPT !.files = (@ \ SlotOf(T, b, format))
                        \cup {[book |-> b, key |-> f.key, stat |-> f.stat]},
              !.books[b] = NotMissing(@)]

rewrite_book_in_place(T, b, f) ==
    [PutRow(T, b, FormatOf[f.key], f) EXCEPT !.books[b] = [@ EXCEPT !.key = f.key, !.work = f.work]]

insert_book_row(T, f) ==
    LET b == Min(Spare(T))
    IN  PutRow([T EXCEPT !.books[b] =
                   [key |-> f.key, work |-> f.work, missing |-> "no", read |-> FALSE]],
               b, FormatOf[f.key], f)

(* Mutant: only the ledger is asked for the slot. *)
slot_held_by_other_ledger_only(T, b, format, p) ==
    \E m \in T.ledger : m.book = b /\ m.format = format /\ m.key # p

slot_held_by_other(T, b, format, p) ==
    \/ \E m \in T.ledger : m.book = b /\ m.format = format /\ m.key # p
    \/ \E f \in SlotOf(T, b, format) : f.key # p

(* Mutant: a file attached to a book is not entered in the ledger. *)
record_attachment_never(T, uuid, b, format, p) == T

record_attachment(T, uuid, b, format, p) ==
    LET there == {m.uuid : m \in {n \in T.ledger : n.key = p}}
        row_uuid == IF there # {} THEN CHOOSE u \in there : TRUE ELSE uuid
    IN  [T EXCEPT !.ledger = {m \in @ : m.uuid # row_uuid}
                             \cup {[uuid |-> row_uuid, book |-> b, format |-> format, key |-> p]}]

attach_ebook_file(T, b, format, uuid, f) ==
    record_attachment(PutRow(T, b, format, f), uuid, b, format, f.key)

forget_attachment(T, p) == [T EXCEPT !.ledger = {m \in @ : m.key # p}]

AttachmentsAt(T, p) == {m \in T.ledger : m.key = p}

(* A file the ledger knows goes back to its book, or, when its slot is     *)
(* taken, becomes a book of its own.                                       *)
reattach(T, f) ==
    LET m == CHOOSE a \in AttachmentsAt(T, f.key) : TRUE
    IN  IF slot_held_by_other(T, m.book, m.format, f.key)
        THEN insert_book_row(forget_attachment(T, f.key), f)
        ELSE attach_ebook_file(T, m.book, m.format, m.uuid, f)

(* The books as they stand when the bucket begins: id_map.                 *)
HolderOf(T0, p) == {b \in BooksOf(T0) : T0.books[b].key = p}

sync_changed_one(T0, T, f) ==
    IF HolderOf(T0, f.key) # {}
    THEN rewrite_book_in_place(T, CHOOSE b \in HolderOf(T0, f.key) : TRUE, f)
    ELSE IF AttachmentsAt(T, f.key) # {} THEN reattach(T, f)
    ELSE insert_book_row(T, f)

(* The only book of that title and author that lacks the format.           *)
find_attach_target(T, work, format) ==
    {b \in BooksOf(T) : work # None /\ T.books[b].work = work /\ SlotOf(T, b, format) = {}}

try_attach_new_ebook(T, f, removed) ==
    LET format == FormatOf[f.key]
        targets == find_attach_target(T, f.work, format)
        b == CHOOSE x \in targets : TRUE
    IN  IF AttachmentsAt(T, f.key) # {} /\ f.work # None THEN reattach(T, f)
        ELSE IF Cardinality(targets) # 1 THEN insert_book_row(T, f)
        ELSE IF b \in removed THEN rewrite_book_in_place(T, b, f)
        ELSE IF slot_held_by_other(T, b, format, f.key) THEN insert_book_row(T, f)
        ELSE attach_ebook_file(T, b, format, stable_uuid(f.key), f)

(* Mutant: a new file is not looked for among the books of its path. *)
sync_new_one_unheld(T0, T, f, removed) == try_attach_new_ebook(T, f, removed)

sync_new_one(T0, T, f, removed) ==
    IF HolderOf(T0, f.key) # {}
    THEN rewrite_book_in_place(T, CHOOSE b \in HolderOf(T0, f.key) : TRUE, f)
    ELSE try_attach_new_ebook(T, f, removed)

sync_changed(T0, changed) ==
    LET done[n \in 0 .. LastPath] ==
            IF n = 0 THEN T0
            ELSE IF n \in changed THEN sync_changed_one(T0, done[n - 1], Parsed(n)) ELSE done[n - 1]
    IN  done[LastPath]

sync_new(T0, new, removed) ==
    LET done[n \in 0 .. LastPath] ==
            IF n = 0 THEN T0
            ELSE IF n \in new THEN sync_new_one(T0, done[n - 1], Parsed(n), removed) ELSE done[n - 1]
    IN  done[LastPath]

sync_books(T, plan) ==
    LET fewer == remove_attached_files(sync_removed(T, plan.removed), plan.removed)
    IN  sync_new(sync_changed(sync_moved(fewer, plan.moved), plan.changed),
                 plan.new, plan.removed)

-----------------------------------------------------------------------------
(* A scan, step by step.                                                   *)

StartScan ==
    /\ step = "idle"
    /\ step' = "walk" /\ pass' = [was |-> disk]
    /\ UNCHANGED <<disk, tables, doomed, calm, owner, troubled, ops, faults>>

(* A file that changes during the walk is seen before or after; the books  *)
(* with their own files are read when the walk is over.                    *)
Walked(late, lost, incomplete) ==
    LET file(p) == IF p \in late THEN disk[p] ELSE pass.was[p]
        seen == [p \in {q \in Paths \ lost : file(q) # None} |-> file(p).stat]
    IN  /\ step' = "read"
        /\ pass' = [seen |-> seen, incomplete |-> incomplete, native |-> native_rows]

Walk ==
    /\ step = "walk"
    /\ \E late \in SUBSET {p \in Paths : disk[p] # pass.was[p]} : Walked(late, {}, FALSE)
    /\ UNCHANGED <<disk, tables, doomed, calm, owner, troubled, ops, faults>>

(* A folder that cannot be listed, which the walk reports, or a mount that *)
(* serves a listing without some of its files, which it cannot.            *)
WalkMisses ==
    /\ step = "walk" /\ faults < MaxFaults
    /\ \E lost \in (SUBSET OnDisk) \ {{}}, incomplete \in BOOLEAN : Walked(Paths, lost, incomplete)
    /\ faults' = faults + 1 /\ calm' = -1
    /\ UNCHANGED <<disk, tables, doomed, owner, troubled, ops>>

(* The attached files are read, and the difference drawn; a scan that      *)
(* would lose too many files ends here. A folder without an ebook may have *)
(* files of other extensions, which tell it from a mount that is gone.     *)
Diff ==
    /\ step = "read"
    /\ \E other_files \in BOOLEAN :
       LET db == pass.native \cup merged_rows
           trustworthy == enumeration_is_trustworthy(
               pass.incomplete, pass.seen # <<>> \/ other_files, FileBacked(db) # {})
           plan == diff_library(pass.seen, pass.native, merged_rows, trustworthy)
       IN  IF check_mass_missing(plan.removed, db)
           THEN /\ step' = "sync" /\ pass' = plan
                /\ calm' = (IF trustworthy THEN calm ELSE -1)
           ELSE /\ step' = "idle" /\ pass' = None /\ calm' = 0
    /\ UNCHANGED <<disk, tables, doomed, owner, troubled, ops, faults>>

(* Several files, in several formats, of a book whose own file is gone.    *)
TwinsReturn ==
    \E b \in live \cap pass.removed, p, q \in pass.new :
        /\ FormatOf[p] # FormatOf[q] /\ {Parsed(p).work, Parsed(q).work} = {books[b].work}

(* A file where an attached one was when stable_uuid made its handle.       *)
HandleReused == \E p \in pass.new, m \in ledger : m.uuid = stable_uuid(p) /\ m.key # p

(* A file that moved to a path of the other table: relocate_one asks the   *)
(* books about a book's own file and the ledger about an attached one.     *)
KeyTakenOver ==
    \E m \in pass.moved :
        \/ m.uuid \in live /\ \E a \in ledger : a.key = m.to
        \/ \E a \in ledger, b \in live : a.uuid = m.uuid /\ books[b].key = m.to

(* An attached file that the index lost and that can no longer be read: it *)
(* becomes a book, and the ledger keeps its row.                           *)
UnreadAttachment == \E p \in pass.new : Parsed(p).work = None /\ AttachmentsAt(Tables, p) # {}

(* The book is at the path p, or has a row for the file there, and none of *)
(* that format on disk at a path of its own.                               *)
Backs(T, b, p) ==
    /\ T.books[b] # None
    /\ \/ T.books[b].key = p
       \/ /\ \E f \in T.files : f.book = b /\ f.key = p
          /\ FormatOf[T.books[b].key] # FormatOf[p] \/ disk[T.books[b].key] = None

(* The new and changed files are parsed as they are by now and everything  *)
(* is written in one transaction. Then the histories: a scan that was      *)
(* disturbed keeps the owners it leaves with the file, one that was not    *)
(* keeps all and, if every move was done, finds those of other files.      *)
Sync ==
    /\ step = "sync"
    /\ Cardinality(pass.changed \cup pass.new) <= Cardinality(Spare(Tables))
    /\ LET T == sync_books(Tables, pass)
           landed == \A m \in pass.moved : \E f \in T.files : f.key = m.to
           kept(p) == /\ disk[p] # None /\ owner[p] # None
                      /\ calm >= 0 \/ Backs(T, owner[p], p)
           found(p) == /\ disk[p] # None /\ owner[p] = None
                       /\ calm >= 0 /\ landed /\ \E f \in T.files : f.key = p
       IN  /\ SetTables(T)
           /\ calm' = (IF calm < 0 \/ ~landed THEN 0 ELSE IF calm = 2 THEN 2 ELSE calm + 1)
           /\ owner' = [p \in Paths |->
                  IF kept(p) THEN owner[p]
                  ELSE IF found(p) THEN (CHOOSE f \in T.files : f.key = p).book ELSE None]
    /\ troubled' = troubled \cup
           (IF TwinsReturn THEN {"twins return"} ELSE {}) \cup
           (IF HandleReused THEN {"path reused"} ELSE {}) \cup
           (IF KeyTakenOver THEN {"key taken over"} ELSE {}) \cup
           (IF UnreadAttachment THEN {"unread attachment"} ELSE {})
    /\ step' = "gc" /\ pass' = None
    /\ UNCHANGED <<disk, doomed, ops, faults>>

(* gc_books_missing_files reads whom to purge, then purges them as read.   *)
Victims ==
    {b \in live : /\ books[b].missing = "old" /\ ~books[b].read
                  /\ FilesOf(Tables, b) = {} /\ ~\E m \in ledger : m.book = b}

GcSelect ==
    /\ step = "gc"
    /\ step' = (IF Victims = {} THEN "idle" ELSE "purge")
    /\ pass' = (IF Victims = {} THEN None ELSE Victims)
    /\ UNCHANGED <<disk, tables, doomed, calm, owner, troubled, ops, faults>>

Dropped(T, gone) ==
    [books |-> [b \in Id |-> IF b \in gone THEN None ELSE T.books[b]],
     files |-> {f \in T.files : f.book \notin gone},
     ledger |-> {m \in T.ledger : m.book \notin gone}]

Disowned(gone) == [p \in Paths |-> IF owner[p] \in gone THEN None ELSE owner[p]]

GcDelete ==
    /\ step = "purge"
    /\ SetTables(Dropped(Tables, pass)) /\ owner' = Disowned(pass)
    /\ step' = "idle" /\ pass' = None
    /\ UNCHANGED <<disk, doomed, calm, troubled, ops, faults>>

(* A root that cannot be read, a transaction that fails.                   *)
ScanFails ==
    /\ step # "idle"
    /\ step' = "idle" /\ pass' = None /\ calm' = 0
    /\ UNCHANGED <<disk, tables, doomed, owner, troubled, ops, faults>>

-----------------------------------------------------------------------------
(* The disk. A history keeps, for each file, the book a scan must find it  *)
(* in again, and drops it where the program promises nothing: a file       *)
(* edited and then moved, one of several with the same stat, one moved to  *)
(* a path the index knows or whose old path is taken by another, one that  *)
(* lost its row before its book was merged.                                *)

Op == ops < MaxOps /\ ops' = ops + 1

Alike(p) == {q \in OnDisk : disk[q].stat = disk[p].stat /\ FormatOf[q] = FormatOf[p]}
RowsAlike(p) == {f \in files : f.stat = disk[p].stat /\ FormatOf[f.key] = FormatOf[p]}

Displaced(p) ==
    {q \in OnDisk \ {p} : FormatOf[q] = FormatOf[p] /\ owner[q] \in live /\ books[owner[q]].key = p}
    \cup {q \in OnDisk \ {p} : \E f \in files :
        f.book = owner[q] /\ f.key = p /\ f.stat = disk[q].stat}

(* The rows of the file at p, there or where it was.                       *)
IndexedAs(p) == {f \in files : p \in OnDisk /\ (f.key = p \/ (f \in RowsAlike(p) /\ f.key \notin OnDisk))}

Known(p) ==
    \/ \E b \in live : books[b].key = p
    \/ \E m \in ledger : m.key = p
    \/ \E f \in files : f.key = p

(* A file comes to p: the owner it has there, and whose promise ends.      *)
Lands(p, b, shy) ==
    owner' = [q \in Paths |-> IF q = p THEN b
                              ELSE IF q \in Displaced(p) \cup shy THEN None ELSE owner[q]]

Disturbed == calm' = IF step \in {"walk", "read", "sync"} THEN -1 ELSE 0

Touched == Disturbed /\ UNCHANGED <<tables, step, pass, doomed, troubled, faults>>

AddFile(p, w) ==
    /\ Op /\ p \notin OnDisk /\ FreshStats # {}
    /\ disk' = [disk EXCEPT ![p] = [work |-> w, stat |-> Min(FreshStats)]]
    /\ Lands(p, None, {}) /\ Touched

EditFile(p, w) ==
    /\ Op /\ p \in OnDisk /\ FreshStats # {}
    /\ disk' = [disk EXCEPT ![p] = [work |-> w, stat |-> Min(FreshStats)]]
    /\ owner' = [owner EXCEPT ![p] = IF \E f \in files : f.book = @ /\ f.key = p THEN @ ELSE None]
    /\ Touched

MoveFile(p, q) ==
    /\ Op /\ p \in OnDisk /\ q \notin OnDisk /\ FormatOf[p] = FormatOf[q]
    /\ disk' = [disk EXCEPT ![p] = None, ![q] = disk[p]]
    /\ LET sure == /\ ~Known(q) /\ Alike(p) = {p}
                   /\ \E f \in IndexedAs(p) : f.book = owner[p] /\ RowsAlike(p) = {f}
       IN  owner' = [x \in Paths |->
               IF x = q THEN (IF sure THEN owner[p] ELSE None)
               ELSE IF x \in Alike(p) \cup Displaced(q) THEN None ELSE owner[x]]
    /\ Touched

CopyFile(p, q) ==
    /\ Op /\ p \in OnDisk /\ q \notin OnDisk /\ FormatOf[p] = FormatOf[q]
    /\ disk' = [disk EXCEPT ![q] = disk[p]]
    /\ Lands(q, None, Alike(p)) /\ Touched

RemoveFile(p) ==
    /\ Op /\ p \in OnDisk
    /\ disk' = [disk EXCEPT ![p] = None]
    /\ owner' = [q \in Paths |-> IF q \in Alike(p) THEN None ELSE owner[q]]
    /\ Touched

-----------------------------------------------------------------------------
(* The rest of the program.                                                *)

(* A reader leaves something of theirs with the book.                      *)
Read(b) ==
    /\ Op /\ b \in live /\ ~books[b].read
    /\ books' = [books EXCEPT ![b].read = TRUE]
    /\ UNCHANGED <<disk, files, ledger, step, pass, doomed, calm, owner, troubled, faults>>

(* MISSING_FILES_RETENTION_DAYS pass.                                      *)
RetentionPasses(b) ==
    /\ Op /\ b \in live /\ books[b].missing = "recent"
    /\ books' = [books EXCEPT ![b].missing = "old"]
    /\ UNCHANGED <<disk, files, ledger, step, pass, doomed, calm, owner, troubled, faults>>

(* merge_books: the files, with their locations, and the attachments go to *)
(* the target; the source's own file is attached to it under the source's  *)
(* uuid, so that the next scan finds it there.                             *)
Shapes(b) ==
    {FormatOf[books[b].key]} \cup FormatsOf(Tables, b)
    \cup {m.format : m \in {n \in ledger : n.book = b}}

(* A file of the source is taken for an attachment, as one of its format is. *)
GuardLost(s) ==
    \E f \in FilesOf(Tables, s), m \in ledger :
        /\ m.book = s /\ m.format = FormatOf[f.key]
        /\ ~\E n \in ledger : n.book = s /\ n.key = f.key

merge_books(s, t) ==
    LET native == FormatsOf(Tables, s) \ {m.format : m \in {n \in ledger : n.book = s}}
        guard == {[uuid |-> s, book |-> t, format |-> x, key |-> books[s].key] : x \in native}
        moved == {IF f.book = s THEN [f EXCEPT !.book = t] ELSE f : f \in files}
        rewired == {IF m.book = s THEN [m EXCEPT !.book = t] ELSE m : m \in ledger}
    IN  /\ Op /\ s \in live /\ t \in live /\ s # t
        /\ troubled' = troubled \cup
               (IF Shapes(s) \cap Shapes(t) # {} THEN {"same format merged"} ELSE {}) \cup
               (IF GuardLost(s) THEN {"guard lost"} ELSE {})
        /\ \E kept \in (IF guard = {} THEN {{}} ELSE {{g} : g \in guard}) :
              SetTables(Dropped([books |-> books, files |-> moved,
                  ledger |-> {m \in rewired : kept = {} \/ m.uuid # s} \cup kept], {s}))
        /\ owner' = [p \in Paths |->
               IF owner[p] # s THEN owner[p]
               ELSE IF books[s].key = p /\ \A f \in FilesOf(Tables, s) : f.key # p THEN None ELSE t]
        /\ Disturbed
        /\ UNCHANGED <<disk, step, pass, doomed, faults>>

(* delete_book_items: the rows, and the book with the last of them; the    *)
(* files are unlinked after the transaction.                               *)
delete_book_items(b, chosen) ==
    LET total == chosen = FilesOf(Tables, b)
        keys == {f.key : f \in chosen}
    IN  /\ Op /\ b \in live /\ (total \/ chosen # {})
        /\ SetTables(Dropped([books |-> books, files |-> files \ chosen,
               ledger |-> {m \in ledger : ~(m.book = b /\ m.key \in keys)}],
               IF total THEN {b} ELSE {}))
        /\ doomed' = doomed \cup keys
        /\ owner' = [p \in Paths |->
               IF owner[p] = b /\ (total \/ chosen \cap IndexedAs(p) # {})
               THEN None ELSE owner[p]]
        /\ Disturbed
        /\ UNCHANGED <<disk, step, pass, troubled, faults>>

(* The unlink, which may fail and leave the file.                          *)
Unlink(p) ==
    /\ p \in doomed /\ doomed' = doomed \ {p}
    /\ \/ /\ disk' = [disk EXCEPT ![p] = None]
          /\ owner' = [q \in Paths |->
                IF p \in OnDisk /\ q \in Alike(p) THEN None ELSE owner[q]]
          /\ Disturbed
       \/ UNCHANGED <<disk, owner, calm>>
    /\ UNCHANGED <<tables, step, pass, troubled, ops, faults>>

(* A restart: what ran is gone, and backfill_missing_files_flags stamps    *)
(* the books without a file that no scan flagged.                          *)
Restart ==
    /\ Op
    /\ books' = [b \in Id |->
           IF b \in live /\ FilesOf(Tables, b) = {} /\ books[b].missing = "no"
           THEN [books[b] EXCEPT !.missing = "recent"] ELSE books[b]]
    /\ step' = "idle" /\ pass' = None /\ doomed' = {} /\ calm' = 0
    /\ UNCHANGED <<disk, files, ledger, owner, troubled, faults>>

Next ==
    \/ StartScan \/ Walk \/ WalkMisses \/ Diff \/ Sync \/ GcSelect \/ GcDelete \/ ScanFails
    \/ \E p \in Paths :
          \/ \E w \in Works : AddFile(p, w) \/ EditFile(p, w)
          \/ \E q \in Paths : MoveFile(p, q) \/ CopyFile(p, q)
          \/ RemoveFile(p) \/ Unlink(p)
    \/ \E b \in Id :
          \/ Read(b) \/ RetentionPasses(b)
          \/ \E t \in Id : merge_books(b, t)
          \/ \E chosen \in SUBSET FilesOf(Tables, b) : delete_book_items(b, chosen)
    \/ Restart

Spec == Init /\ [][Next]_vars

-----------------------------------------------------------------------------
(* Properties.                                                             *)

(* None of the Troubles has been. Each of them is a step the code takes,   *)
(* and after each it can give one file to two books or lose a book's file: *)
(* - two books with files of one format merged: an edited file of them is  *)
(*   not attached again, as its slot is held, but made a book, and its old *)
(*   row stays;                                                            *)
(* - a merge that leaves a file of the source without its ledger row;      *)
(* - a file moved to a path of the other table, which counts as free;      *)
(* - a file where an attached one used to be, which takes over its handle; *)
(* - several formats of a book back at once, each of which takes its path; *)
(* - an attached file that can no longer be read, which becomes a book.    *)
untroubled == troubled = {}

(* Two scans in a row saw everything, and wrote it, and nothing has been   *)
(* touched since the first began. (One is not always enough: a book's own  *)
(* file, back on disk, takes the slot another file of its format got       *)
(* meanwhile, and the next scan gives that one a book.)                    *)
settled == calm = 2 /\ untroubled

(* No file is a file of two books, or twice of one.                        *)
OneRowPerFile == \A f, g \in files : f.key = g.key => f = g

(* Whatever moves, deletions, missed files and merges of different formats *)
(* come between the steps of a scan, a file gets no second row (sync_books *)
(* and merge_books), unless one of the Troubles came first.                *)
OneBookPerFile == untroubled => OneRowPerFile

(* When all the formats of a removed book come back at once they are the   *)
(* book's again and no file is left over (shared.rs): what the code says,  *)
(* and what "twins return" alone breaks.                                   *)
TwinsComeBackToOneBook == troubled \subseteq {"twins return"} => OneRowPerFile

(* After two undisturbed scans, every file is indexed under its path with  *)
(* its stat, and every row names a file, whatever was done and whichever   *)
(* scans went wrong before, the Troubles excepted (diff_library and        *)
(* sync_books).                                                            *)
IndexAgrees ==
    settled =>
        /\ \A p \in OnDisk : \E f \in files : f.key = p /\ f.stat = disk[p].stat
        /\ \A f \in files : f.key \in OnDisk

(* And they leave the next scan nothing to do: no two files trade a slot   *)
(* or a stat scan after scan (slot_held_by_other and diff_library).        *)
RescanIsQuiet ==
    settled =>
        LET plan == diff_library([p \in OnDisk |-> disk[p].stat], native_rows, merged_rows, TRUE)
        IN  plan.changed \cup plan.new \cup plan.moved \cup plan.removed = {}

(* A file that is moved, or edited where it is, is found again in the book *)
(* it was in, with all the reader left there (match_moved_files, reattach, *)
(* relocate_one): through merges of its book with books of other formats,  *)
(* through scans of a changing library, and through scans that missed it   *)
(* if it is the book's own. (An attached file that a scan misses leaves    *)
(* the ledger, and where it goes when it is back is the match's choice.)   *)
BookFollowsFile ==
    settled => \A p \in OnDisk :
        owner[p] # None => \E f \in files : f.key = p /\ f.book = owner[p]
=============================================================================
