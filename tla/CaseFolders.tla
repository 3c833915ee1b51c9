---------------------------- MODULE CaseFolders ----------------------------
(***************************************************************************)
(* The folder a case has on disk: export_app/services/folder_service.py    *)
(* and the page that brings all folders up to date.  A folder's name       *)
(* follows the case, so saving a case moves its folder; the row of the     *)
(* case, the rows of its files, the workbook and the marker are written    *)
(* one after the other, each for itself.                                   *)
(*                                                                         *)
(* A place is a root (the USB drive, the uploads folder, the configured    *)
(* folder), a base (country and month, or the folder a batch gathers       *)
(* copies in), a name and a number (1: the bare name, 2: name_2).  The     *)
(* content of a case is a version that every save raises; a second is a    *)
(* value of clock.  A behaviour does what one record of Trips allows.      *)
(***************************************************************************)
EXTENDS Integers, Sequences, FiniteSets, Functions

CONSTANTS CaseIds,      \* numbers of the cases
          Bases,      \* country and month folders
          Labels,     \* what a folder's name says of its case
          Sessions,   \* sessions of the program
          MaxEdits,   \* bound on the versions of a case
          Trips       \* what a behaviour does: [sessions, cases, labels,
              \* seconds, saves, upload, cancel, batch, stop, usb, root]

ASSUME FoldersOK ==
  /\ IsFiniteSet(CaseIds) /\ CaseIds \subseteq Nat \ {0} /\ "gather" \notin Bases
  /\ \A w \in Trips : IsFiniteSet(w.sessions)

VARIABLES trip,       \* the record of Trips this behaviour is held to
          case,       \* case -> its row, or Absent
          rows,       \* the attachments table
          disk,       \* place -> what the folder there holds
          usb,        \* the drive is plugged in
          seen,       \* what find_export_usb() found in the last 5 seconds
          root,       \* the setting shared_root, "": none
          clock,      \* the second it is
          job,        \* session -> the call it is in
          gathered,   \* history: what the batch copied for which case (one batch)
          astray        \* history: cases whose sync was stopped or met another

caseDb == <<case, rows>>
fileVars == <<trip, caseDb, disk, usb, seen, root, clock, job, gathered, astray>>
-----------------------------------------------------------------------------
Place(r, base, name, n) == [root |-> r, base |-> base, name |-> name, n |-> n]
None == Place("", "", <<FALSE, "">>, 0)
Absent == [data |-> 0]
NoBook == [data |-> 0, at |-> 0, of |-> 0]
NoPrint == [data |-> 0]
EmptyFolder == [mark |-> 0, print |-> NoPrint, book |-> NoBook, files |-> {}]
NoJob == [case |-> 0, todo |-> <<>>, cur |-> None, tgt |-> None,
          path |-> "", force |-> FALSE, moved |-> FALSE, rest |-> <<>>]

Made == {c \in CaseIds : case[c] # Absent}
Reached == {p \in DOMAIN disk : p.root = "usb" => usb}

\* storage_root(): the setting; else the drive when it is seen and there;
\* else the uploads folder.
Root == IF root # "" THEN root
        ELSE IF seen /\ usb THEN "usb" ELSE "local"

\* case_folder_base and case_folder_name
Base(c) == case[c].base
Name(c) == <<case[c].cancelled, case[c].label>>

\* _path_for_database: relative to the drive while it is seen.
Stored(p) == [rel |-> seen /\ p.root = "usb", at |-> p]
NoPath == [rel |-> FALSE, at |-> None]

\* resolve_database_path: a relative path is one only while the drive is seen.
Resolved(s) ==
  IF s.at \in Reached /\ (s.rel => seen) THEN s.at ELSE None

\* find_case_folder: the stored path if anything is there, whatever it is;
\* else a folder below the root with the marker of the case.
Marked(c) == {p \in Reached : p.root = Root /\ disk[p].mark = c}
Found(c) ==
  IF Resolved(case[c].path) # None THEN {Resolved(case[c].path)}
  ELSE IF Marked(c) # {} THEN Marked(c) ELSE {None}

\* unique_folder_path: the first of name, name_2, ... that is free or current.
FreePath(c, cur) ==
  LET at(n) == Place(Root, Base(c), Name(c), n)
      good(n) == at(n) = cur \/ at(n) \notin Reached
      first == CHOOSE n \in 1..(Cardinality(DOMAIN disk) + 1) :
                 good(n) /\ \A m \in 1..(n - 1) : ~good(m)
  IN at(first)

\* case_content_fingerprint: the row without its path, and the rows of files.
Stamped(c) == [data |-> case[c].data, stamp |-> case[c].stamp,
             files |-> {r \in rows : r.case = c}]

\* _case_folder_is_current
Current(c, cur) ==
  /\ cur = FreePath(c, cur)
  /\ disk[cur].print = Stamped(c)
  /\ disk[cur].book # NoBook

\* _workbook_needs_update: a row's time is whole seconds, the file's is not.
NeedsBook(c, p, force) ==
  force \/ disk[p].book = NoBook \/ case[c].stamp > disk[p].book.at

PutInto(d, p, f) == [q \in DOMAIN d \cup {p} |-> IF q = p THEN f ELSE d[q]]
Removed(d, p) == Restrict(d, DOMAIN d \ {p})
\* mkdir(exist_ok): what is there stays.
Dir(p) == IF p \in DOMAIN disk THEN disk[p] ELSE EmptyFolder
-----------------------------------------------------------------------------
FoldersInit ==
  /\ trip \in Trips
  /\ case = [c \in CaseIds |-> Absent] /\ rows = {}
  /\ disk = [p \in {} |-> EmptyFolder]
  /\ usb \in (IF trip.usb THEN BOOLEAN ELSE {FALSE}) /\ seen = usb
  /\ root = "" /\ clock = 1
  /\ job = [s \in Sessions |-> NoJob]
  /\ gathered = {} /\ astray = {}

Free(s) == s \in trip.sessions /\ job[s] = NoJob
ToSync == <<"plan">>

\* A case is created: the row, then for a historical case its files, each
\* into the case's folder, and then the sync.
Create(s, c, base, label, file) ==
  /\ Free(s) /\ c \in trip.cases \ Made /\ \A d \in CaseIds : d < c => d \in Made
  /\ file => trip.upload
  /\ case' = [case EXCEPT ![c] =
       [base |-> base, label |-> label, cancelled |-> FALSE, data |-> 1,
        stamp |-> clock, path |-> NoPath]]
  /\ job' = [job EXCEPT ![s] = [NoJob EXCEPT !.case = c,
       !.todo = (IF file THEN <<"ensure">> ELSE <<>>) \o ToSync]]
  /\ UNCHANGED <<trip, rows, disk, usb, seen, root, clock, gathered, astray>>

\* A save of a case: its row and its content, then the sync.
Save(s, c, base, label) ==
  /\ Free(s) /\ c \in Made /\ trip.saves /\ case[c].data < MaxEdits
  /\ ~case[c].cancelled
  /\ case' = [case EXCEPT ![c].base = base, ![c].label = label,
                          ![c].data = @ + 1, ![c].stamp = clock]
  /\ job' = [job EXCEPT ![s] = [NoJob EXCEPT !.case = c, !.todo = ToSync]]
  /\ UNCHANGED <<trip, rows, disk, usb, seen, root, clock, gathered, astray>>

\* A cancellation: the folder's name says so after the sync.
Cancel(s, c) ==
  /\ Free(s) /\ c \in Made /\ trip.cancel /\ ~case[c].cancelled
  /\ case' = [case EXCEPT ![c].cancelled = TRUE, ![c].data = @ + 1,
                          ![c].stamp = clock]
  /\ job' = [job EXCEPT ![s] = [NoJob EXCEPT !.case = c, !.todo = ToSync]]
  /\ UNCHANGED <<trip, rows, disk, usb, seen, root, clock, gathered, astray>>

\* The page's button: every case that is not cancelled, one after the other.
Batch(s) ==
  /\ Free(s) /\ trip.batch /\ gathered = {}
  /\ \A z \in Sessions : Len(job[z].rest) = 0
  /\ LET live == {c \in Made : ~case[c].cancelled}
     IN /\ live # {}
        /\ \E order \in [1..Cardinality(live) -> live] :
             /\ \A i, k \in DOMAIN order : i < k => order[i] < order[k]
             /\ job' = [job EXCEPT ![s] =
                  [NoJob EXCEPT !.rest = order, !.todo = <<"next">>]]
  /\ gathered' = {<<0, None>>}
  /\ UNCHANGED <<trip, caseDb, disk, usb, seen, root, clock, astray>>
-----------------------------------------------------------------------------
(* The steps of a call.  Each names what it does to its session's job.     *)
Step(s, name) == job[s].todo # <<>> /\ Head(job[s].todo) = name
C(s) == job[s].case
Tgt(s) == job[s].tgt

\* What follows the last step: the next case of a batch, or nothing.
Then(j) == IF j.todo # <<>> THEN j
           ELSE IF j.rest # <<>> THEN [NoJob EXCEPT !.rest = j.rest,
                                                    !.todo = <<"next">>]
           ELSE NoJob
Goes(s, j) == job' = [job EXCEPT ![s] = Then(j)]
Passes(s) == Goes(s, [job[s] EXCEPT !.todo = Tail(@)])
Touches(p) == p.root = "usb" => usb

\* History: the call on case c that is about to trip in the folders cur and
\* tgt meets another: a call on a case of this name or in these folders, a
\* case whose row names them, or a workbook of another case in them.  A call
\* that meets none sets its case right.
Meets(s, c, cur, tgt) ==
  LET here == {cur, tgt} \ {None}
      calls == {C(z) : z \in {z \in Sessions \ {s} : C(z) # 0 /\
                  \/ Name(C(z)) = Name(c) /\ Base(C(z)) = Base(c)
                  \/ C(z) = c \/ {job[z].cur, Tgt(z)} \cap here # {}}}
      owners == {d \in Made \ {c} : case[d].path.at \in here}
      books == {disk[p].book.of : p \in here \cap DOMAIN disk} \ {0, c}
  IN astray' = IF calls \cup owners \cup books = {} THEN astray \ {c}
               ELSE astray \cup {c} \cup calls \cup owners

\* ensure_case_folder, its reads: the folder there is, or a new one.
Ensure(s) ==
  /\ Step(s, "ensure")
  /\ \E cur \in Found(C(s)) :
       LET tgt == IF cur # None THEN cur ELSE FreePath(C(s), cur)
       IN /\ Goes(s, [job[s] EXCEPT
               !.cur = cur, !.tgt = tgt, !.path = case[C(s)].path,
               !.todo = <<"book", "mark", "path", "file", "row">> \o Tail(@)])
          /\ Meets(s, C(s), cur, tgt)
  /\ UNCHANGED <<trip, caseDb, disk, usb, seen, root, clock, gathered>>

\* Variant: the marker is written before the row gets the new path.
Plan_fault(s) ==
  /\ Step(s, "plan")
  /\ \E cur \in Found(C(s)) :
       LET tgt == FreePath(C(s), cur)
       IN /\ Goes(s, [job[s] EXCEPT
               !.cur = cur, !.tgt = tgt, !.path = case[C(s)].path,
               !.todo = <<"move", "book", "mark", "path">> \o Tail(@)])
          /\ Meets(s, C(s), cur, tgt)
  /\ UNCHANGED <<trip, caseDb, disk, usb, seen, root, clock, gathered>>

\* sync_case_folder, its reads: where the folder is and where it belongs.
Plan(s) ==
  /\ Step(s, "plan")
  /\ \E cur \in Found(C(s)) :
       LET tgt == FreePath(C(s), cur)
       IN /\ Goes(s, [job[s] EXCEPT
               !.cur = cur, !.tgt = tgt, !.path = case[C(s)].path,
               !.todo = <<"move", "path", "book", "mark">> \o Tail(@)])
          /\ Meets(s, C(s), cur, tgt)
  /\ UNCHANGED <<trip, caseDb, disk, usb, seen, root, clock, gathered>>

\* shutil.move into a folder that is there puts the folder inside it.
Inside(p) == [p EXCEPT !.n = 0 - @]

\* Variant: a folder that is there by now is replaced.
Move_fault(s) ==
  /\ Step(s, "move") /\ Touches(Tgt(s))
  /\ LET cur == job[s].cur
         tgt == Tgt(s)
         to == tgt
     IN \/ /\ cur # None /\ cur \in Reached /\ cur # tgt
           /\ disk' = PutInto(Removed(disk, cur), to, disk[cur])
           /\ Goes(s, [job[s] EXCEPT !.moved = TRUE,
                                     !.todo = <<"rows">> \o Tail(@)])
        \/ /\ cur = None
           /\ disk' = PutInto(disk, tgt, Dir(tgt))
           /\ Passes(s)
        \/ /\ cur # None /\ (cur \notin Reached \/ cur = tgt)
           /\ Passes(s)
           /\ UNCHANGED disk
  /\ UNCHANGED <<trip, caseDb, usb, seen, root, clock, gathered, astray>>

\* The folder is moved, or made, or, when it is gone by now, neither.
Move(s) ==
  /\ Step(s, "move") /\ Touches(Tgt(s))
  /\ LET cur == job[s].cur
         tgt == Tgt(s)
         to == IF tgt \in Reached THEN Inside(tgt) ELSE tgt
     IN \/ /\ cur # None /\ cur \in Reached /\ cur # tgt
           /\ to \notin DOMAIN disk
           /\ disk' = PutInto(Removed(disk, cur), to, disk[cur])
           /\ Goes(s, [job[s] EXCEPT !.moved = TRUE,
                                     !.todo = <<"rows">> \o Tail(@)])
        \/ /\ cur = None
           /\ disk' = PutInto(disk, tgt, Dir(tgt))
           /\ Passes(s)
        \/ /\ cur # None /\ (cur \notin Reached \/ cur = tgt)
           /\ Passes(s)
           /\ UNCHANGED disk
  /\ UNCHANGED <<trip, caseDb, usb, seen, root, clock, gathered, astray>>

\* refresh_attachment_paths: a path that names the old folder in full.  A
\* path relative to the drive no longer resolves and is left as it is.
Moves(s) ==
  {r \in rows : r.case = C(s) /\ ~r.path.rel /\ r.path.at = job[s].cur}
Rows(s) ==
  /\ Step(s, "rows")
  /\ rows' = (rows \ Moves(s)) \cup
             {[r EXCEPT !.path = Stored(Tgt(s))] : r \in Moves(s)}
  /\ Passes(s)
  /\ UNCHANGED <<trip, case, disk, usb, seen, root, clock, gathered, astray>>

\* The row gets the new path, and its time, when the path read first differs.
Path(s) ==
  /\ Step(s, "path")
  /\ IF job[s].path = Stored(Tgt(s)) THEN UNCHANGED case
     ELSE case' = [case EXCEPT ![C(s)].path = Stored(Tgt(s)),
                               ![C(s)].stamp = clock]
  /\ Passes(s)
  /\ UNCHANGED <<trip, rows, disk, usb, seen, root, clock, gathered, astray>>

\* _prepare_folder up to the workbook: folders, and the workbook if needed.
Book(s) ==
  /\ Step(s, "book") /\ Touches(Tgt(s))
  /\ LET p == Tgt(s)
         d == PutInto(disk, p, Dir(p))
         due == \/ d[p].book = NoBook \/ NeedsBook(C(s), p, job[s].force)
     IN disk' = IF due
                THEN [d EXCEPT ![p].book = [data |-> case[C(s)].data,
                                            at |-> clock, of |-> C(s)]]
                ELSE d
  /\ Passes(s)
  /\ UNCHANGED <<trip, caseDb, usb, seen, root, clock, gathered, astray>>

\* write_case_marker: the fingerprint of what the database holds now.
Mark(s) ==
  /\ Step(s, "mark") /\ Touches(Tgt(s))
  /\ disk' = PutInto(disk, Tgt(s), [Dir(Tgt(s)) EXCEPT !.mark = C(s),
                                                       !.print = Stamped(C(s))])
  /\ Passes(s)
  /\ UNCHANGED <<trip, caseDb, usb, seen, root, clock, gathered, astray>>

\* save_uploaded_file: the bytes, then the row.
File(s) ==
  /\ Step(s, "file") /\ Touches(Tgt(s))
  /\ disk' = PutInto(disk, Tgt(s), [Dir(Tgt(s)) EXCEPT !.files = @ \cup {C(s)}])
  /\ Passes(s)
  /\ UNCHANGED <<trip, caseDb, usb, seen, root, clock, gathered, astray>>

NewRow(s) ==
  /\ Step(s, "row")
  /\ rows' = rows \cup {[case |-> C(s), path |-> Stored(Tgt(s))]}
  /\ Passes(s)
  /\ UNCHANGED <<trip, case, disk, usb, seen, root, clock, gathered, astray>>

\* The batch's next case: skipped when its folder is current, else synced
\* with a new workbook and copied.
NextCase(s) ==
  /\ Step(s, "next")
  /\ LET c == Head(job[s].rest)
         rest == Tail(job[s].rest)
     IN \E cur \in Found(c) :
          Goes(s, IF cur # None /\ Current(c, cur)
                  THEN [job[s] EXCEPT !.todo = <<>>, !.rest = rest]
                  ELSE [NoJob EXCEPT !.case = c, !.rest = rest, !.force = TRUE,
                                     !.todo = ToSync \o <<"gather">>])
  /\ UNCHANGED <<trip, caseDb, disk, usb, seen, root, clock, gathered, astray>>

\* copytree(dirs_exist_ok): into the gathering folder, under the bare name.
\* What a call is about to move from there is no longer its case's alone.
Gather(s) ==
  /\ Step(s, "gather") /\ Touches(Tgt(s)) /\ Tgt(s) \in DOMAIN disk
  /\ LET p == Place(Tgt(s).root, "gather", Tgt(s).name, Tgt(s).n)
         f == disk[Tgt(s)]
     IN /\ disk' = PutInto(disk, p, [f EXCEPT !.files = @ \cup Dir(p).files])
        /\ gathered' = gathered \cup {<<C(s), p>>}
        /\ astray' = astray \cup {C(z) : z \in {z \in Sessions \ {s} : job[z].cur = p}}
  /\ Passes(s)
  /\ UNCHANGED <<trip, caseDb, usb, seen, root, clock>>

\* The drive is gone, a file is held open, or the program ends: the call
\* stops where it is.  A batch goes on with its next case.
Stop(s) ==
  /\ job[s].todo # <<>> /\ C(s) # 0
  /\ \/ trip.stop /\ C(s) \notin astray
     \/ ~Touches(Tgt(s))
     \/ Step(s, "move") /\ Inside(Tgt(s)) \in DOMAIN disk
     \/ Step(s, "gather") /\ Tgt(s) \notin DOMAIN disk
  /\ astray' = astray \cup {C(s)}
  /\ \E left \in {<<>>} \cup (IF "file" \in Range(job[s].todo) THEN {ToSync} ELSE {}) :
       Goes(s, [job[s] EXCEPT !.todo = left])
  /\ UNCHANGED <<trip, caseDb, disk, usb, seen, root, clock, gathered>>
-----------------------------------------------------------------------------
(* The surroundings.                                                       *)
Plug ==
  /\ trip.usb
  /\ usb' = ~usb
  /\ UNCHANGED <<trip, caseDb, disk, seen, root, clock, job, gathered, astray>>

\* find_export_usb: the drives are looked through again after 5 seconds.
Look ==
  /\ trip.usb /\ seen # usb
  /\ seen' = usb
  /\ UNCHANGED <<trip, caseDb, disk, usb, root, clock, job, gathered, astray>>

SetRoot(r) ==
  /\ trip.root /\ root # r
  /\ root' = r
  /\ UNCHANGED <<trip, caseDb, disk, usb, seen, clock, job, gathered, astray>>

Tick ==
  /\ clock < trip.seconds
  /\ clock' = clock + 1
  /\ UNCHANGED <<trip, caseDb, disk, usb, seen, root, job, gathered, astray>>

User(s) ==
  \/ \E c \in CaseIds, b \in Bases, l \in trip.labels :
       \/ \E file \in BOOLEAN : Create(s, c, b, l, file)
       \/ Save(s, c, b, l)
  \/ \E c \in CaseIds : Cancel(s, c)
  \/ Batch(s)

Runs(s) ==
  \/ Ensure(s) \/ Plan(s) \/ Move(s) \/ Rows(s) \/ Path(s) \/ Book(s)
  \/ Mark(s) \/ File(s) \/ NewRow(s) \/ NextCase(s) \/ Gather(s)

FoldersNext ==
  \/ \E s \in Sessions : User(s) \/ Runs(s) \/ Stop(s)
  \/ Plug \/ Look \/ Tick
  \/ \E r \in {"", "disk"} : SetRoot(r)

FoldersSpec == FoldersInit /\ [][FoldersNext]_fileVars
-----------------------------------------------------------------------------
(* Properties.                                                             *)
AtRest == \A s \in Sessions : job[s] = NoJob

\* What a user put into a folder stays on some drive: no sync, however it
\* interleaves and wherever it stops, deletes or overwrites it.
FilesKept ==
  [][\A c \in CaseIds :
       (\E p \in DOMAIN disk : p.base # "gather" /\ c \in disk[p].files) =>
       (\E p \in DOMAIN disk' : p.base # "gather" /\ c \in disk'[p].files)]_fileVars

\* When every call has ended, the folder a case's row names is its own: it
\* is named for the case, marked for it with the present fingerprint, and
\* its workbook holds the present content, unless the case was saved in the
\* very second the workbook was written.  Excepted are cases whose last call
\* was stopped or worked in a folder another case or call was using; without
\* a stop, a second session and the drive there are none of these.
FoldersFollowCases ==
  AtRest =>
    /\ \A c \in Made \ astray :
         LET p == case[c].path.at
         IN /\ p \in DOMAIN disk /\ p.base = Base(c) /\ p.name = Name(c)
            /\ disk[p].mark = c /\ disk[p].print = Stamped(c)
            /\ \/ disk[p].book.data = case[c].data
               \/ disk[p].book.at = case[c].stamp
    /\ Cardinality(trip.sessions) = 1 /\ ~trip.stop /\ ~trip.usb => astray = {}
=============================================================================
