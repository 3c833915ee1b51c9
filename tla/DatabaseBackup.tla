--------------------------- MODULE DatabaseBackup ---------------------------
(****************************************************************************)
(* Database backups (services/database_backup.py): the worker thread of the  *)
(* process, browser sessions that change the Google Drive folder or ask for  *)
(* a backup at once, and the state file they share, which is read and        *)
(* rewritten as a whole without a lock.                                      *)
(*                                                                           *)
(* Time is kept as ages: how many clock ticks ago something was done, up to  *)
(* Interval, at which it is due again.                                       *)
(****************************************************************************)
EXTENDS Integers, Sequences, SequencesExt

CONSTANTS
  Worker,       \* the backup thread
  Users,        \* browser sessions
  Roots,        \* folders a user may choose for Google Drive
  Local, None,
  NumDbs,       \* the number of _BACKUP_TARGETS
  Interval,     \* BACKUP_INTERVAL in ticks
  MaxBackups,   \* MAX_BACKUPS
  MaxFiles      \* bound: a failed copy leaves a file behind only below this many

ASSUME BackupConstants ==
  /\ Worker \notin Users /\ Local \notin Roots /\ None \notin Roots \cup {Local}
  /\ {NumDbs, Interval, MaxBackups} \subseteq Nat \ {0} /\ MaxFiles \in Nat

Processes == {Worker} \cup Users
Dirs == {Local} \cup Roots
Never == -1
Times == {Never} \cup 0 .. Interval

VARIABLES
  file,      \* .backup_state.json
  backups,   \* the files of each directory and database, in order of modification
  call,      \* what each process is doing
  wait,      \* the worker's: how long ago its last run ended
  trouble    \* copies and writes may fail now, and the process may end

vars == <<file, backups, call, wait, trouble>>

(* A definition named X_y is not part of the specification: it is X with the *)
(* fault y, and shows that a property would notice that fault.               *)

(* A set that is recorded now is never judged by the keys earlier versions   *)
(* wrote for each database: they are left out.                               *)
Blank == [root |-> None, local |-> Never, drive |-> Never]
Idle == [pc |-> "idle", age |-> 0, snap |-> Blank, dir |-> None, next |-> 1, ok |-> TRUE]

Init ==
  /\ file = Blank
  /\ backups = [d \in Dirs |-> [i \in 1 .. NumDbs |-> << >>]]
  /\ call = [p \in Processes |-> Idle]
  /\ wait = Interval /\ trouble = FALSE

At(p, pc) == call[p].pc = pc
Goto(p, c) == call' = [call EXCEPT ![p] = c] /\ UNCHANGED wait
(* The worker waits for an hour from the end of a run. *)
End(p) == call' = [call EXCEPT ![p] = Idle] /\ wait' = IF p = Worker THEN 0 ELSE wait

(* _pair_is_due *)
Due_recorded(t) == t = Interval
Due(t) == t \in {Never, Interval}

-----------------------------------------------------------------------------
(* run_due_backups: the state is read once, the folder once more before the  *)
(* Drive backup.                                                             *)
WorkerReads ==
  /\ At(Worker, "idle") /\ wait = Interval
  /\ LET c == [Idle EXCEPT !.snap = file]
     IN  Goto(Worker, IF Due(file.local) THEN [c EXCEPT !.pc = "copy", !.dir = Local]
                                                       ELSE [c EXCEPT !.pc = "root"])
  /\ UNCHANGED <<file, backups, trouble>>

DriveDue(c) == file.root # None /\ Due(c.snap.drive)

WorkerReadsRoot ==
  /\ At(Worker, "root")
  /\ LET c == call[Worker]
     IN  Goto(Worker, IF DriveDue(c)
                      THEN [c EXCEPT !.pc = "copy", !.dir = file.root]
                      ELSE [Idle EXCEPT !.pc = "write", !.snap = c.snap])
  /\ UNCHANGED <<file, backups, trouble>>

(* backup_to_google_drive_now: the folder is read, then the state.           *)
UserAsks(u) ==
  /\ At(u, "idle") /\ file.root # None
  /\ Goto(u, [Idle EXCEPT !.pc = "state", !.dir = file.root])
  /\ UNCHANGED <<file, backups, trouble>>

UserReads(u) ==
  /\ At(u, "state")
  /\ Goto(u, [call[u] EXCEPT !.pc = "copy", !.snap = file])
  /\ UNCHANGED <<file, backups, trouble>>

(* set_google_drive_root: a folder that was not the one before is due.       *)
UserSetsRoot(u, r) ==
  /\ At(u, "idle")
  /\ LET kept == IF file.root = r THEN file ELSE [file EXCEPT !.drive = Never]
     IN  Goto(u, [Idle EXCEPT !.pc = "write", !.snap = [kept EXCEPT !.root = r]])
  /\ UNCHANGED <<file, backups, trouble>>

-----------------------------------------------------------------------------
(* _backup_to: the copy is the newest file of its directory, of which the    *)
(* last MAX_BACKUPS are kept; a copy that fails may leave what it wrote.     *)
Whole == [age |-> 0, whole |-> TRUE]
Partial == [age |-> Interval, whole |-> FALSE]
Kept(fs) == SubSeq(fs, IF Len(fs) < MaxBackups THEN 1 ELSE Len(fs) - MaxBackups + 1, Len(fs))
Remains(p) ==
  LET fs == backups[call[p].dir][call[p].next]
  IN  Len(fs) < MaxFiles /\ backups' = [backups EXCEPT ![call[p].dir][call[p].next] =
                                          Append(fs, Partial)]

(* A set counts only if every database was copied.                           *)
Recorded_always(c) ==
  IF c.dir = Local THEN [c.snap EXCEPT !.local = c.age]
  ELSE [c.snap EXCEPT !.drive = c.age]
Recorded(c) ==
  IF ~c.ok THEN c.snap
  ELSE IF c.dir = Local THEN [c.snap EXCEPT !.local = c.age]
  ELSE [c.snap EXCEPT !.drive = c.age]

(* _backup_pair: a database that fails does not stop the others.             *)
Advance(p, ok) ==
  LET c == [call[p] EXCEPT !.ok = @ /\ ok, !.next = @ + 1]
      then(pc) == [Idle EXCEPT !.pc = pc, !.snap = Recorded(c),
                               !.age = IF pc = "root" THEN c.age ELSE 0]
  IN  IF c.next <= NumDbs THEN Goto(p, c)
      ELSE IF c.dir = Local THEN Goto(p, then("root"))
      ELSE IF p = Worker \/ c.ok THEN Goto(p, then("write"))
      ELSE End(p)

Copy(p) ==
  /\ At(p, "copy")
  /\ backups' = [backups EXCEPT ![call[p].dir][call[p].next] = Kept(Append(@, Whole))]
  /\ Advance(p, TRUE)
  /\ UNCHANGED <<file, trouble>>

CopyFails(p) ==
  /\ At(p, "copy") /\ trouble
  /\ UNCHANGED backups \/ Remains(p)
  /\ Advance(p, FALSE)
  /\ UNCHANGED <<file, trouble>>

-----------------------------------------------------------------------------
(* _write_state empties the file and then fills it: in between it reads as   *)
(* if there were no state.                                                   *)
Empty(p) ==
  /\ At(p, "write")
  /\ file' = Blank /\ Goto(p, [call[p] EXCEPT !.pc = "fill"])
  /\ UNCHANGED <<backups, trouble>>

(* If another process filled it since, a shorter text leaves the end of the  *)
(* longer behind it, and the whole cannot be parsed.                         *)
Fill(p) ==
  /\ At(p, "fill")
  /\ file' = call[p].snap \/ (file # Blank /\ file' = Blank)
  /\ End(p)
  /\ UNCHANGED <<backups, trouble>>

(* _run_and_record reports the error and goes on; a page shows it.           *)
WriteFails(p) ==
  /\ call[p].pc \in {"write", "fill"} /\ trouble
  /\ End(p)
  /\ UNCHANGED <<file, backups, trouble>>

-----------------------------------------------------------------------------
Older(t) == IF t \in 0 .. Interval - 1 THEN t + 1 ELSE t
OlderState(s) == [s EXCEPT !.local = Older(@), !.drive = Older(@)]

Tick ==
  /\ file' = OlderState(file)
  /\ backups' = [d \in Dirs |-> [i \in 1 .. NumDbs |->
                   [n \in DOMAIN backups[d][i] |-> [backups[d][i][n] EXCEPT !.age = Older(@)]]]]
  /\ call' = [p \in Processes |-> [call[p] EXCEPT !.snap = OlderState(@),
                !.age = IF At(p, "root") \/ At(p, "copy") THEN Older(@) ELSE @]]
  /\ wait' = Older(wait)
  /\ UNCHANGED trouble

(* The disk, the Drive folder or a database becomes unusable, or usable.     *)
Toggle == trouble' = ~trouble /\ UNCHANGED <<file, backups, call, wait>>

(* The process ends, perhaps in the middle of a copy; start_backup_worker    *)
(* makes a new worker, which runs at once.                                   *)
Restart ==
  /\ trouble
  /\ UNCHANGED backups \/ \E p \in Processes : At(p, "copy") /\ Remains(p)
  /\ call' = [p \in Processes |-> Idle] /\ wait' = Interval
  /\ UNCHANGED <<file, trouble>>

Step(p) == Copy(p) \/ CopyFails(p) \/ Empty(p) \/ Fill(p) \/ WriteFails(p)
WorkerStep == WorkerReads \/ WorkerReadsRoot \/ Step(Worker)
UserStep(u) == UserAsks(u) \/ UserReads(u) \/ (\E r \in Roots : UserSetsRoot(u, r)) \/ Step(u)

Next == WorkerStep \/ (\E u \in Users : UserStep(u)) \/ Tick \/ Toggle \/ Restart

(* The worker thread is scheduled, and time passes.                          *)
Spec == Init /\ [][Next]_vars /\ WF_vars(WorkerStep) /\ WF_vars(Tick)

-----------------------------------------------------------------------------
(* Properties.                                                               *)

States == [root : Roots \cup {None}, local : Times, drive : Times]
Calls == [pc : {"idle", "root", "state", "copy", "write", "fill"}, age : 0 .. Interval,
          snap : States, dir : Dirs \cup {None}, next : 1 .. NumDbs, ok : BOOLEAN]
Files == [age : 0 .. Interval, whole : BOOLEAN]

(* Every variable has its type: a process that copies has a directory, and   *)
(* only the worker copies to the local one.                                  *)
TypeOK ==
  /\ file \in States /\ backups \in [Dirs -> [1 .. NumDbs -> Seq(Files)]]
  /\ call \in [Processes -> Calls] /\ wait \in 0 .. Interval
  /\ trouble \in BOOLEAN
  /\ \A p \in Processes : At(p, "copy") => call[p].dir \in (IF p = Worker THEN Dirs ELSE Roots)

(* A directory holds a set of whole copies that are at most t old.           *)
HasSet(d, t) ==
  \A i \in 1 .. NumDbs : \E n \in DOMAIN backups[d][i] : backups[d][i][n].whole /\ backups[d][i][n].age <= t

(* "Only if all succeeded is the set recorded as complete": the times in the *)
(* state file are never later than that of a whole set, in the local         *)
(* directory and in some folder of the Google Drive, whoever writes the file *)
(* from whatever it read, and whatever old files are removed.                *)
RecordedSetsExist ==
  /\ file.local # Never => HasSet(Local, file.local)
  /\ file.drive # Never => \E r \in Roots : HasSet(r, file.drive)

(* Once copies stop failing, every database is copied to the local directory *)
(* again and again: no error, lost or torn state file, restart or user stops *)
(* the hourly backup.                                                        *)
BackupsRecur ==
  (<>[]~trouble) =>
    \A i \in 1 .. NumDbs : []<>(\E n \in DOMAIN backups[Local][i] : backups[Local][i][n] = Whole)
=============================================================================
