------------------------ MODULE DatabaseBackupProofs ------------------------
(****************************************************************************)
(* What a time recorded in .backup_state.json says is true, for any number   *)
(* of users, folders and databases, whatever fails and whenever the process  *)
(* ends.  The state file alone does not carry the argument: the snapshots    *)
(* that running calls will write back must be true as well, and a call that  *)
(* copies must have the copies it has made so far.                           *)
(****************************************************************************)
EXTENDS DatabaseBackup, SequenceTheorems, TLAPS

(* In the files b: directory d has a whole copy of database i that is at     *)
(* most t old; a whole set; and what the state s records is there.           *)
CopyIn(b, d, i, t) == \E n \in DOMAIN b[d][i] : b[d][i][n].whole /\ b[d][i][n].age <= t
SetIn(b, d, t) == \A i \in 1 .. NumDbs : CopyIn(b, d, i, t)
TrueIn(b, s) ==
  /\ s.local # Never => SetIn(b, Local, s.local)
  /\ s.drive # Never => \E r \in Roots : SetIn(b, r, s.drive)
(* A call that has copied without a failure has the databases it has passed. *)
MadeIn(b, c) == c.pc = "copy" /\ c.ok => \A i \in 1 .. c.next - 1 : CopyIn(b, c.dir, i, c.age)

(* A call that will copy has not begun, and a user's knows its folder.       *)
Located ==
  \A p \in Processes :
    /\ At(p, "state") => call[p].dir \in Roots
    /\ call[p].pc \in {"root", "state"} => call[p].next = 1

(* The inductive invariant.                                                  *)
RecordsTrue ==
  /\ TypeOK /\ Located
  /\ TrueIn(backups, file)
  /\ \A p \in Processes : TrueIn(backups, call[p].snap) /\ MadeIn(backups, call[p])

Stores == [Dirs -> [1 .. NumDbs -> Seq(Files)]]
(* No file that counts is lost from a to b.                                  *)
Kept1(a, b) == \A d \in Dirs, i \in 1 .. NumDbs, t \in 0 .. Interval :
                 CopyIn(a, d, i, t) => CopyIn(b, d, i, t)

USE DEF Never

LEMMA Numbers ==
  /\ NumDbs \in Nat /\ NumDbs >= 1 /\ 1 \in 1 .. NumDbs
  /\ Interval \in Nat /\ Interval >= 1 /\ 0 \in 0 .. Interval /\ Interval \in 0 .. Interval
  /\ MaxBackups \in Nat /\ MaxBackups >= 1
BY BackupConstants

LEMMA BlankTrue ==
  /\ Blank \in States /\ Idle \in Calls
  /\ \A b : TrueIn(b, Blank) /\ TrueIn(b, Idle.snap) /\ MadeIn(b, Idle)
  /\ Idle.pc = "idle"
BY BackupConstants DEF Blank, Idle, States, Calls, Times, TrueIn, MadeIn, Dirs

(* What was true of the files stays true while none that counts is lost.     *)
LEMMA TrueKept ==
  ASSUME NEW a \in Stores, NEW b \in Stores, Kept1(a, b), NEW s \in States, TrueIn(a, s)
  PROVE  TrueIn(b, s)
<1>1. /\ s.local # Never => s.local \in 0 .. Interval
      /\ s.drive # Never => s.drive \in 0 .. Interval
  BY DEF States, Times
<1>2. \A d \in Dirs, t \in 0 .. Interval : SetIn(a, d, t) => SetIn(b, d, t)
  BY DEF Kept1, SetIn
<1> QED BY <1>1, <1>2 DEF TrueIn, Dirs

LEMMA MadeKept ==
  ASSUME NEW a \in Stores, NEW b \in Stores, Kept1(a, b),
         NEW c \in Calls, c.pc = "copy" => c.dir \in Dirs, MadeIn(a, c)
  PROVE  MadeIn(b, c)
<1>1. c.age \in 0 .. Interval /\ c.next \in 1 .. NumDbs
  BY DEF Calls
<1>2. \A i \in 1 .. c.next - 1 : i \in 1 .. NumDbs
  BY <1>1, BackupConstants
<1> QED BY <1>1, <1>2 DEF MadeIn, Kept1

(* After a copy the newest file is whole and new; those before it only went  *)
(* where MAX_BACKUPS was exceeded.                                           *)
LEMMA KeptFacts ==
  ASSUME NEW fs \in Seq(Files)
  PROVE  /\ Kept(Append(fs, Whole)) \in Seq(Files)
         /\ \E n \in DOMAIN Kept(Append(fs, Whole)) : Kept(Append(fs, Whole))[n] = Whole
<1> DEFINE s == Append(fs, Whole)
           m == IF Len(s) < MaxBackups THEN 1 ELSE Len(s) - MaxBackups + 1
<1>1. Whole \in Files
  BY BackupConstants DEF Whole, Files
<1>2. s \in Seq(Files) /\ Len(s) = Len(fs) + 1 /\ s[Len(s)] = Whole /\ Len(fs) \in Nat
  BY <1>1, AppendProperties, LenProperties
<1> HIDE DEF s
<1>3. m \in 1 .. Len(s) /\ m \in Int /\ Len(s) \in Int
  BY <1>2, BackupConstants
<1>4. \A i \in m .. Len(s) : s[i] \in Files
  BY <1>2, <1>3, ElementOfSeq
<1>5. Kept(s) = SubSeq(s, m, Len(s))
  BY DEF Kept
<1> HIDE DEF m
<1>6. /\ Kept(s) \in Seq(Files)
      /\ Len(Kept(s)) = Len(s) - m + 1
      /\ \A i \in 1 .. Len(s) - m + 1 : Kept(s)[i] = s[m + i - 1]
  BY <1>3, <1>4, <1>5, SubSeqProperties
<1>7. Len(s) - m + 1 \in DOMAIN Kept(s) /\ m + (Len(s) - m + 1) - 1 = Len(s)
  BY <1>3, <1>6, LenProperties
<1>8. Kept(s)[Len(s) - m + 1] = Whole
  <2>1. Len(s) - m + 1 \in 1 .. Len(s) - m + 1
    BY <1>3
  <2> QED BY <1>2, <1>6, <1>7, <2>1
<1> QED BY <1>6, <1>7, <1>8 DEF s

(* A copy that fails may leave a file: it is put behind the others.          *)
LEMMA RemainsKeeps ==
  ASSUME TypeOK, NEW p \in Processes, call[p].dir \in Dirs, Remains(p)
  PROVE  backups' \in Stores /\ Kept1(backups, backups')
<1> DEFINE d == call[p].dir
           i == call[p].next
           fs == backups[d][i]
<1>0. call[p] \in Calls /\ backups \in [Dirs -> [1 .. NumDbs -> Seq(Files)]]
  BY DEF TypeOK
<1>1. i \in 1 .. NumDbs /\ fs \in Seq(Files) /\ Partial \in Files
  <2>1. i \in 1 .. NumDbs
    BY <1>0 DEF Calls
  <2> QED BY <1>0, <2>1, Numbers DEF Partial, Files
<1>2. backups' = [backups EXCEPT ![d][i] = Append(fs, Partial)]
  BY DEF Remains
<1>3. /\ Append(fs, Partial) \in Seq(Files) /\ Len(fs) \in Nat
      /\ DOMAIN Append(fs, Partial) = 1 .. Len(fs) + 1 /\ DOMAIN fs = 1 .. Len(fs)
      /\ \A n \in 1 .. Len(fs) : Append(fs, Partial)[n] = fs[n]
  BY <1>1, AppendProperties, LenProperties
<1>4. backups' \in Stores
  BY <1>1, <1>2, <1>3 DEF TypeOK, Stores
<1>5. ASSUME NEW e \in Dirs, NEW j \in 1 .. NumDbs, NEW t, CopyIn(backups, e, j, t)
      PROVE  CopyIn(backups', e, j, t)
  <2>1. CASE e = d /\ j = i
    <3>1. backups'[e][j] = Append(fs, Partial)
      BY <1>0, <1>1, <1>2, <2>1
    <3>2. PICK n \in DOMAIN fs : fs[n].whole /\ fs[n].age <= t
      BY <1>5, <2>1 DEF CopyIn
    <3>3. n \in 1 .. Len(fs) + 1 /\ Append(fs, Partial)[n] = fs[n]
      BY <1>3
    <3> QED BY <1>3, <3>1, <3>2, <3>3 DEF CopyIn
  <2>2. CASE ~(e = d /\ j = i)
    <3>1. backups'[e][j] = backups[e][j]
      BY <1>2, <2>2 DEF TypeOK
    <3> QED BY <1>5, <3>1 DEF CopyIn
  <2> QED BY <2>1, <2>2
<1> QED BY <1>4, <1>5 DEF Kept1

(* A copy makes the newest file of its database.                             *)
LEMMA CopyKeeps ==
  ASSUME TypeOK, NEW p \in Processes, At(p, "copy"),
         backups' = [backups EXCEPT ![call[p].dir][call[p].next] = Kept(Append(@, Whole))]
  PROVE  /\ backups' \in Stores /\ Kept1(backups, backups')
         /\ \A t \in 0 .. Interval : CopyIn(backups', call[p].dir, call[p].next, t)
<1> DEFINE d == call[p].dir
           i == call[p].next
           new == Kept(Append(backups[d][i], Whole))
<1>1. d \in Dirs /\ i \in 1 .. NumDbs /\ backups[d][i] \in Seq(Files)
  BY DEF TypeOK, Calls, Dirs
<1>2. new \in Seq(Files) /\ \E n \in DOMAIN new : new[n] = Whole
  BY <1>1, KeptFacts
<1>3. backups' = [backups EXCEPT ![d][i] = new]
  OBVIOUS
<1> HIDE DEF new
<1>4. backups' \in Stores /\ backups'[d][i] = new
  <2>1. backups \in [Dirs -> [1 .. NumDbs -> Seq(Files)]]
    BY DEF TypeOK
  <2> HIDE DEF d, i
  <2>2. backups' = [backups EXCEPT ![d] = [backups[d] EXCEPT ![i] = new]]
    BY <1>1, <1>3, <2>1
  <2>3. [backups[d] EXCEPT ![i] = new] \in [1 .. NumDbs -> Seq(Files)]
    BY <1>1, <1>2, <2>1
  <2>4. backups'[d] = [backups[d] EXCEPT ![i] = new]
    BY <1>1, <2>1, <2>2
  <2>5. backups' \in Stores
    BY <1>1, <2>1, <2>2, <2>3 DEF Stores
  <2> QED BY <1>1, <2>1, <2>4, <2>5
<1>5. \A t \in 0 .. Interval : CopyIn(backups', d, i, t)
  BY <1>2, <1>4 DEF CopyIn, Whole
<1>6. ASSUME NEW e \in Dirs, NEW j \in 1 .. NumDbs, NEW t \in 0 .. Interval,
             CopyIn(backups, e, j, t)
      PROVE  CopyIn(backups', e, j, t)
  <2>1. CASE e = d /\ j = i
    BY <1>5, <2>1
  <2>2. CASE ~(e = d /\ j = i)
    <3>1. backups'[e][j] = backups[e][j]
      BY <1>1, <1>3, <2>2 DEF TypeOK
    <3> QED BY <1>6, <3>1 DEF CopyIn
  <2> QED BY <2>1, <2>2
<1> QED BY <1>4, <1>5, <1>6 DEF Kept1

(* When the files keep what counts, what is recorded or about to be stays    *)
(* true of the state file and of every call.                                 *)
LEMMA OthersKept ==
  ASSUME RecordsTrue, backups' \in Stores, Kept1(backups, backups')
  PROVE  /\ TrueIn(backups', file)
         /\ \A p \in Processes : TrueIn(backups', call[p].snap) /\ MadeIn(backups', call[p])
<1>1. backups \in Stores /\ file \in States
  BY DEF RecordsTrue, TypeOK, Stores
<1>2. \A p \in Processes : /\ call[p] \in Calls /\ call[p].snap \in States
                           /\ call[p].pc = "copy" => call[p].dir \in Dirs
  BY DEF RecordsTrue, TypeOK, Calls, At, Dirs
<1>3. TrueIn(backups', file)
  BY <1>1, TrueKept DEF RecordsTrue
<1>4. ASSUME NEW p \in Processes
      PROVE  TrueIn(backups', call[p].snap) /\ MadeIn(backups', call[p])
  <2>1. TrueIn(backups', call[p].snap)
    BY <1>1, <1>2, TrueKept DEF RecordsTrue
  <2>2. MadeIn(backups', call[p])
    BY <1>1, <1>2, MadeKept DEF RecordsTrue
  <2> QED BY <2>1, <2>2
<1> QED BY <1>3, <1>4

-----------------------------------------------------------------------------
(* A call goes on as c: what has to hold of c.                               *)
Sound(p, c) ==
  /\ c \in Calls
  /\ c.pc = "copy" => c.dir \in (IF p = Worker THEN Dirs ELSE Roots)
  /\ c.pc = "state" => c.dir \in Roots
  /\ c.pc \in {"root", "state"} => c.next = 1

LEMMA CallGoesOn ==
  ASSUME RecordsTrue, NEW p \in Processes, NEW c, Sound(p, c),
         TrueIn(backups', c.snap), MadeIn(backups', c),
         call' = [call EXCEPT ![p] = c], wait' \in 0 .. Interval, trouble' = trouble,
         file' \in States, TrueIn(backups', file'),
         backups' \in Stores, Kept1(backups, backups')
  PROVE  RecordsTrue'
<1>1. \A q \in Processes : TrueIn(backups', call[q].snap) /\ MadeIn(backups', call[q])
  BY OthersKept
<1>2. /\ call \in [Processes -> Calls] /\ call' \in [Processes -> Calls]
      /\ \A q \in Processes : call'[q] = IF q = p THEN c ELSE call[q]
  BY DEF RecordsTrue, TypeOK, Sound
<1>3. /\ \A q \in Processes : At(q, "copy")' => call'[q].dir \in (IF q = Worker THEN Dirs ELSE Roots)
      /\ Located'
  BY <1>2 DEF At, Sound, RecordsTrue, TypeOK, Located
<1>4. TypeOK'
  BY <1>2, <1>3 DEF RecordsTrue, TypeOK, Stores
<1>5. \A q \in Processes : TrueIn(backups', call'[q].snap) /\ MadeIn(backups', call'[q])
  BY <1>1, <1>2
<1> QED BY <1>3, <1>4, <1>5 DEF RecordsTrue

(* A call that does not touch the files.                                     *)
LEMMA CallReads ==
  ASSUME RecordsTrue, NEW p \in Processes, NEW c, Sound(p, c),
         TrueIn(backups, c.snap), MadeIn(backups, c),
         call' = [call EXCEPT ![p] = c], wait' \in 0 .. Interval,
         UNCHANGED <<backups, trouble>>, file' \in States, TrueIn(backups, file')
  PROVE  RecordsTrue'
<1>1. backups' \in Stores /\ Kept1(backups, backups')
  BY DEF RecordsTrue, TypeOK, Stores, Kept1
<1> QED BY <1>1, CallGoesOn

LEMMA CallEnds ==
  ASSUME RecordsTrue, NEW p \in Processes, End(p),
         UNCHANGED <<backups, trouble>>, file' \in States, TrueIn(backups, file')
  PROVE  RecordsTrue'
<1>1. Sound(p, Idle) /\ TrueIn(backups, Idle.snap) /\ MadeIn(backups, Idle)
  BY BlankTrue DEF Sound
<1>2. wait' \in 0 .. Interval /\ call' = [call EXCEPT ![p] = Idle]
  BY BackupConstants DEF End, RecordsTrue, TypeOK
<1> QED BY <1>1, <1>2, CallReads

-----------------------------------------------------------------------------
(* The worker takes the state it reads with it, and the user does.           *)
LEMMA ReadsKeep ==
  ASSUME RecordsTrue,
         WorkerReads \/ WorkerReadsRoot
         \/ \E u \in Users : UserAsks(u) \/ UserReads(u) \/ \E r \in Roots : UserSetsRoot(u, r)
  PROVE  RecordsTrue'
<1>1. /\ file \in States /\ TrueIn(backups, file) /\ 1 \in 1 .. NumDbs
      /\ wait \in 0 .. Interval /\ 0 \in 0 .. Interval
      /\ \A p \in Processes : /\ call[p] \in Calls /\ call[p].snap \in States
                              /\ TrueIn(backups, call[p].snap)
      /\ Worker \in Processes /\ Users \subseteq Processes /\ Local \in Dirs
      /\ Roots \subseteq Dirs /\ file.root \in Roots \cup {None} /\ None \notin Roots
  BY BackupConstants DEF RecordsTrue, TypeOK, Calls, States, Processes, Dirs
<1>2. Idle \in Calls /\ Idle.next = 1 /\ TrueIn(backups, Idle.snap)
  BY BlankTrue DEF Idle
(* A call that has copied nothing yet.                                       *)
<1>3. ASSUME NEW p \in Processes, NEW c \in Calls, c.next = 1, TrueIn(backups, c.snap),
             c.pc = "copy" => c.dir \in (IF p = Worker THEN Dirs ELSE Roots),
             c.pc = "state" => c.dir \in Roots,
             Goto(p, c), UNCHANGED <<file, backups, trouble>>
      PROVE  RecordsTrue'
  <2>1. Sound(p, c) /\ MadeIn(backups, c)
    BY <1>3 DEF Sound, MadeIn
  <2> QED BY <1>1, <1>3, <2>1, CallReads DEF Goto
<1>4. CASE WorkerReads
  <2>1. CASE Due(file.local)
    <3> DEFINE c == [Idle EXCEPT !.snap = file, !.pc = "copy", !.dir = Local]
    <3>1. Goto(Worker, c) /\ UNCHANGED <<file, backups, trouble>>
      BY <1>4, <2>1 DEF WorkerReads
    <3>2. c \in Calls /\ c.next = 1 /\ c.snap = file /\ c.pc = "copy" /\ c.dir = Local
      BY <1>1, <1>2 DEF Calls
    <3> HIDE DEF c
    <3> QED BY <1>1, <1>3, <3>1, <3>2
  <2>2. CASE ~Due(file.local)
    <3> DEFINE c == [Idle EXCEPT !.snap = file, !.pc = "root"]
    <3>1. Goto(Worker, c) /\ UNCHANGED <<file, backups, trouble>>
      BY <1>4, <2>2 DEF WorkerReads
    <3>2. c \in Calls /\ c.next = 1 /\ c.snap = file /\ c.pc = "root"
      BY <1>1, <1>2 DEF Calls
    <3> HIDE DEF c
    <3> QED BY <1>1, <1>3, <3>1, <3>2
  <2> QED BY <2>1, <2>2
<1>5. CASE WorkerReadsRoot
  <2>0. call[Worker].next = 1
    BY <1>1, <1>5 DEF WorkerReadsRoot, RecordsTrue, Located, At
  <2>1. CASE DriveDue(call[Worker])
    <3> DEFINE c == [call[Worker] EXCEPT !.pc = "copy", !.dir = file.root]
    <3>1. Goto(Worker, c) /\ UNCHANGED <<file, backups, trouble>> /\ file.root \in Roots
      BY <1>1, <1>5, <2>1 DEF WorkerReadsRoot, DriveDue
    <3>2. /\ c \in Calls /\ c.next = 1 /\ c.snap = call[Worker].snap
          /\ c.pc = "copy" /\ c.dir = file.root
      BY <1>1, <2>0, <3>1 DEF Calls
    <3> HIDE DEF c
    <3> QED BY <1>1, <1>3, <3>1, <3>2
  <2>2. CASE ~DriveDue(call[Worker])
    <3> DEFINE s == call[Worker].snap
               c == [Idle EXCEPT !.pc = "write", !.snap = s]
    <3>1. Goto(Worker, c) /\ UNCHANGED <<file, backups, trouble>>
      BY <1>5, <2>2 DEF WorkerReadsRoot
    <3> HIDE DEF s
    <3>2. s \in States /\ TrueIn(backups, s)
      BY <1>1 DEF s
    <3>3. c \in Calls /\ c.next = 1 /\ c.snap = s /\ c.pc = "write"
      BY <1>1, <1>2, <3>2 DEF Calls
    <3> HIDE DEF c
    <3> QED BY <1>1, <1>3, <3>1, <3>2, <3>3
  <2> QED BY <2>1, <2>2
<1>6. ASSUME NEW u \in Users, UserAsks(u)
      PROVE  RecordsTrue'
  <2> DEFINE c == [Idle EXCEPT !.pc = "state", !.dir = file.root]
  <2>1. Goto(u, c) /\ UNCHANGED <<file, backups, trouble>> /\ file.root \in Roots
    BY <1>1, <1>6 DEF UserAsks
  <2>2. c \in Calls /\ c.next = 1 /\ c.snap = Idle.snap /\ c.pc = "state" /\ c.dir = file.root
    BY <1>1, <1>2, <2>1 DEF Calls
  <2> HIDE DEF c
  <2> QED BY <1>1, <1>2, <1>3, <2>1, <2>2
<1>7. ASSUME NEW u \in Users, UserReads(u)
      PROVE  RecordsTrue'
  <2> DEFINE c == [call[u] EXCEPT !.pc = "copy", !.snap = file]
  <2>1. /\ Goto(u, c) /\ UNCHANGED <<file, backups, trouble>>
        /\ call[u].pc = "state" /\ u \in Processes
    BY <1>1, <1>7 DEF UserReads, At
  <2>3. call[u].next = 1 /\ call[u].dir \in Roots
    <3>1. Located
      BY DEF RecordsTrue
    <3> QED BY <2>1, <3>1 DEF Located, At
  <2>2. /\ c \in Calls /\ c.next = 1 /\ c.snap = file /\ c.pc = "copy" /\ c.dir \in Roots
    BY <1>1, <2>1, <2>3 DEF Calls
  <2> HIDE DEF c
  <2> QED BY <1>1, <1>3, <2>1, <2>2
<1>8. ASSUME NEW u \in Users, NEW r \in Roots, UserSetsRoot(u, r)
      PROVE  RecordsTrue'
  <2> DEFINE kept == IF file.root = r THEN file ELSE [file EXCEPT !.drive = Never]
             s == [kept EXCEPT !.root = r]
             c == [Idle EXCEPT !.pc = "write", !.snap = s]
  <2>1. Goto(u, c) /\ UNCHANGED <<file, backups, trouble>>
    BY <1>8 DEF UserSetsRoot
  <2>2. s \in States /\ s.local = file.local /\ s.drive \in {Never, file.drive}
    BY <1>1 DEF States, Times
  <2> HIDE DEF s
  <2>3. TrueIn(backups, s)
    BY <1>1, <2>2 DEF TrueIn
  <2>4. c \in Calls /\ c.next = 1 /\ c.snap = s /\ c.pc = "write"
    BY <1>1, <1>2, <2>2 DEF Calls
  <2> HIDE DEF c
  <2> QED BY <1>1, <1>3, <2>1, <2>2, <2>3, <2>4
<1> QED BY <1>4, <1>5, <1>6, <1>7, <1>8

-----------------------------------------------------------------------------
(* A copy, or one that failed: the set that a call records as complete is    *)
(* there, because none of its copies failed and nothing has taken one away.  *)
LEMMA AdvanceKeeps ==
  ASSUME RecordsTrue, NEW p \in Processes, At(p, "copy"), NEW ok \in BOOLEAN, Advance(p, ok),
         backups' \in Stores, Kept1(backups, backups'), UNCHANGED <<file, trouble>>,
         ok => CopyIn(backups', call[p].dir, call[p].next, call[p].age)
  PROVE  RecordsTrue'
<1> DEFINE c == [call[p] EXCEPT !.ok = @ /\ ok, !.next = @ + 1]
<1>1. /\ call[p] \in Calls /\ call[p].next \in 1 .. NumDbs /\ call[p].age \in 0 .. Interval
      /\ call[p].snap \in States /\ call[p].dir \in (IF p = Worker THEN Dirs ELSE Roots)
      /\ call[p].pc = "copy" /\ wait \in 0 .. Interval /\ file \in States
  BY DEF RecordsTrue, TypeOK, Calls, At
<1>2. TrueIn(backups', file) /\ TrueIn(backups', call[p].snap) /\ MadeIn(backups', call[p])
  BY OthersKept
<1>3. /\ c.pc = "copy" /\ c.age = call[p].age /\ c.snap = call[p].snap /\ c.dir = call[p].dir
      /\ c.next = call[p].next + 1 /\ c.ok = (call[p].ok /\ ok)
      /\ c.next <= NumDbs => c \in Calls
  <2>1. call[p].ok \in BOOLEAN /\ (call[p].ok /\ ok) \in BOOLEAN
    BY <1>1 DEF Calls
  <2>2. call[p].next \in Nat /\ (call[p].next + 1 <= NumDbs => call[p].next + 1 \in 1 .. NumDbs)
    BY <1>1, Numbers
  <2> QED BY <1>1, <2>1, <2>2 DEF Calls
<1> HIDE DEF c
<1>4. c.ok => \A i \in 1 .. c.next - 1 : CopyIn(backups', c.dir, i, c.age)
  <2> SUFFICES ASSUME c.ok, NEW i \in 1 .. c.next - 1
               PROVE  CopyIn(backups', c.dir, i, c.age)
    OBVIOUS
  <2>1. call[p].ok /\ ok
    BY <1>3, Zenon
  <2>1a. i \in 1 .. call[p].next /\ call[p].next \in Nat
    BY <1>1, <1>3
  <2>2. CASE i = call[p].next
    BY <1>3, <2>1, <2>2
  <2>3. CASE i # call[p].next
    <3>1. i \in 1 .. call[p].next - 1
      BY <2>1a, <2>3
    <3> QED BY <1>1, <1>2, <1>3, <2>1, <3>1 DEF MadeIn
  <2> QED BY <2>2, <2>3
<1>5. CASE c.next <= NumDbs
  <2>1. call' = [call EXCEPT ![p] = c] /\ wait' = wait
    BY <1>5 DEF Advance, Goto, c
  <2>2. c \in Calls
    BY <1>3, <1>5
  <2>3. Sound(p, c)
    BY <1>1, <1>3, <2>2 DEF Sound
  <2>4. MadeIn(backups', c)
    BY <1>4 DEF MadeIn
  <2> QED BY <1>1, <1>2, <1>3, <2>1, <2>3, <2>4, CallGoesOn
<1>6. CASE ~(c.next <= NumDbs)
  <2> DEFINE rec == Recorded(c)
             then(pc) == [Idle EXCEPT !.pc = pc, !.snap = rec,
                                      !.age = IF pc = "root" THEN c.age ELSE 0]
  <2>0. \/ call' = [call EXCEPT ![p] = then("root")] /\ wait' = wait
        \/ call' = [call EXCEPT ![p] = then("write")] /\ wait' = wait
        \/ End(p)
    BY <1>6 DEF Advance, Goto, c
  <2>1. c.ok => SetIn(backups', c.dir, c.age)
    BY <1>1, <1>3, <1>4, <1>6, Numbers DEF SetIn
  <2>2. rec \in States /\ TrueIn(backups', rec)
    <3>1. CASE ~c.ok
      BY <1>1, <1>2, <1>3, <3>1 DEF Recorded
    <3>2. CASE c.ok /\ c.dir = Local
      <4>1. rec = [c.snap EXCEPT !.local = c.age] /\ c.age \in Times
        BY <1>1, <1>3, <3>2 DEF Recorded, Times
      <4> QED BY <1>1, <1>2, <1>3, <2>1, <3>2, <4>1 DEF States, TrueIn
    <3>3. CASE c.ok /\ c.dir # Local
      <4>1. rec = [c.snap EXCEPT !.drive = c.age] /\ c.age \in Times /\ c.dir \in Roots
        BY <1>1, <1>3, <3>3 DEF Recorded, Times, Dirs
      <4> QED BY <1>1, <1>2, <1>3, <2>1, <3>3, <4>1 DEF States, TrueIn
    <3> QED BY <3>1, <3>2, <3>3
  <2> HIDE DEF rec
  <2>3. ASSUME NEW pc \in {"root", "write"}
        PROVE  /\ Sound(p, then(pc)) /\ then(pc).snap = rec /\ MadeIn(backups', then(pc))
    <3> DEFINE e == then(pc)
    <3>1. Idle \in Calls /\ Idle.next = 1
      BY BlankTrue DEF Idle
    <3>2. e \in Calls /\ e.pc = pc /\ e.next = 1 /\ e.snap = rec
      BY <1>1, <1>3, <2>2, <3>1, Numbers DEF Calls
    <3> HIDE DEF e
    <3>3. Sound(p, e) /\ MadeIn(backups', e)
      BY <3>2 DEF Sound, MadeIn
    <3> QED BY <3>2, <3>3 DEF e
  <2>4. CASE \E pc \in {"root", "write"} : call' = [call EXCEPT ![p] = then(pc)] /\ wait' = wait
    <3> PICK pc \in {"root", "write"} : call' = [call EXCEPT ![p] = then(pc)] /\ wait' = wait
      BY <2>4
    <3> DEFINE e == then(pc)
    <3>1. Sound(p, e) /\ e.snap = rec /\ MadeIn(backups', e) /\ call' = [call EXCEPT ![p] = e]
      BY <2>3
    <3> HIDE DEF e
    <3> QED BY <1>1, <1>2, <2>2, <3>1, CallGoesOn
  <2>5. CASE End(p)
    <3>1. Sound(p, Idle) /\ TrueIn(backups', Idle.snap) /\ MadeIn(backups', Idle)
      BY BlankTrue DEF Sound, Idle
    <3>2. wait' \in 0 .. Interval /\ call' = [call EXCEPT ![p] = Idle]
      BY <1>1, <2>5, Numbers DEF End
    <3> QED BY <1>1, <1>2, <3>1, <3>2, CallGoesOn
  <2> QED BY <2>0, <2>4, <2>5
<1> QED BY <1>5, <1>6

LEMMA CopiesKeep ==
  ASSUME RecordsTrue, NEW p \in Processes, Copy(p) \/ CopyFails(p)
  PROVE  RecordsTrue'
<1>1. /\ TypeOK /\ At(p, "copy") /\ call[p].dir \in Dirs /\ call[p].age \in 0 .. Interval
      /\ backups \in Stores /\ UNCHANGED <<file, trouble>>
  BY DEF RecordsTrue, TypeOK, Calls, Copy, CopyFails, Dirs, Stores
<1>2. CASE Copy(p)
  <2>1. /\ backups' = [backups EXCEPT ![call[p].dir][call[p].next] = Kept(Append(@, Whole))]
        /\ Advance(p, TRUE)
    BY <1>2 DEF Copy
  <2> QED BY <1>1, <2>1, CopyKeeps, AdvanceKeeps
<1>3. CASE CopyFails(p)
  <2>1. (UNCHANGED backups \/ Remains(p)) /\ Advance(p, FALSE)
    BY <1>3 DEF CopyFails
  <2>2. backups' \in Stores /\ Kept1(backups, backups')
    <3>1. CASE UNCHANGED backups
      BY <1>1, <3>1 DEF Kept1
    <3> QED BY <1>1, <2>1, <3>1, RemainsKeeps
  <2> QED BY <1>1, <2>1, <2>2, AdvanceKeeps
<1> QED BY <1>2, <1>3

(* The state file is emptied, filled with what a call recorded, or torn.     *)
LEMMA WritesKeep ==
  ASSUME RecordsTrue, NEW p \in Processes, Empty(p) \/ Fill(p) \/ WriteFails(p)
  PROVE  RecordsTrue'
<1>1. /\ call[p] \in Calls /\ call[p].snap \in States /\ TrueIn(backups, call[p].snap)
      /\ file \in States /\ TrueIn(backups, file) /\ wait \in 0 .. Interval
      /\ Blank \in States /\ TrueIn(backups, Blank) /\ UNCHANGED <<backups, trouble>>
  BY BlankTrue DEF RecordsTrue, TypeOK, Calls, Empty, Fill, WriteFails
<1>2. CASE Empty(p)
  <2> DEFINE c == [call[p] EXCEPT !.pc = "fill"]
  <2>1. call' = [call EXCEPT ![p] = c] /\ wait' = wait /\ file' = Blank
    BY <1>2 DEF Empty, Goto
  <2>2. c \in Calls /\ c.pc = "fill" /\ c.snap = call[p].snap
    BY <1>1 DEF Calls
  <2> HIDE DEF c
  <2>3. Sound(p, c) /\ MadeIn(backups, c)
    BY <2>2 DEF Sound, MadeIn
  <2> QED BY <1>1, <2>1, <2>2, <2>3, CallReads
<1>3. CASE Fill(p)
  BY <1>1, <1>3, CallEnds DEF Fill
<1>4. CASE WriteFails(p)
  BY <1>1, <1>4, CallEnds DEF WriteFails
<1> QED BY <1>2, <1>3, <1>4

-----------------------------------------------------------------------------
(* Time passes for the files and for what is recorded of them alike, up to   *)
(* the age at which a backup is due.                                         *)
LEMMA OlderFacts ==
  /\ \A t \in Times : Older(t) \in Times /\ (Older(t) = Never <=> t = Never)
  /\ \A a, t \in 0 .. Interval : Older(a) \in 0 .. Interval /\ (a <= t => Older(a) <= Older(t))
BY Numbers DEF Older, Times

LEMMA OlderFiles ==
  ASSUME RecordsTrue, Tick
  PROVE  /\ backups' \in Stores
         /\ \A d \in Dirs, i \in 1 .. NumDbs, t \in 0 .. Interval :
              CopyIn(backups, d, i, t) => CopyIn(backups', d, i, Older(t))
<1>1. /\ backups \in [Dirs -> [1 .. NumDbs -> Seq(Files)]]
      /\ backups' = [d \in Dirs |-> [i \in 1 .. NumDbs |->
                       [n \in DOMAIN backups[d][i] |-> [backups[d][i][n] EXCEPT !.age = Older(@)]]]]
  BY DEF RecordsTrue, TypeOK, Tick
<1>2. ASSUME NEW d \in Dirs, NEW i \in 1 .. NumDbs
      PROVE  /\ backups'[d][i] \in Seq(Files)
             /\ DOMAIN backups'[d][i] = DOMAIN backups[d][i]
             /\ \A n \in DOMAIN backups[d][i] :
                  /\ backups[d][i][n].age \in 0 .. Interval
                  /\ backups'[d][i][n].whole = backups[d][i][n].whole
                  /\ backups'[d][i][n].age = Older(backups[d][i][n].age)
  <2> DEFINE fs == backups[d][i]
             gs == backups'[d][i]
  <2>1. fs \in Seq(Files) /\ gs = [n \in DOMAIN fs |-> [fs[n] EXCEPT !.age = Older(@)]]
    BY <1>1
  <2> HIDE DEF fs, gs
  <2>2. Len(fs) \in Nat /\ DOMAIN fs = 1 .. Len(fs) /\ \A n \in 1 .. Len(fs) : fs[n] \in Files
    BY <2>1, LenProperties, ElementOfSeq
  <2>3. \A n \in 1 .. Len(fs) : [fs[n] EXCEPT !.age = Older(@)] \in Files
    BY <2>2, OlderFacts DEF Files
  <2>4. gs \in [1 .. Len(fs) -> Files]
    BY <2>1, <2>2, <2>3
  <2>5. gs \in Seq(Files)
    BY <2>2, <2>4, SeqDef
  <2>6. \A n \in 1 .. Len(fs) : /\ fs[n].age \in 0 .. Interval /\ gs[n].whole = fs[n].whole
                                /\ gs[n].age = Older(fs[n].age)
    BY <2>1, <2>2 DEF Files
  <2> QED BY <2>1, <2>2, <2>5, <2>6 DEF fs, gs
<1>3. backups' \in Stores
  <2>1. \A d \in Dirs : backups'[d] = [i \in 1 .. NumDbs |-> backups'[d][i]]
    BY <1>1
  <2>2. \A d \in Dirs : backups'[d] \in [1 .. NumDbs -> Seq(Files)]
    BY <1>2, <2>1
  <2>3. backups' = [d \in Dirs |-> backups'[d]]
    BY <1>1
  <2> QED BY <2>2, <2>3 DEF Stores
<1>4. ASSUME NEW d \in Dirs, NEW i \in 1 .. NumDbs, NEW t \in 0 .. Interval,
             CopyIn(backups, d, i, t)
      PROVE  CopyIn(backups', d, i, Older(t))
  <2>1. PICK n \in DOMAIN backups[d][i] : backups[d][i][n].whole /\ backups[d][i][n].age <= t
    BY <1>4 DEF CopyIn
  <2>2. /\ backups[d][i][n].age \in 0 .. Interval
        /\ backups'[d][i][n].whole = backups[d][i][n].whole
        /\ backups'[d][i][n].age = Older(backups[d][i][n].age)
    BY <1>2, <2>1
  <2>3. backups'[d][i][n].age <= Older(t) /\ n \in DOMAIN backups'[d][i]
    BY <1>2, <2>1, <2>2, OlderFacts
  <2> QED BY <2>1, <2>2, <2>3 DEF CopyIn
<1> QED BY <1>3, <1>4

LEMMA OlderTrue ==
  ASSUME RecordsTrue, Tick, NEW s \in States, TrueIn(backups, s)
  PROVE  OlderState(s) \in States /\ TrueIn(backups', OlderState(s))
<1> DEFINE o == OlderState(s)
<1>1. /\ s.local \in Times /\ s.drive \in Times
      /\ o \in States /\ o.local = Older(s.local) /\ o.drive = Older(s.drive)
  BY OlderFacts DEF States, OlderState
<1> HIDE DEF o
<1>2. \A t \in Times : t # Never => t \in 0 .. Interval
  BY DEF Times
<1>3. \A d \in Dirs, t \in 0 .. Interval : SetIn(backups, d, t) => SetIn(backups', d, Older(t))
  BY OlderFiles DEF SetIn
<1>4. o.local # Never => SetIn(backups', Local, o.local)
  BY <1>1, <1>2, <1>3, OlderFacts DEF TrueIn, Dirs
<1>5. o.drive # Never => \E r \in Roots : SetIn(backups', r, o.drive)
  BY <1>1, <1>2, <1>3, OlderFacts DEF TrueIn, Dirs
<1> QED BY <1>1, <1>4, <1>5 DEF TrueIn, o

LEMMA TickKeeps ==
  ASSUME RecordsTrue, Tick
  PROVE  RecordsTrue'
<1>1. /\ file' = OlderState(file) /\ trouble' = trouble /\ wait' = Older(wait)
      /\ call' = [p \in Processes |-> [call[p] EXCEPT !.snap = OlderState(@),
                    !.age = IF At(p, "root") \/ At(p, "copy") THEN Older(@) ELSE @]]
  BY DEF Tick
<1>2. /\ file \in States /\ TrueIn(backups, file) /\ wait \in 0 .. Interval /\ trouble \in BOOLEAN
      /\ \A p \in Processes : call[p] \in Calls /\ call[p].snap \in States
                              /\ call[p].age \in 0 .. Interval
                              /\ TrueIn(backups, call[p].snap) /\ MadeIn(backups, call[p])
  BY DEF RecordsTrue, TypeOK, Calls
<1>3. ASSUME NEW p \in Processes
      PROVE  /\ call'[p] \in Calls /\ call'[p].snap = OlderState(call[p].snap)
             /\ call'[p].pc = call[p].pc /\ call'[p].dir = call[p].dir
             /\ call'[p].next = call[p].next /\ call'[p].ok = call[p].ok
             /\ call[p].pc = "copy" => call'[p].age = Older(call[p].age)
  <2>1. Older(call[p].age) \in 0 .. Interval /\ OlderState(call[p].snap) \in States
    BY <1>2, OlderFacts, OlderTrue
  <2>2. call'[p] = [call[p] EXCEPT !.snap = OlderState(call[p].snap),
                      !.age = IF At(p, "root") \/ At(p, "copy") THEN Older(call[p].age) ELSE call[p].age]
    BY <1>1
  <2> QED BY <1>2, <2>1, <2>2 DEF Calls, At
<1>4. ASSUME NEW p \in Processes
      PROVE  TrueIn(backups', call'[p].snap) /\ MadeIn(backups', call'[p])
  <2>1. TrueIn(backups', call'[p].snap)
    BY <1>2, <1>3, OlderTrue
  <2>2. ASSUME call[p].pc = "copy", call[p].ok, NEW i \in 1 .. call[p].next - 1
        PROVE  CopyIn(backups', call[p].dir, i, Older(call[p].age))
    <3>1. i \in 1 .. NumDbs /\ call[p].dir \in Dirs
      <4>1. call[p].next \in 1 .. NumDbs
        BY <1>2 DEF Calls
      <4>2. call[p].dir \in (IF p = Worker THEN Dirs ELSE Roots)
        BY <2>2 DEF RecordsTrue, TypeOK, At
      <4> QED BY <2>2, <4>1, <4>2, Numbers DEF Dirs
    <3>2. CopyIn(backups, call[p].dir, i, call[p].age)
      BY <1>2, <2>2 DEF MadeIn
    <3> QED BY <1>2, <3>1, <3>2, OlderFiles
  <2>3. MadeIn(backups', call'[p])
    BY <1>3, <2>2 DEF MadeIn
  <2> QED BY <2>1, <2>3
<1>5. TypeOK' /\ Located'
  <2>1. call' \in [Processes -> Calls]
    BY <1>1, <1>3
  <2>2. wait' \in 0 .. Interval /\ trouble' \in BOOLEAN
    BY <1>1, <1>2, OlderFacts
  <2>3. file' \in States
    BY <1>1, <1>2, OlderTrue
  <2>4. backups' \in [Dirs -> [1 .. NumDbs -> Seq(Files)]]
    BY OlderFiles DEF Stores
  <2>5. \A p \in Processes : /\ At(p, "copy")' => call'[p].dir \in (IF p = Worker THEN Dirs ELSE Roots)
                             /\ At(p, "state")' => call'[p].dir \in Roots
                             /\ call'[p].pc \in {"root", "state"} => call'[p].next = 1
    BY <1>3 DEF RecordsTrue, TypeOK, Located, At
  <2> QED BY <2>1, <2>2, <2>3, <2>4, <2>5 DEF TypeOK, Located
<1>6. TrueIn(backups', file')
  BY <1>1, <1>2, OlderTrue
<1> QED BY <1>4, <1>5, <1>6 DEF RecordsTrue

(* The process ends, perhaps leaving part of a copy, and starts again.       *)
LEMMA RestartKeeps ==
  ASSUME RecordsTrue, Restart
  PROVE  RecordsTrue'
<1>1. /\ UNCHANGED backups \/ \E p \in Processes : At(p, "copy") /\ Remains(p)
      /\ call' = [p \in Processes |-> Idle] /\ wait' = Interval /\ UNCHANGED <<file, trouble>>
  BY DEF Restart
<1>2. backups' \in Stores /\ Kept1(backups, backups')
  <2>1. CASE UNCHANGED backups
    BY <2>1 DEF Kept1, RecordsTrue, TypeOK, Stores
  <2>2. ASSUME NEW p \in Processes, At(p, "copy"), Remains(p)
        PROVE  backups' \in Stores /\ Kept1(backups, backups')
    <3>1. TypeOK /\ call[p].dir \in Dirs
      BY <2>2 DEF RecordsTrue, TypeOK, Dirs
    <3> QED BY <2>2, <3>1, RemainsKeeps
  <2> QED BY <1>1, <2>1, <2>2
<1>3. /\ Idle \in Calls /\ Idle.pc = "idle" /\ TrueIn(backups', Idle.snap) /\ MadeIn(backups', Idle)
  BY BlankTrue
<1>4. TypeOK' /\ Located'
  BY <1>1, <1>2, <1>3, Numbers DEF RecordsTrue, TypeOK, Located, At, Stores
<1>5. TrueIn(backups', file')
  BY <1>1, <1>2, OthersKept
<1> QED BY <1>1, <1>3, <1>4, <1>5 DEF RecordsTrue

-----------------------------------------------------------------------------
(* Whatever the worker, the users, the clock and the disk do, the state file *)
(* and every snapshot that may be written over it stay true of the files.    *)
THEOREM RecordsStayTrue == Spec => []RecordsTrue
<1>1. Init => RecordsTrue
  <2> SUFFICES ASSUME Init PROVE RecordsTrue
    OBVIOUS
  <2>1. /\ file = Blank /\ wait = Interval /\ trouble = FALSE
        /\ backups = [d \in Dirs |-> [i \in 1 .. NumDbs |-> << >>]]
        /\ call = [p \in Processes |-> Idle]
    BY DEF Init
  <2>2. << >> \in Seq(Files)
    BY EmptySeq
  <2> HIDE DEF Init
  <2>3. TypeOK /\ Located
    BY <2>1, <2>2, BlankTrue, Numbers DEF TypeOK, Located, At
  <2> QED BY <2>1, <2>3, BlankTrue DEF RecordsTrue
<1>2. RecordsTrue /\ [Next]_vars => RecordsTrue'
  <2> SUFFICES ASSUME RecordsTrue, [Next]_vars PROVE RecordsTrue'
    OBVIOUS
  <2>1. CASE WorkerStep
    <3>1. Worker \in Processes
      BY DEF Processes
    <3> QED BY <2>1, <3>1, ReadsKeep, CopiesKeep, WritesKeep DEF WorkerStep, Step
  <2>2. ASSUME NEW u \in Users, UserStep(u) PROVE RecordsTrue'
    <3>1. u \in Processes
      BY DEF Processes
    <3> QED BY <2>2, <3>1, ReadsKeep, CopiesKeep, WritesKeep DEF UserStep, Step
  <2>3. CASE Tick
    BY <2>3, TickKeeps
  <2>4. CASE Restart
    BY <2>4, RestartKeeps
  <2>5. CASE Toggle
    BY <2>5 DEF Toggle, RecordsTrue, TypeOK, Located, At, MadeIn, TrueIn, SetIn, CopyIn
  <2>6. CASE UNCHANGED vars
    BY <2>6 DEF vars, RecordsTrue, TypeOK, Located, At, MadeIn, TrueIn, SetIn, CopyIn
  <2> QED BY <2>1, <2>2, <2>3, <2>4, <2>5, <2>6 DEF Next
<1> QED BY <1>1, <1>2, PTL DEF Spec

(* RecordedSetsExist holds in every behaviour: the times of the last local   *)
(* and Google Drive backups in the state file are those of whole sets.       *)
THEOREM RecordedSets == Spec => []RecordedSetsExist
<1>1. RecordsTrue => RecordedSetsExist
  BY DEF RecordsTrue, TrueIn, SetIn, CopyIn, RecordedSetsExist, HasSet
<1> QED BY <1>1, RecordsStayTrue, PTL

(* Every variable has its type, and only the worker copies to the local      *)
(* directory.                                                                *)
THEOREM BackupTypes == Spec => []TypeOK
<1>1. RecordsTrue => TypeOK
  BY DEF RecordsTrue
<1> QED BY <1>1, RecordsStayTrue, PTL
=============================================================================
