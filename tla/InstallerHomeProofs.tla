------------------------- MODULE InstallerHomeProofs -------------------------
(***************************************************************************)
(* Proofs about the MPAS home, for any keys, roles, urls, sources, signers *)
(* and bounds, with one command at a time (Sequential): an update is all   *)
(* or nothing, and one that was stopped can be undone.  InstallerInv of    *)
(* InstallerHome is inductive.                                             *)
(***************************************************************************)
EXTENDS InstallerHome, TLAPS

\* Documents stay documents as keys are made.
LEMMA DocumentsGrow ==
  ASSUME NEW n \in Nat, NEW m \in Nat, n <= m
  PROVE  /\ \A f \in Files : Documents(f, n) \subseteq Documents(f, m)
         /\ \A dir : IsDir(dir, n) => IsDir(dir, m)
         /\ \A plan : IsPlan(plan, n) => IsPlan(plan, m)
<1>1. \A f \in Files : Documents(f, n) \subseteq Documents(f, m)
  BY DEF Documents
<1>2. \A dir : IsDir(dir, n) => IsDir(dir, m)
  BY <1>1 DEF IsDir
<1>3. Changes(n) \subseteq Changes(m)
  BY <1>1 DEF Changes
<1>4. ASSUME NEW plan, IsPlan(plan, n)
      PROVE  IsPlan(plan, m)
  BY <1>3, <1>4 DEF IsPlan
<1> QED
  BY <1>1, <1>2, <1>4

LEMMA PlanFacts ==
  ASSUME NEW plan, NEW n, IsPlan(plan, n)
  PROVE  /\ Len(plan) \in Nat /\ Len(plan) > 0 /\ DOMAIN plan = 1 .. Len(plan)
         /\ \A j \in DOMAIN plan :
              /\ plan[j].file \in Files /\ plan[j].doc \in Documents(plan[j].file, n)
              /\ plan[j].existed \in BOOLEAN
              /\ ChangeOf(plan, plan[j].file) = plan[j] /\ plan[j].file \in FilesOf(plan)
         /\ \A i, j \in DOMAIN plan : plan[i].file = plan[j].file => i = j
         /\ FilesOf(plan) \subseteq Files
         /\ \A f \in FilesOf(plan) : \E j \in DOMAIN plan : plan[j].file = f
<1>1. Len(plan) \in Nat /\ Len(plan) > 0 /\ DOMAIN plan = 1 .. Len(plan)
  BY DEF IsPlan
<1>2. \A j \in DOMAIN plan : plan[j] \in Changes(n)
  BY DEF IsPlan
<1>3. \A j \in DOMAIN plan :
        /\ plan[j].file \in Files /\ plan[j].doc \in Documents(plan[j].file, n)
        /\ plan[j].existed \in BOOLEAN
  BY <1>2 DEF Changes
<1>4. \A i, j \in DOMAIN plan : plan[i].file = plan[j].file => i = j
  BY DEF IsPlan
<1>5. \A j \in DOMAIN plan : ChangeOf(plan, plan[j].file) = plan[j]
  <2> SUFFICES ASSUME NEW j \in DOMAIN plan
               PROVE  (CHOOSE i \in DOMAIN plan : plan[i].file = plan[j].file) = j
    BY DEF ChangeOf
  <2> DEFINE i == CHOOSE i \in DOMAIN plan : plan[i].file = plan[j].file
  <2>1. i \in DOMAIN plan /\ plan[i].file = plan[j].file
    OBVIOUS
  <2> QED
    BY <1>4, <2>1
<1>6. /\ \A j \in DOMAIN plan : plan[j].file \in FilesOf(plan)
      /\ \A f \in FilesOf(plan) : \E j \in DOMAIN plan : plan[j].file = f
  BY DEF FilesOf
<1> QED
  BY <1>1, <1>3, <1>4, <1>5, <1>6

\* What the home becomes, file by file
LEMMA TargetFacts ==
  ASSUME NEW plan, NEW n, IsPlan(plan, n), NEW files
  PROVE  /\ \A j \in DOMAIN plan : Target(plan, files)[plan[j].file] = plan[j].doc
         /\ \A f \in Files \ FilesOf(plan) : Target(plan, files)[f] = files[f]
  BY PlanFacts DEF Target

LEMMA UndoneFacts ==
  ASSUME NEW plan, NEW n, IsPlan(plan, n), NEW files, NEW copies
  PROVE  /\ \A j \in DOMAIN plan :
              Undone(plan, files, copies)[plan[j].file] = Restored(plan[j], files, copies)
         /\ \A f \in Files \ FilesOf(plan) : Undone(plan, files, copies)[f] = files[f]
  BY PlanFacts DEF Undone

-----------------------------------------------------------------------------
LEMMA ProcMoves ==
  ASSUME TypeOK, NEW p \in Procs, NEW c, c = Idle \/ IsCommand(c), proc' = [proc EXCEPT ![p] = c]
  PROVE  /\ proc' = [q \in Procs |-> proc'[q]] /\ proc'[p] = c
         /\ \A q \in Procs : proc'[q] = Idle \/ IsCommand(proc'[q])
  BY DEF TypeOK

\* A process that does something is running a command.
LEMMA Running ==
  ASSUME TypeOK, NEW p \in Procs, proc[p].at # "idle"
  PROVE  IsCommand(proc[p])
  BY DEF TypeOK, Idle

ProcsOK == proc = [q \in Procs |-> proc[q]] /\ \A q \in Procs : proc[q] = Idle \/ IsCommand(proc[q])

LEMMA GotoFacts ==
  ASSUME TypeOK, NEW p \in Procs, proc[p].at # "idle", NEW x \in Places, Goto(p, x)
  PROVE  ProcsOK' /\ proc'[p].at = x /\ proc'[p].plan = proc[p].plan /\ proc'[p].i = proc[p].i
<1>1. IsCommand(proc[p]) /\ 0 \in Nat
  BY Running
<1> DEFINE c == [proc[p] EXCEPT !.at = x]
<1>2. IsCommand(c) /\ c.at = x /\ c.plan = proc[p].plan /\ c.i = proc[p].i
  BY <1>1 DEF IsCommand
<1>3. proc' = [proc EXCEPT ![p] = c]
  BY DEF Goto
<1> HIDE DEF c
<1> QED
  BY <1>2, <1>3, ProcMoves DEF ProcsOK

LEMMA BeginFacts ==
  ASSUME TypeOK, NEW p \in Procs, proc[p].at # "idle", NEW x \in Places, NEW plan, Begin(p, x, plan)
  PROVE  ProcsOK' /\ proc'[p].at = x /\ proc'[p].plan = plan /\ proc'[p].i = 1
<1>1. IsCommand(proc[p]) /\ 1 \in Nat
  BY Running
<1> DEFINE c == [proc[p] EXCEPT !.at = x, !.plan = plan, !.i = 1]
<1>2. IsCommand(c) /\ c.at = x /\ c.plan = plan /\ c.i = 1
  BY <1>1 DEF IsCommand
<1>3. proc' = [proc EXCEPT ![p] = c]
  BY DEF Begin
<1> HIDE DEF c
<1> QED
  BY <1>2, <1>3, ProcMoves DEF ProcsOK

LEMMA StepFacts ==
  ASSUME TypeOK, NEW p \in Procs, proc[p].at # "idle", NEW x \in Places, NEW done, Step(p, done, x)
  PROVE  /\ ProcsOK' /\ proc'[p].plan = proc[p].plan
         /\ proc[p].i = done => proc'[p].at = x /\ proc'[p].i = 1
         /\ proc[p].i # done => proc'[p].at = proc[p].at /\ proc'[p].i = proc[p].i + 1
<1>a. IsCommand(proc[p])
  BY Running
<1>1. IsCommand(proc[p]) /\ 1 \in Nat /\ proc[p].i \in Nat /\ proc[p].i + 1 \in Nat
  BY <1>a DEF IsCommand
<1>2. CASE proc[p].i = done
  BY <1>2, BeginFacts DEF Step
<1>3. CASE proc[p].i # done
  <2> DEFINE c == [proc[p] EXCEPT !.i = proc[p].i + 1]
  <2>1. IsCommand(c) /\ c.at = proc[p].at /\ c.plan = proc[p].plan /\ c.i = proc[p].i + 1
    BY <1>1 DEF IsCommand
  <2>2. proc' = [proc EXCEPT ![p] = c]
    BY <1>1, <1>3 DEF Step
  <2> HIDE DEF c
  <2> QED
    BY <1>3, <2>1, <2>2, ProcMoves DEF ProcsOK
<1> QED
  BY <1>2, <1>3

LEMMA IdleFacts ==
  ASSUME TypeOK, NEW p \in Procs, proc' = [proc EXCEPT ![p] = Idle]
  PROVE  ProcsOK' /\ proc'[p].at = "idle"
  BY ProcMoves DEF ProcsOK, Idle

LEMMA TryAgainFacts ==
  ASSUME TypeOK, NEW p \in Procs, proc[p].at # "idle", TryAgain(p)
  PROVE  ProcsOK' /\ proc'[p].at \in {"idle", "create"}
<1>1. CASE proc[p].try = 2
  BY <1>1, IdleFacts DEF TryAgain
<1>2. CASE proc[p].try # 2
  <2> DEFINE c == [proc[p] EXCEPT !.at = "create", !.try = 2]
  <2>a. IsCommand(proc[p])
    BY Running
  <2>b. "create" \in Places /\ 2 \in 1 .. 2
    BY DEF Places
  <2>1. IsCommand(c) /\ c.at = "create"
    BY <2>a, <2>b DEF IsCommand
  <2>2. proc' = [proc EXCEPT ![p] = c]
    BY <1>2 DEF TryAgain
  <2> HIDE DEF c
  <2> QED
    BY <2>1, <2>2, ProcMoves DEF ProcsOK
<1> QED
  BY <1>1, <1>2

-----------------------------------------------------------------------------
\* The disk is as it should be, whatever the commands are doing.
DiskOK ==
  /\ keys \in 0 .. MaxKeys
  /\ IsDir(home, keys) /\ IsDir(staged, keys) /\ IsDir(kept, keys)
  /\ marker # NoFile =>
       marker \in [committed: BOOLEAN, files: {marker.files}] /\ IsPlan(marker.files, keys)
  /\ marker = NoFile \/ marker.committed => Whole(home)
  /\ UndoIsPossible

Outside == {"idle", "create", "write", "check", "again", "remove", "recover", "release"}

\* A command that has no update under way
LEMMA Parked ==
  ASSUME Sequential, NEW p \in Procs, ProcsOK', DiskOK',
         \/ proc'[p].at \in Outside
         \/ proc'[p].at = "plan" /\ marker' = NoFile
         \/ proc'[p].at \in {"clean", "unmark"} /\ marker' # NoFile /\ marker'.committed
  PROVE  InstallerInv'
<1>1. \A q \in Procs : q = p
  BY DEF Sequential
<1>2. \A q \in Procs :
        /\ proc'[q].at \notin {"stage", "backup", "mark", "rename", "commit", "undo", "undoing"}
        /\ proc'[q].at = "plan" => marker' = NoFile
        /\ proc'[q].at \in {"clean", "unmark"} => marker' # NoFile /\ marker'.committed
  BY <1>1 DEF Outside
<1>3. UpdateInv' /\ MarkerInv'
  BY <1>2 DEF UpdateInv, MarkerInv, DiskOK
<1> QED
  BY <1>3 DEF InstallerInv, ProcsOK, DiskOK, HomeIsWhole, TypeOK

\* A command that has one
LEMMA Updating ==
  ASSUME Sequential, NEW p \in Procs, ProcsOK', DiskOK',
         \/ proc'[p].at \in {"stage", "backup", "mark"} /\ Prepares(proc[p])'
         \/ proc'[p].at \in {"rename", "commit"} /\ Renames(proc[p])'
         \/ proc'[p].at \in {"undo", "undoing"} /\ Undoes(proc[p])'
  PROVE  InstallerInv'
<1>1. \A q \in Procs : q = p
  BY DEF Sequential
<1>2. UpdateInv'
  BY <1>1 DEF UpdateInv
<1>3. MarkerInv'
  BY <1>1 DEF MarkerInv, DiskOK
<1> QED
  BY <1>2, <1>3 DEF InstallerInv, ProcsOK, DiskOK, HomeIsWhole, TypeOK

LEMMA DiskKept ==
  ASSUME DiskOK, UNCHANGED <<home, staged, kept, marker, keys>>
  PROVE  DiskOK'
  BY DEF DiskOK, UndoIsPossible

LEMMA DiskIs ==
  ASSUME InstallerInv
  PROVE  TypeOK /\ DiskOK
  BY DEF InstallerInv, HomeIsWhole, TypeOK, DiskOK, MarkerInv

LEMMA LockSteps ==
  ASSUME Sequential, InstallerInv, NEW p \in Procs,
         Starts(p) \/ Locks(p) \/ Release(p) \/ Crash(p) \/ RefuseCommand(p)
  PROVE  InstallerInv'
<1>a. TypeOK /\ DiskOK /\ UNCHANGED <<home, staged, kept, marker, keys>>
  BY DiskIs DEF Starts, Locks, Release, Crash, RefuseCommand, CreateLock, WriteLock, CheckLock,
                CheckAgain, RemoveLock, disk
<1>b. DiskOK'
  BY <1>a, DiskKept
<1>c. \A x \in {"create", "write", "check", "again", "remove", "recover", "release"} :
        x \in Places /\ x \in Outside
  BY DEF Places, Outside
<1> SUFFICES ProcsOK' /\ proc'[p].at \in Outside
  BY <1>b, Parked
<1>1. CASE Starts(p)
  <2> DEFINE c == [at |-> "create", try |-> 1, run |-> commands', seen |-> NoFile,
                   plan |-> <<>>, i |-> 1]
  <2>1. IsCommand(c) /\ c.at = "create"
    BY DEF IsCommand, Places
  <2>2. proc' = [proc EXCEPT ![p] = c]
    BY <1>1 DEF Starts
  <2> HIDE DEF c
  <2> QED
    BY <1>a, <1>c, <2>1, <2>2, ProcMoves DEF ProcsOK
<1>2. CASE CreateLock(p)
  <2>1. proc[p].at # "idle" /\ (Goto(p, "write") \/ Goto(p, "check"))
    BY <1>2 DEF CreateLock
  <2> QED
    BY <1>a, <1>c, <2>1, GotoFacts
<1>3. CASE WriteLock(p)
  <2>1. proc[p].at # "idle" /\ Goto(p, "recover")
    BY <1>3 DEF WriteLock
  <2> QED
    BY <1>a, <1>c, <2>1, GotoFacts
<1>4. CASE CheckLock(p)
  <2>1. proc[p].at # "idle"
    BY <1>4 DEF CheckLock
  <2>2. CASE TryAgain(p)
    BY <1>a, <1>c, <2>1, <2>2, TryAgainFacts DEF Outside
  <2>3. CASE proc' = [proc EXCEPT ![p] = Idle]
    BY <1>a, <2>3, IdleFacts DEF Outside
  <2>4. CASE proc' = [proc EXCEPT ![p] = [@ EXCEPT !.at = "again", !.seen = lock]]
    <3> DEFINE c == [proc[p] EXCEPT !.at = "again", !.seen = lock]
    <3>1. IsCommand(c) /\ c.at = "again"
      BY <1>a, <2>1, Running DEF IsCommand, Places
    <3>2. proc' = [proc EXCEPT ![p] = c]
      BY <2>4
    <3> HIDE DEF c
    <3> QED
      BY <1>a, <1>c, <3>1, <3>2, ProcMoves DEF ProcsOK
  <2> QED
    BY <1>4, <2>2, <2>3, <2>4 DEF CheckLock
<1>5. CASE CheckAgain(p)
  <2>1. proc[p].at # "idle" /\ (Goto(p, "remove") \/ TryAgain(p))
    BY <1>5 DEF CheckAgain
  <2> QED
    BY <1>a, <1>c, <2>1, GotoFacts, TryAgainFacts DEF Outside
<1>6. CASE RemoveLock(p)
  <2>1. proc[p].at # "idle" /\ TryAgain(p)
    BY <1>6 DEF RemoveLock
  <2> QED
    BY <1>a, <2>1, TryAgainFacts DEF Outside
<1>7. CASE Release(p) \/ Crash(p)
  BY <1>a, <1>7, IdleFacts DEF Release, Crash, Outside
<1>8. CASE RefuseCommand(p)
  <2>1. proc[p].at # "idle" /\ Goto(p, "release")
    BY <1>8 DEF RefuseCommand
  <2> QED
    BY <1>a, <1>c, <2>1, GotoFacts
<1> QED
  BY <1>1, <1>2, <1>3, <1>4, <1>5, <1>6, <1>7, <1>8 DEF Locks

-----------------------------------------------------------------------------
LEMMA RunSignerStep ==
  ASSUME Sequential, InstallerInv, NEW p \in Procs, NEW did \in Signers, RunSigner(p, did)
  PROVE  InstallerInv'
<1>a. TypeOK /\ DiskOK /\ marker = NoFile /\ home["draft"] # NoFile /\ "draft" \in Files
      /\ Whole(home)
  BY DiskIs DEF RunSigner, Has, Files, InstallerInv, MarkerInv, DiskOK
<1>1. home["draft"] \in [groups: [Groups -> SUBSET People], keys: SUBSET People]
  BY <1>a DEF DiskOK, IsDir, Documents
<1>2. \E doc \in [groups: [Groups -> SUBSET People], keys: SUBSET People] :
        home' = [home EXCEPT !["draft"] = doc] /\ Covered(doc)
  <2>1. Covered(home["draft"])
    BY <1>a DEF Whole
  <2>2. ASSUME NEW g \in Groups
        PROVE  /\ AddSigner(home["draft"], g, did) \in [groups: [Groups -> SUBSET People], keys: SUBSET People]
               /\ Covered(AddSigner(home["draft"], g, did))
    <3> DEFINE doc == home["draft"]
               rest == [x \in Groups |-> doc.groups[x] \ IF x = g THEN {Placeholder} ELSE {}]
               gone == IF \E x \in Groups \ {"all"} : Placeholder \in rest[x]
                       THEN {} ELSE {Placeholder} \cap doc.groups[g]
               groups == [x \in Groups |-> IF x = "all" THEN (rest[x] \ gone) \cup {did}
                                           ELSE IF x = g THEN rest[x] \cup {did} ELSE rest[x]]
               after == (doc.keys \ gone) \cup {did}
    <3>1. AddSigner(doc, g, did) = [groups |-> groups, keys |-> after]
      BY DEF AddSigner
    <3>2. did \in People /\ g \in Groups /\ "all" \in Groups
      BY DEF People, Groups
    <3>3. /\ \A x \in Groups : rest[x] \subseteq doc.groups[x] /\ doc.groups[x] \subseteq People
          /\ doc.keys \subseteq People /\ doc.groups["all"] \ {Placeholder} \subseteq rest["all"]
      BY <1>1, <3>2
    <3>4. /\ gone \subseteq {Placeholder}
          /\ \A x \in Groups \ {"all"} : rest[x] \cap gone = {}
      OBVIOUS
    <3>5. \A x \in Groups : /\ doc.groups[x] \ {Placeholder} \subseteq doc.groups["all"]
                           /\ doc.groups[x] \subseteq doc.keys
      BY <2>1 DEF Covered
    <3> HIDE DEF doc, rest, gone
    <3>6. groups \in [Groups -> SUBSET People] /\ after \subseteq People
      BY <3>2, <3>3
    <3>7. \A x \in Groups : /\ groups[x] \ {Placeholder} \subseteq groups["all"]
                           /\ groups[x] \subseteq after
      BY <3>2, <3>3, <3>4, <3>5
    <3> HIDE DEF groups, after
    <3>8. Covered([groups |-> groups, keys |-> after])
      BY <3>7 DEF Covered
    <3> QED
      BY <3>1, <3>6, <3>8 DEF doc
  <2>3. /\ RemoveSigner(home["draft"], did) \in [groups: [Groups -> SUBSET People], keys: SUBSET People]
        /\ Covered(RemoveSigner(home["draft"], did))
    <3>1. RemoveSigner(home["draft"], did) \in [groups: [Groups -> SUBSET People], keys: SUBSET People]
      BY <1>1 DEF RemoveSigner
    <3>2. Covered(RemoveSigner(home["draft"], did))
      BY <1>1, <2>1 DEF RemoveSigner, Covered, Groups
    <3> QED
      BY <3>1, <3>2
  <2>4. \/ \E g \in Groups :
             home' = [home EXCEPT !["draft"] = AddSigner(home["draft"], g, did)]
        \/ home' = [home EXCEPT !["draft"] = RemoveSigner(home["draft"], did)]
    BY DEF RunSigner
  <2> QED
    BY <2>2, <2>3, <2>4
<1>3. PICK doc \in [groups: [Groups -> SUBSET People], keys: SUBSET People] :
        home' = [home EXCEPT !["draft"] = doc] /\ Covered(doc)
  BY <1>2
<1>4. /\ home' = [f \in Files |-> home'[f]] /\ home'["draft"] = doc
      /\ \A f \in Files \ {"draft"} : home'[f] = home[f]
  BY <1>a, <1>3 DEF DiskOK, IsDir
<1>5. doc \in Documents("draft", keys)
  BY DEF Documents
<1>6. IsDir(home', keys)
  BY <1>a, <1>4, <1>5 DEF DiskOK, IsDir
<1>7. Whole(home')
  BY <1>a, <1>3, <1>4 DEF Whole, Agrees, Files
<1>8. UNCHANGED <<staged, kept, marker, keys>> /\ Goto(p, "release") /\ proc[p].at # "idle"
  BY DEF RunSigner
<1>9. DiskOK'
  BY <1>a, <1>6, <1>7, <1>8 DEF DiskOK, UndoIsPossible
<1>10. "release" \in Places /\ "release" \in Outside
  BY DEF Places, Outside
<1>11. ProcsOK' /\ proc'[p].at = "release"
  BY <1>a, <1>8, <1>10, GotoFacts
<1> QED
  BY <1>9, <1>10, <1>11, Parked

\* Dropping files leaves documents.
LEMMA DropFacts ==
  ASSUME NEW dir, NEW n, IsDir(dir, n), NEW files
  PROVE  /\ IsDir(Drop(files, dir), n)
         /\ \A f \in Files : Drop(files, dir)[f] = IF f \in files THEN NoFile ELSE dir[f]
<1>1. \A f \in Files : Drop(files, dir)[f] = IF f \in files THEN NoFile ELSE dir[f]
  BY DEF Drop
<1>2. Drop(files, dir) = [f \in Files |-> Drop(files, dir)[f]]
  BY DEF Drop
<1> QED
  BY <1>1, <1>2 DEF IsDir

LEMMA DropOne ==
  ASSUME NEW dir, NEW n, IsDir(dir, n), NEW f \in Files
  PROVE  /\ IsDir(Drop({f}, dir), n) /\ Drop({f}, dir)[f] = NoFile
         /\ \A g \in Files \ {f} : Drop({f}, dir)[g] = dir[g]
<1>1. IsDir(Drop({f}, dir), n)
  BY DropFacts
<1>2. \A g \in Files : Drop({f}, dir)[g] = IF g = f THEN NoFile ELSE dir[g]
  BY DEF Drop
<1> QED
  BY <1>1, <1>2

LEMMA RecoverStep ==
  ASSUME Sequential, InstallerInv, NEW p \in Procs, Recover(p)
  PROVE  InstallerInv'
<1>a. TypeOK /\ DiskOK /\ proc[p].at # "idle" /\ UNCHANGED keys /\ \A q \in Procs : q = p
  BY DiskIs DEF Recover, Sequential
<1>b. "plan" \in Places /\ "undoing" \in Places
  BY DEF Places
<1>1. CASE marker = NoFile /\ Goto(p, "plan") /\ UNCHANGED disk
  <2>1. DiskOK' /\ marker' = NoFile
    BY <1>a, <1>1, DiskKept DEF disk
  <2>2. ProcsOK' /\ proc'[p].at = "plan"
    BY <1>a, <1>b, <1>1, GotoFacts
  <2> QED
    BY <2>1, <2>2, Parked
<1>2. CASE /\ marker # NoFile /\ marker.committed
           /\ kept' = Drop(FilesOf(marker.files), kept)
           /\ staged' = Drop(FilesOf(marker.files), staged)
           /\ marker' = NoFile /\ Goto(p, "plan") /\ UNCHANGED home
  <2>1. DiskOK'
    BY <1>a, <1>2, DropFacts DEF DiskOK, UndoIsPossible
  <2>2. ProcsOK' /\ proc'[p].at = "plan"
    BY <1>a, <1>b, <1>2, GotoFacts
  <2> QED
    BY <1>2, <2>1, <2>2, Parked
<1>3. CASE marker # NoFile /\ ~marker.committed /\ Begin(p, "undoing", marker.files) /\ UNCHANGED disk
  <2>1. DiskOK' /\ UNCHANGED <<home, kept, marker>>
    BY <1>a, <1>3, DiskKept DEF disk
  <2>2. ProcsOK' /\ proc'[p].at = "undoing" /\ proc'[p].plan = marker.files /\ proc'[p].i = 1
    BY <1>a, <1>b, <1>3, BeginFacts
  <2>3. IsPlan(marker.files, keys)
    BY <1>a, <1>3 DEF DiskOK
  <2>4. DOMAIN marker.files = 1 .. Len(marker.files) /\ Len(marker.files) \in Nat
    BY <2>3, PlanFacts
  <2>5. Undoes(proc[p])'
    BY <1>3, <2>1, <2>2, <2>4 DEF Undoes, Updates
  <2> QED
    BY <2>1, <2>2, <2>5, Updating
<1> QED
  BY <1>1, <1>2, <1>3 DEF Recover

\* What is put back depends on the files and the copies only through Restored.
LEMMA SameUndone ==
  ASSUME NEW plan, NEW n, IsPlan(plan, n), NEW files, NEW copies, NEW files2, NEW copies2,
         \A j \in DOMAIN plan : Restored(plan[j], files2, copies2) = Restored(plan[j], files, copies),
         \A f \in Files \ FilesOf(plan) : files2[f] = files[f]
  PROVE  Undone(plan, files2, copies2) = Undone(plan, files, copies)
<1>1. \A f \in FilesOf(plan) : \E j \in DOMAIN plan : ChangeOf(plan, f) = plan[j]
  BY PlanFacts
<1> QED
  BY <1>1 DEF Undone

LEMMA RollBackStep ==
  ASSUME Sequential, InstallerInv, NEW p \in Procs, RollBack(p)
  PROVE  InstallerInv'
<1>a. TypeOK /\ DiskOK /\ proc[p].at # "idle" /\ UNCHANGED keys /\ proc[p].at \in {"undo", "undoing"}
  BY DiskIs DEF RollBack
<1> DEFINE plan == proc[p].plan
           i == proc[p].i
<1>b. Undoes(proc[p])
  BY <1>a DEF InstallerInv, UpdateInv
<1>c. /\ marker # NoFile /\ ~marker.committed /\ marker.files = plan /\ i \in 1 .. Len(plan) + 1
      /\ \A j \in DOMAIN plan : j < i => Restored(plan[j], home, kept) = home[plan[j].file]
  BY <1>b DEF Undoes, Updates
<1>d. IsPlan(plan, keys) /\ Whole(Undone(plan, home, kept))
  BY <1>a, <1>c DEF DiskOK, UndoIsPossible
<1>e. /\ Len(plan) \in Nat /\ DOMAIN plan = 1 .. Len(plan)
      /\ \A j \in DOMAIN plan : plan[j].file \in Files /\ plan[j].file \in FilesOf(plan)
      /\ \A j, k \in DOMAIN plan : plan[j].file = plan[k].file => j = k
  BY <1>d, PlanFacts
<1>f. IsDir(home, keys) /\ IsDir(kept, keys) /\ IsDir(staged, keys)
  BY <1>a DEF DiskOK
<1>1. CASE i > Len(plan)
  <2>1. /\ marker' = NoFile /\ UNCHANGED <<home, staged, kept>>
        /\ Goto(p, IF proc[p].at = "undo" THEN "release" ELSE "plan")
    BY <1>1 DEF RollBack
  <2>2. \A f \in Files : Undone(plan, home, kept)[f] = home[f]
    <3>1. \A j \in DOMAIN plan : Restored(plan[j], home, kept) = home[plan[j].file]
      BY <1>1, <1>c, <1>e
    <3> QED
      BY <1>d, <3>1, UndoneFacts, PlanFacts
  <2>3. Undone(plan, home, kept) = home
    <3>1. home = [f \in Files |-> home[f]]
      BY <1>f DEF IsDir
    <3>2. Undone(plan, home, kept) = [f \in Files |-> Undone(plan, home, kept)[f]]
      BY DEF Undone
    <3> HIDE DEF plan
    <3> QED
      BY <2>2, <3>1, <3>2
  <2>4. DiskOK'
    BY <1>a, <1>d, <2>1, <2>3 DEF DiskOK, UndoIsPossible
  <2>5. "release" \in Places /\ "plan" \in Places /\ "release" \in Outside
    BY DEF Places, Outside
  <2>6. ProcsOK' /\ proc'[p].at \in {"release", "plan"}
    BY <1>a, <2>1, <2>5, GotoFacts
  <2> QED
    BY <2>1, <2>4, <2>5, <2>6, Parked
<1>2. CASE ~(i > Len(plan))
  <2> DEFINE change == plan[i]
             f == change.file
  <2>1. i \in DOMAIN plan /\ i \in Nat /\ f \in Files /\ f \in FilesOf(plan)
    BY <1>2, <1>c, <1>e
  <2>2. /\ home' = [home EXCEPT ![f] = Restored(change, home, kept)]
        /\ kept' = (IF change.existed THEN Drop({f}, kept) ELSE kept)
        /\ staged' = Drop({f}, staged)
        /\ proc' = [proc EXCEPT ![p].i = @ + 1] /\ UNCHANGED marker
    BY <1>2 DEF RollBack
  <2>3. ProcsOK' /\ proc'[p].at = proc[p].at /\ proc'[p].plan = plan /\ proc'[p].i = i + 1
    <3> DEFINE c == [proc[p] EXCEPT !.i = proc[p].i + 1]
    <3>1. IsCommand(proc[p]) /\ proc[p].i + 1 \in Nat
      BY <1>a, <2>1, Running
    <3>2. IsCommand(c) /\ c.at = proc[p].at /\ c.plan = proc[p].plan /\ c.i = proc[p].i + 1
      BY <3>1 DEF IsCommand
    <3>3. proc' = [proc EXCEPT ![p] = c]
      BY <2>2
    <3> HIDE DEF c
    <3> QED
      BY <1>a, <3>2, <3>3, ProcMoves DEF ProcsOK
  <2>4. /\ home' = [g \in Files |-> home'[g]] /\ home'[f] = Restored(change, home, kept)
        /\ \A g \in Files \ {f} : home'[g] = home[g]
    BY <1>f, <2>1, <2>2 DEF IsDir
  <2>5. /\ IsDir(kept', keys) /\ IsDir(staged', keys)
        /\ \A g \in Files \ {f} : kept'[g] = kept[g]
        /\ change.existed => kept'[f] = NoFile
    <3> DEFINE one == Drop({f}, kept)
    <3>1. IsDir(one, keys) /\ one[f] = NoFile /\ \A g \in Files \ {f} : one[g] = kept[g]
      BY <1>f, <2>1, DropOne
    <3>2. IsDir(staged', keys)
      BY <1>f, <2>1, <2>2, DropOne
    <3>3. kept' = one \/ (~change.existed /\ kept' = kept)
      BY <2>2
    <3> HIDE DEF one, f, change
    <3> QED
      BY <1>f, <3>1, <3>2, <3>3
  <2>6. IsDir(home', keys)
    BY <1>f, <2>1, <2>4 DEF IsDir, Restored
  <2>7. \A j \in DOMAIN plan : Restored(plan[j], home', kept') = Restored(plan[j], home, kept)
    BY <1>e, <2>1, <2>4, <2>5 DEF Restored
  <2>8. \A g \in Files \ FilesOf(plan) : home'[g] = home[g]
    BY <2>1, <2>4
  <2>9. Undone(plan, home', kept') = Undone(plan, home, kept)
    BY <1>d, <2>7, <2>8, SameUndone
  <2>10. DiskOK'
    <3>1. Whole(Undone(marker'.files, home', kept'))
      BY <1>c, <1>d, <2>2, <2>9
    <3>2. marker' = marker /\ keys' = keys
      BY <1>a, <2>2
    <3> QED
      BY <1>a, <1>c, <2>5, <2>6, <3>1, <3>2 DEF DiskOK, UndoIsPossible
  <2>11. Undoes(proc[p])'
    <3>1. \A j \in DOMAIN plan : j < i + 1 => Restored(plan[j], home', kept') = home'[plan[j].file]
      BY <1>c, <1>e, <2>1, <2>4, <2>7
    <3>2. i + 1 \in 1 .. Len(plan) + 1
      BY <1>e, <2>1
    <3> QED
      BY <1>c, <2>2, <2>3, <3>1, <3>2 DEF Undoes, Updates
  <2> QED
    BY <1>a, <2>3, <2>10, <2>11, Updating
<1> QED
  BY <1>1, <1>2

-----------------------------------------------------------------------------
\* The file that a stage of an update is at
LEMMA PreparesFacts ==
  ASSUME InstallerInv, NEW p \in Procs, proc[p].at \in {"stage", "backup", "mark"}
  PROVE  /\ TypeOK /\ DiskOK /\ Prepares(proc[p]) /\ marker = NoFile
         /\ IsPlan(proc[p].plan, keys) /\ proc[p].i \in DOMAIN proc[p].plan
         /\ Whole(Target(proc[p].plan, home))
<1>1. Prepares(proc[p])
  BY DEF InstallerInv, UpdateInv
<1> QED
  BY <1>1, DiskIs DEF Prepares

LEMMA StageStep ==
  ASSUME Sequential, InstallerInv, NEW p \in Procs, Stage(p)
  PROVE  InstallerInv'
<1> DEFINE plan == proc[p].plan
           i == proc[p].i
           f == plan[i].file
<1>a. /\ proc[p].at = "stage" /\ proc[p].at # "idle" /\ UNCHANGED <<home, kept, marker, keys>>
      /\ staged' = [staged EXCEPT ![f] = plan[i].doc]
      /\ Step(p, Len(plan), "backup")
  BY DEF Stage
<1>b. /\ TypeOK /\ DiskOK /\ Prepares(proc[p]) /\ marker = NoFile /\ IsPlan(plan, keys)
      /\ i \in DOMAIN plan /\ Whole(Target(plan, home))
  BY <1>a, PreparesFacts
<1>c. /\ Len(plan) \in Nat /\ Len(plan) > 0 /\ DOMAIN plan = 1 .. Len(plan)
      /\ \A j \in DOMAIN plan : plan[j].file \in Files /\ plan[j].doc \in Documents(plan[j].file, keys)
      /\ \A j, k \in DOMAIN plan : plan[j].file = plan[k].file => j = k
  BY <1>b, PlanFacts
<1>d. \A j \in DOMAIN plan : /\ plan[j].existed <=> home[plan[j].file] # NoFile
                             /\ j < i => staged[plan[j].file] = plan[j].doc
  BY <1>a, <1>b DEF Prepares
<1>e. "backup" \in Places
  BY DEF Places
<1>1. /\ ProcsOK' /\ proc'[p].plan = plan
      /\ i = Len(plan) => proc'[p].at = "backup" /\ proc'[p].i = 1
      /\ i # Len(plan) => proc'[p].at = "stage" /\ proc'[p].i = i + 1
  BY <1>a, <1>b, <1>e, StepFacts
<1>2. IsDir(staged, keys)
  BY <1>b DEF DiskOK
<1>3. /\ staged' = [g \in Files |-> staged'[g]] /\ staged'[f] = plan[i].doc
      /\ \A g \in Files \ {f} : staged'[g] = staged[g]
  BY <1>a, <1>b, <1>c, <1>2 DEF IsDir
<1>4. IsDir(staged', keys)
  BY <1>b, <1>c, <1>2, <1>3 DEF IsDir
<1>5. DiskOK'
  BY <1>a, <1>b, <1>4 DEF DiskOK, UndoIsPossible
<1>6. \A j \in DOMAIN plan : j < i + 1 => staged'[plan[j].file] = plan[j].doc
  BY <1>b, <1>c, <1>d, <1>3
<1>7. Prepares(proc[p])'
  <2>1. proc'[p].i \in DOMAIN plan
    BY <1>b, <1>c, <1>1
  <2>2. \A j \in DOMAIN plan : proc'[p].at # "stage" \/ j < proc'[p].i => staged'[plan[j].file] = plan[j].doc
    BY <1>b, <1>c, <1>1, <1>6
  <2>3. \A j \in DOMAIN plan : ~(proc'[p].at = "mark" \/ (proc'[p].at = "backup" /\ j < proc'[p].i))
    BY <1>c, <1>1
  <2> QED
    BY <1>a, <1>b, <1>d, <1>1, <2>1, <2>2, <2>3 DEF Prepares
<1> QED
  BY <1>1, <1>5, <1>7, Updating

LEMMA BackupStep ==
  ASSUME Sequential, InstallerInv, NEW p \in Procs, Backup(p)
  PROVE  InstallerInv'
<1> DEFINE plan == proc[p].plan
           i == proc[p].i
           f == plan[i].file
<1>a. /\ proc[p].at = "backup" /\ proc[p].at # "idle" /\ UNCHANGED <<home, staged, marker, keys>>
      /\ kept' = (IF plan[i].existed THEN [kept EXCEPT ![f] = home[f]] ELSE kept)
      /\ Step(p, Len(plan), "mark")
  BY DEF Backup
<1>b. /\ TypeOK /\ DiskOK /\ Prepares(proc[p]) /\ marker = NoFile /\ IsPlan(plan, keys)
      /\ i \in DOMAIN plan /\ Whole(Target(plan, home))
  BY <1>a, PreparesFacts
<1>c. /\ Len(plan) \in Nat /\ Len(plan) > 0 /\ DOMAIN plan = 1 .. Len(plan)
      /\ \A j \in DOMAIN plan : plan[j].file \in Files
      /\ \A j, k \in DOMAIN plan : plan[j].file = plan[k].file => j = k
  BY <1>b, PlanFacts
<1>d. \A j \in DOMAIN plan :
        /\ plan[j].existed <=> home[plan[j].file] # NoFile
        /\ staged[plan[j].file] = plan[j].doc
        /\ plan[j].existed /\ j < i => kept[plan[j].file] = home[plan[j].file]
  BY <1>a, <1>b DEF Prepares
<1>e. "mark" \in Places
  BY DEF Places
<1>1. /\ ProcsOK' /\ proc'[p].plan = plan
      /\ i = Len(plan) => proc'[p].at = "mark" /\ proc'[p].i = 1
      /\ i # Len(plan) => proc'[p].at = "backup" /\ proc'[p].i = i + 1
  BY <1>a, <1>b, <1>e, StepFacts
<1>2. IsDir(kept, keys) /\ IsDir(home, keys)
  BY <1>b DEF DiskOK
<1>3. /\ kept' = [g \in Files |-> kept'[g]] /\ (plan[i].existed => kept'[f] = home[f])
      /\ \A g \in Files : kept'[g] = kept[g] \/ (g = f /\ kept'[g] = home[f])
      /\ \A g \in Files \ {f} : kept'[g] = kept[g]
  <2>1. kept = [g \in Files |-> kept[g]] /\ f \in Files
    BY <1>b, <1>c, <1>2 DEF IsDir
  <2>2. CASE plan[i].existed
    <3>1. kept' = [kept EXCEPT ![f] = home[f]]
      BY <1>a, <2>2
    <3> HIDE DEF f
    <3> QED
      BY <2>1, <3>1
  <2>3. CASE ~plan[i].existed
    BY <1>a, <2>1, <2>3
  <2> QED
    BY <2>2, <2>3
<1>4. IsDir(kept', keys)
  BY <1>b, <1>c, <1>2, <1>3 DEF IsDir
<1>5. DiskOK'
  BY <1>a, <1>b, <1>4 DEF DiskOK, UndoIsPossible
<1>6. \A j \in DOMAIN plan : plan[j].existed /\ j < i + 1 => kept'[plan[j].file] = home[plan[j].file]
  BY <1>b, <1>c, <1>d, <1>3
<1>7. Prepares(proc[p])'
  <2>1. proc'[p].i \in DOMAIN plan
    BY <1>b, <1>c, <1>1
  <2>2. \A j \in DOMAIN plan :
          plan[j].existed /\ (proc'[p].at = "mark" \/ (proc'[p].at = "backup" /\ j < proc'[p].i)) =>
            kept'[plan[j].file] = home[plan[j].file]
    BY <1>b, <1>c, <1>1, <1>6
  <2> QED
    BY <1>a, <1>b, <1>d, <1>1, <2>1, <2>2 DEF Prepares
<1> QED
  BY <1>1, <1>5, <1>7, Updating

LEMMA SameTarget ==
  ASSUME NEW plan, NEW files, NEW files2, \A f \in Files \ FilesOf(plan) : files2[f] = files[f]
  PROVE  Target(plan, files2) = Target(plan, files)
  BY DEF Target

\* A marker is a file.
LEMMA MarkerIsFile ==
  ASSUME TypeOK, NEW plan, IsPlan(plan, keys), NEW done \in BOOLEAN
  PROVE  [committed |-> done, files |-> plan] # NoFile
<1>1. IsPlan(plan, MaxKeys)
  <2>1. keys \in Nat /\ MaxKeys \in Nat /\ keys <= MaxKeys
    BY InstallerAssumption DEF TypeOK
  <2> QED
    BY <2>1, DocumentsGrow
<1>2. plan \in Seq(Changes(MaxKeys))
  BY <1>1 DEF IsPlan
<1>3. [committed |-> done, files |-> plan] \in [committed: BOOLEAN, files: Seq(Changes(MaxKeys))]
  BY <1>2
<1> QED
  BY <1>3, InstallerAssumption

LEMMA WriteMarkerStep ==
  ASSUME Sequential, InstallerInv, NEW p \in Procs, WriteMarker(p)
  PROVE  InstallerInv'
<1> DEFINE plan == proc[p].plan
<1>a. /\ UNCHANGED <<home, staged, kept, keys>> /\ proc[p].at # "idle" /\ TypeOK /\ DiskOK
      /\ marker' = [committed |-> proc[p].at = "commit", files |-> plan]
      /\ Begin(p, IF proc[p].at = "mark" THEN "rename" ELSE "clean", plan)
  BY DiskIs DEF WriteMarker
<1>b. "rename" \in Places /\ "clean" \in Places
  BY DEF Places
<1>c. IsDir(home, keys) /\ home = [f \in Files |-> home[f]]
  BY <1>a DEF DiskOK, IsDir
<1>1. CASE proc[p].at = "mark"
  <2>1. /\ Prepares(proc[p]) /\ marker = NoFile /\ IsPlan(plan, keys) /\ Whole(Target(plan, home))
        /\ Whole(home)
    BY <1>a, <1>1, PreparesFacts DEF DiskOK
  <2>2. \A j \in DOMAIN plan :
          /\ plan[j].existed <=> home[plan[j].file] # NoFile
          /\ staged[plan[j].file] = plan[j].doc
          /\ plan[j].existed => kept[plan[j].file] = home[plan[j].file]
    BY <1>1, <2>1 DEF Prepares
  <2>3. Undone(plan, home, kept) = home
    <3>1. \A j \in DOMAIN plan : Restored(plan[j], home, kept) = home[plan[j].file]
      BY <2>2 DEF Restored
    <3>2. \A f \in Files : Undone(plan, home, kept)[f] = home[f]
      BY <2>1, <3>1, UndoneFacts, PlanFacts
    <3>3. Undone(plan, home, kept) = [f \in Files |-> Undone(plan, home, kept)[f]]
      BY DEF Undone
    <3> HIDE DEF plan
    <3> QED
      BY <1>c, <3>2, <3>3
  <2>4. /\ marker' # NoFile /\ ~marker'.committed /\ marker'.files = plan
        /\ marker' \in [committed: BOOLEAN, files: {marker'.files}]
    <3>1. marker' = [committed |-> FALSE, files |-> plan]
      BY <1>a, <1>1
    <3>2. [committed |-> FALSE, files |-> plan] # NoFile
      BY <1>a, <2>1, MarkerIsFile
    <3> QED
      BY <3>1, <3>2
  <2>5. DiskOK'
    <3>1. Whole(Undone(marker'.files, home', kept'))
      BY <1>a, <2>1, <2>3, <2>4
    <3> QED
      BY <1>a, <2>1, <2>4, <3>1 DEF DiskOK, UndoIsPossible
  <2>6. ProcsOK' /\ proc'[p].at = "rename" /\ proc'[p].plan = plan /\ proc'[p].i = 1
    BY <1>a, <1>b, <1>1, BeginFacts
  <2>7. Renames(proc[p])'
    <3>1. 1 \in DOMAIN plan /\ \A j \in DOMAIN plan : ~(j < 1)
      BY <2>1, PlanFacts
    <3>2. \A j \in DOMAIN plan : plan[j].existed => kept[plan[j].file] # NoFile
      BY <2>2
    <3> QED
      BY <1>a, <2>1, <2>2, <2>4, <2>6, <3>1, <3>2 DEF Renames, Updates
  <2> QED
    BY <2>5, <2>6, <2>7, Updating
<1>2. CASE proc[p].at = "commit"
  <2>1. Renames(proc[p])
    BY <1>2 DEF InstallerInv, UpdateInv
  <2>2. /\ marker # NoFile /\ marker.files = plan /\ Whole(Target(plan, home))
        /\ \A j \in DOMAIN plan : home[plan[j].file] = plan[j].doc
    BY <1>2, <2>1 DEF Renames, Updates
  <2>3. IsPlan(plan, keys)
    BY <1>a, <2>2 DEF DiskOK
  <2>4. Whole(home)
    <3>1. \A f \in Files : Target(plan, home)[f] = home[f]
      BY <2>2, <2>3, TargetFacts, PlanFacts
    <3>2. Target(plan, home) = [f \in Files |-> Target(plan, home)[f]]
      BY DEF Target
    <3> HIDE DEF plan
    <3> QED
      BY <1>c, <2>2, <3>1, <3>2
  <2>5. /\ marker' # NoFile /\ marker'.committed /\ marker'.files = plan
        /\ marker' \in [committed: BOOLEAN, files: {marker'.files}]
    <3>1. marker' = [committed |-> TRUE, files |-> plan]
      BY <1>a, <1>2
    <3>2. [committed |-> TRUE, files |-> plan] # NoFile
      BY <1>a, <2>3, MarkerIsFile
    <3> QED
      BY <3>1, <3>2
  <2>6. DiskOK'
    BY <1>a, <2>3, <2>4, <2>5 DEF DiskOK, UndoIsPossible
  <2>7. ProcsOK' /\ proc'[p].at = "clean"
    BY <1>a, <1>b, <1>2, BeginFacts
  <2> QED
    BY <2>5, <2>6, <2>7, Parked
<1> QED
  BY <1>1, <1>2 DEF WriteMarker

LEMMA RenamesFacts ==
  ASSUME InstallerInv, NEW p \in Procs, proc[p].at \in {"rename", "commit"}
  PROVE  /\ TypeOK /\ DiskOK /\ Renames(proc[p]) /\ IsPlan(proc[p].plan, keys)
         /\ marker # NoFile /\ ~marker.committed /\ marker.files = proc[p].plan
         /\ Whole(Target(proc[p].plan, home)) /\ Whole(Undone(proc[p].plan, home, kept))
<1>1. Renames(proc[p])
  BY DEF InstallerInv, UpdateInv
<1>2. /\ marker # NoFile /\ ~marker.committed /\ marker.files = proc[p].plan
      /\ Whole(Target(proc[p].plan, home))
  BY <1>1 DEF Renames, Updates
<1> QED
  BY <1>1, <1>2, DiskIs DEF DiskOK, UndoIsPossible

LEMMA RenameStep ==
  ASSUME Sequential, InstallerInv, NEW p \in Procs, Rename(p)
  PROVE  InstallerInv'
<1> DEFINE plan == proc[p].plan
           i == proc[p].i
           f == plan[i].file
<1>a. /\ proc[p].at = "rename" /\ proc[p].at # "idle" /\ UNCHANGED <<kept, marker, keys>>
      /\ home' = [home EXCEPT ![f] = staged[f]] /\ staged' = Drop({f}, staged)
      /\ Step(p, Len(plan), "commit")
  BY DEF Rename
<1>b. /\ TypeOK /\ DiskOK /\ Renames(proc[p]) /\ IsPlan(plan, keys)
      /\ marker # NoFile /\ ~marker.committed /\ marker.files = plan
      /\ Whole(Target(plan, home)) /\ Whole(Undone(plan, home, kept))
  BY <1>a, RenamesFacts
<1>c. /\ i \in DOMAIN plan
      /\ \A j \in DOMAIN plan :
           /\ plan[j].existed => kept[plan[j].file] # NoFile
           /\ j < i => home[plan[j].file] = plan[j].doc
           /\ i <= j => staged[plan[j].file] = plan[j].doc
  BY <1>a, <1>b DEF Renames
<1>d. /\ Len(plan) \in Nat /\ Len(plan) > 0 /\ DOMAIN plan = 1 .. Len(plan)
      /\ \A j \in DOMAIN plan : /\ plan[j].file \in Files /\ plan[j].file \in FilesOf(plan)
                                /\ plan[j].doc \in Documents(plan[j].file, keys)
      /\ \A j, k \in DOMAIN plan : plan[j].file = plan[k].file => j = k
  BY <1>b, PlanFacts
<1>e. "commit" \in Places
  BY DEF Places
<1>1. /\ ProcsOK' /\ proc'[p].plan = plan
      /\ i = Len(plan) => proc'[p].at = "commit" /\ proc'[p].i = 1
      /\ i # Len(plan) => proc'[p].at = "rename" /\ proc'[p].i = i + 1
  BY <1>a, <1>b, <1>e, StepFacts
<1>2. IsDir(home, keys) /\ IsDir(staged, keys)
  BY <1>b DEF DiskOK
<1>3. f \in Files /\ f \in FilesOf(plan) /\ staged[f] = plan[i].doc /\ plan[i].doc \in Documents(f, keys)
  BY <1>c, <1>d
<1>4. /\ home' = [g \in Files |-> home'[g]] /\ home'[f] = plan[i].doc
      /\ \A g \in Files \ {f} : home'[g] = home[g]
  <2>1. home = [g \in Files |-> home[g]]
    BY <1>2 DEF IsDir
  <2>2. home' = [home EXCEPT ![f] = plan[i].doc] /\ f \in Files
    BY <1>a, <1>3
  <2> HIDE DEF f, i, plan
  <2> QED
    BY <2>1, <2>2
<1>5. IsDir(home', keys)
  BY <1>2, <1>3, <1>4 DEF IsDir
<1>6. IsDir(staged', keys) /\ \A g \in Files \ {f} : staged'[g] = staged[g]
  <2>1. staged' = Drop({f}, staged)
    BY <1>a
  <2> HIDE DEF f
  <2> QED
    BY <1>2, <1>3, <2>1, DropOne
<1>7. \A g \in Files \ FilesOf(plan) : home'[g] = home[g]
  BY <1>3, <1>4
<1>8. Undone(plan, home', kept) = Undone(plan, home, kept)
  <2>1. \A j \in DOMAIN plan : Restored(plan[j], home', kept) = Restored(plan[j], home, kept)
    BY <1>c DEF Restored
  <2> QED
    BY <1>b, <1>7, <2>1, SameUndone
<1>9. Target(plan, home') = Target(plan, home)
  BY <1>7, SameTarget
<1>10. DiskOK'
  <2>1. Whole(Undone(marker'.files, home', kept')) /\ UNCHANGED <<kept, marker, keys>>
    BY <1>a, <1>b, <1>8
  <2> QED
    BY <1>b, <1>5, <1>6, <2>1 DEF DiskOK, UndoIsPossible
<1>11. /\ \A j \in DOMAIN plan : j < i + 1 => home'[plan[j].file] = plan[j].doc
       /\ \A j \in DOMAIN plan : i + 1 <= j => staged'[plan[j].file] = plan[j].doc
  BY <1>c, <1>d, <1>4, <1>6
<1>12. Renames(proc[p])'
  <2>1. proc'[p].at = "rename" => proc'[p].i \in DOMAIN plan
    BY <1>c, <1>d, <1>1
  <2>2. \A j \in DOMAIN plan :
          /\ proc'[p].at = "commit" \/ j < proc'[p].i => home'[plan[j].file] = plan[j].doc
          /\ proc'[p].at = "rename" /\ proc'[p].i <= j => staged'[plan[j].file] = plan[j].doc
    BY <1>c, <1>d, <1>1, <1>11
  <2>3. Whole(Target(plan, home'))
    BY <1>b, <1>9
  <2>4. \A j \in DOMAIN plan : plan[j].existed => kept'[plan[j].file] # NoFile
    BY <1>a, <1>c
  <2>5. marker' # NoFile /\ ~marker'.committed /\ marker'.files = plan /\ proc'[p].plan = plan
    BY <1>a, <1>b, <1>1
  <2> HIDE DEF plan
  <2> QED
    BY <2>1, <2>2, <2>3, <2>4, <2>5 DEF Renames, Updates
<1> QED
  BY <1>1, <1>10, <1>12, Updating

LEMMA CleanUpStep ==
  ASSUME Sequential, InstallerInv, NEW p \in Procs, CleanUp(p)
  PROVE  InstallerInv'
<1>a. /\ TypeOK /\ DiskOK /\ proc[p].at # "idle" /\ UNCHANGED <<home, staged, keys>>
      /\ marker # NoFile /\ marker.committed
  BY DiskIs DEF CleanUp, InstallerInv, MarkerInv
<1>b. "unmark" \in Places /\ "release" \in Places /\ "release" \in Outside
  BY DEF Places, Outside
<1>c. IsDir(kept, keys)
  BY <1>a DEF DiskOK
<1>1. CASE proc[p].at = "clean"
  <2>1. kept' = Drop(FilesOf(proc[p].plan), kept) /\ Goto(p, "unmark") /\ UNCHANGED marker
    BY <1>1 DEF CleanUp
  <2>2. IsDir(kept', keys)
    BY <1>c, <2>1, DropFacts
  <2>3. DiskOK'
    BY <1>a, <2>1, <2>2 DEF DiskOK, UndoIsPossible
  <2>4. ProcsOK' /\ proc'[p].at = "unmark"
    BY <1>a, <1>b, <2>1, GotoFacts
  <2> QED
    BY <1>a, <2>1, <2>3, <2>4, Parked
<1>2. CASE proc[p].at # "clean"
  <2>1. marker' = NoFile /\ Goto(p, "release") /\ UNCHANGED kept
    BY <1>2 DEF CleanUp
  <2>2. DiskOK'
    BY <1>a, <2>1 DEF DiskOK, UndoIsPossible
  <2>3. ProcsOK' /\ proc'[p].at = "release"
    BY <1>a, <1>b, <2>1, GotoFacts
  <2> QED
    BY <1>b, <2>2, <2>3, Parked
<1> QED
  BY <1>1, <1>2

LEMMA OperationFailsStep ==
  ASSUME Sequential, InstallerInv, NEW p \in Procs, OperationFails(p)
  PROVE  InstallerInv'
<1>a. /\ TypeOK /\ DiskOK /\ proc[p].at # "idle" /\ UNCHANGED <<home, keys>>
      /\ proc[p].at \in {"stage", "backup", "mark", "rename", "commit", "clean",
                         "unmark", "undo", "undoing"}
  BY DiskIs DEF OperationFails
<1>b. "undo" \in Places /\ "release" \in Places /\ "release" \in Outside
  BY DEF Places, Outside
<1>c. IsDir(kept, keys) /\ IsDir(staged, keys)
  BY <1>a DEF DiskOK
<1>1. CASE proc[p].at \in {"stage", "backup", "mark"}
  <2>1. /\ staged' = Drop(FilesOf(proc[p].plan), staged)
        /\ kept' = Drop(FilesOf(proc[p].plan), kept) /\ marker' = NoFile
        /\ Goto(p, "release")
    BY <1>1 DEF OperationFails
  <2>2. IsDir(kept', keys) /\ IsDir(staged', keys)
    BY <1>c, <2>1, DropFacts
  <2>3. Whole(home)
    BY <1>a, <1>1, PreparesFacts DEF DiskOK
  <2>4. DiskOK'
    BY <1>a, <2>1, <2>2, <2>3 DEF DiskOK, UndoIsPossible
  <2>5. ProcsOK' /\ proc'[p].at = "release"
    BY <1>a, <1>b, <2>1, GotoFacts
  <2> QED
    BY <1>b, <2>4, <2>5, Parked
<1>2. CASE proc[p].at \in {"rename", "commit"}
  <2>1. Begin(p, "undo", proc[p].plan) /\ UNCHANGED <<staged, kept, marker>>
    BY <1>2 DEF OperationFails
  <2>2. DiskOK'
    BY <1>a, <2>1, DiskKept
  <2>3. ProcsOK' /\ proc'[p].at = "undo" /\ proc'[p].plan = proc[p].plan /\ proc'[p].i = 1
    BY <1>a, <1>b, <2>1, BeginFacts
  <2>4. Updates(proc[p]) /\ IsPlan(proc[p].plan, keys)
    BY <1>2, RenamesFacts DEF Updates
  <2>5. /\ 1 \in 1 .. Len(proc[p].plan) + 1
        /\ \A j \in DOMAIN proc[p].plan : ~(j < 1)
    BY <2>4, PlanFacts
  <2>6. Undoes(proc[p])'
    BY <2>1, <2>3, <2>4, <2>5 DEF Undoes, Updates
  <2> QED
    BY <2>2, <2>3, <2>6, Updating
<1>3. CASE proc[p].at \in {"clean", "unmark", "undo", "undoing"}
  <2>1. Goto(p, "release") /\ UNCHANGED <<staged, kept, marker>>
    BY <1>3 DEF OperationFails
  <2>2. DiskOK'
    BY <1>a, <2>1, DiskKept
  <2>3. ProcsOK' /\ proc'[p].at = "release"
    BY <1>a, <1>b, <2>1, GotoFacts
  <2> QED
    BY <1>b, <2>2, <2>3, Parked
<1> QED
  BY <1>a, <1>1, <1>2, <1>3

-----------------------------------------------------------------------------
\* The changes of a command, F its files and h the home they make
Makes(plan, n, F, h) ==
  /\ plan \in Seq(Changes(n)) /\ FilesOf(plan) = F
  /\ \A i, j \in DOMAIN plan : plan[i].file = plan[j].file => i = j
  /\ \A j \in DOMAIN plan : /\ plan[j].existed <=> home[plan[j].file] # NoFile
                            /\ plan[j].doc = h[plan[j].file]

LEMMA ChangeFacts ==
  ASSUME NEW n, NEW f \in Files, NEW doc \in Documents(f, n)
  PROVE  /\ Change(f, doc) \in Changes(n) /\ Change(f, doc).file = f /\ Change(f, doc).doc = doc
         /\ Change(f, doc).existed <=> home[f] # NoFile
<1> DEFINE e == home[f] # NoFile
<1>1. Change(f, doc) = [file |-> f, doc |-> doc, existed |-> e] /\ e \in BOOLEAN
  BY DEF Change, Has
<1>2. e <=> home[f] # NoFile
  OBVIOUS
<1> HIDE DEF e
<1> QED
  BY <1>1, <1>2 DEF Changes

LEMMA MakesNone ==
  ASSUME NEW n, NEW h
  PROVE  Makes(<<>>, n, {}, h)
  BY DEF Makes, FilesOf

LEMMA MakesOne ==
  ASSUME NEW n, NEW h, NEW f \in Files, NEW doc \in Documents(f, n), h[f] = doc
  PROVE  Makes(<<Change(f, doc)>>, n, {f}, h)
<1> DEFINE c == Change(f, doc)
           s == <<c>>
<1>1. c \in Changes(n) /\ c.file = f /\ c.doc = doc /\ (c.existed <=> home[f] # NoFile)
  BY ChangeFacts
<1> HIDE DEF c
<1>2. s \in Seq(Changes(n)) /\ DOMAIN s = {1} /\ s[1] = c
  BY <1>1
<1> HIDE DEF s
<1>3. FilesOf(s) = {f}
  BY <1>1, <1>2 DEF FilesOf
<1>4. Makes(s, n, {f}, h)
  BY <1>1, <1>2, <1>3 DEF Makes
<1> QED
  BY <1>4 DEF s, c

LEMMA MakesBoth ==
  ASSUME NEW n, NEW h, NEW s, NEW t, NEW F, NEW G, Makes(s, n, F, h), Makes(t, n, G, h),
         F \cap G = {}
  PROVE  Makes(s \o t, n, F \cup G, h)
<1> DEFINE u == s \o t
<1>1. /\ s \in Seq(Changes(n)) /\ t \in Seq(Changes(n)) /\ u \in Seq(Changes(n))
      /\ Len(s) \in Nat /\ Len(t) \in Nat /\ Len(u) = Len(s) + Len(t)
      /\ DOMAIN s = 1 .. Len(s) /\ DOMAIN t = 1 .. Len(t) /\ DOMAIN u = 1 .. Len(u)
  BY DEF Makes
<1>2. \A i \in DOMAIN u : \/ i \in DOMAIN s /\ u[i] = s[i]
                          \/ i - Len(s) \in DOMAIN t /\ u[i] = t[i - Len(s)]
  BY <1>1
<1>3. /\ \A i \in DOMAIN s : i \in DOMAIN u /\ u[i] = s[i]
      /\ \A i \in DOMAIN t : i + Len(s) \in DOMAIN u /\ u[i + Len(s)] = t[i]
  BY <1>1
<1> HIDE DEF u
<1>4. FilesOf(s) = F /\ FilesOf(t) = G
  BY DEF Makes
<1>5. FilesOf(u) = F \cup G
  <2>1. FilesOf(u) \subseteq F \cup G
    BY <1>2, <1>4 DEF FilesOf
  <2>2. F \subseteq FilesOf(u) /\ G \subseteq FilesOf(u)
    BY <1>3, <1>4 DEF FilesOf
  <2> QED
    BY <2>1, <2>2
<1>6. \A j \in DOMAIN u : /\ u[j].existed <=> home[u[j].file] # NoFile
                          /\ u[j].doc = h[u[j].file]
  BY <1>2 DEF Makes
<1>7. ASSUME NEW i \in DOMAIN u, NEW j \in DOMAIN u, u[i].file = u[j].file
      PROVE  i = j
  <2>1. /\ \A k, l \in DOMAIN s : s[k].file = s[l].file => k = l
        /\ \A k, l \in DOMAIN t : t[k].file = t[l].file => k = l
    BY DEF Makes
  <2>2. \A k \in DOMAIN s, l \in DOMAIN t : s[k].file # t[l].file
    BY <1>4 DEF FilesOf
  <2>3. CASE i \in DOMAIN s /\ u[i] = s[i]
    BY <1>2, <1>7, <2>1, <2>2, <2>3
  <2>4. CASE i - Len(s) \in DOMAIN t /\ u[i] = t[i - Len(s)]
    <3>1. j - Len(s) \in DOMAIN t /\ u[j] = t[j - Len(s)]
      BY <1>2, <1>7, <2>2, <2>4
    <3>2. i - Len(s) = j - Len(s)
      BY <1>7, <2>1, <2>4, <3>1
    <3> QED
      BY <1>1, <3>2
  <2> QED
    BY <1>2, <2>3, <2>4
<1>8. Makes(u, n, F \cup G, h)
  BY <1>1, <1>5, <1>6, <1>7 DEF Makes
<1> QED
  BY <1>8 DEF u

LEMMA MakesTwo ==
  ASSUME NEW n, NEW h, NEW f \in Files, NEW g \in Files, f # g,
         NEW doc \in Documents(f, n), NEW doc2 \in Documents(g, n), h[f] = doc, h[g] = doc2
  PROVE  Makes(<<Change(f, doc), Change(g, doc2)>>, n, {f, g}, h)
<1> DEFINE c == Change(f, doc)
           d == Change(g, doc2)
           s == <<c, d>>
<1>1. /\ c \in Changes(n) /\ c.file = f /\ c.doc = doc /\ (c.existed <=> home[f] # NoFile)
      /\ d \in Changes(n) /\ d.file = g /\ d.doc = doc2 /\ (d.existed <=> home[g] # NoFile)
  BY ChangeFacts
<1> HIDE DEF c, d
<1>2. s \in Seq(Changes(n)) /\ DOMAIN s = {1, 2} /\ s[1] = c /\ s[2] = d
  BY <1>1
<1> HIDE DEF s
<1>3. FilesOf(s) = {f, g}
  BY <1>1, <1>2 DEF FilesOf
<1>4. Makes(s, n, {f, g}, h)
  BY <1>1, <1>2, <1>3 DEF Makes
<1> QED
  BY <1>4 DEF s, c, d

LEMMA MakesThree ==
  ASSUME NEW n, NEW h, NEW f \in Files, NEW g \in Files, NEW k \in Files, f # g, g # k, f # k,
         NEW doc \in Documents(f, n), NEW doc2 \in Documents(g, n), NEW doc3 \in Documents(k, n),
         h[f] = doc, h[g] = doc2, h[k] = doc3
  PROVE  Makes(<<Change(f, doc), Change(g, doc2), Change(k, doc3)>>, n, {f, g, k}, h)
<1> DEFINE c == Change(f, doc)
           d == Change(g, doc2)
           e == Change(k, doc3)
           s == <<c, d, e>>
<1>1. /\ c \in Changes(n) /\ c.file = f /\ c.doc = doc /\ (c.existed <=> home[f] # NoFile)
      /\ d \in Changes(n) /\ d.file = g /\ d.doc = doc2 /\ (d.existed <=> home[g] # NoFile)
      /\ e \in Changes(n) /\ e.file = k /\ e.doc = doc3 /\ (e.existed <=> home[k] # NoFile)
  BY ChangeFacts
<1> HIDE DEF c, d, e
<1>2. s \in Seq(Changes(n)) /\ DOMAIN s = {1, 2, 3} /\ s[1] = c /\ s[2] = d /\ s[3] = e
  BY <1>1
<1> HIDE DEF s
<1>3. FilesOf(s) = {f, g, k}
  BY <1>1, <1>2 DEF FilesOf
<1>4. Makes(s, n, {f, g, k}, h)
  BY <1>1, <1>2, <1>3 DEF Makes
<1> QED
  BY <1>4 DEF s, c, d, e

\* A change that a command makes to a file only if there is reason to
LEMMA MakesIf ==
  ASSUME NEW n, NEW h, NEW f \in Files, NEW doc, NEW cond \in BOOLEAN,
         cond => doc \in Documents(f, n) /\ h[f] = doc
  PROVE  Makes(If(cond, <<Change(f, doc)>>), n, IF cond THEN {f} ELSE {}, h)
<1>1. CASE cond
  <2>1. Makes(<<Change(f, doc)>>, n, {f}, h)
    BY <1>1, MakesOne
  <2> QED
    BY <1>1, <2>1 DEF If
<1>2. CASE ~cond
  BY <1>2, MakesNone DEF If
<1> QED
  BY <1>1, <1>2

\* A command whose changes make a whole home
LEMMA PlanStep ==
  ASSUME Sequential, InstallerInv, NEW p \in Procs, NEW plan, NEW new \in {0, 1}, Plan(p, plan, new),
         NEW F, F # {}, NEW h, Makes(plan, keys + new, F, h), h = [f \in Files |-> h[f]],
         \A f \in Files \ F : h[f] = home[f], Whole(h)
  PROVE  InstallerInv'
<1>a. /\ TypeOK /\ DiskOK /\ marker = NoFile /\ proc[p].at # "idle"
      /\ Begin(p, "stage", plan) /\ keys' = keys + new /\ keys' <= MaxKeys
      /\ UNCHANGED <<home, staged, kept, marker>>
  BY DiskIs DEF Plan, InstallerInv, MarkerInv, disk
<1>b. keys \in Nat /\ MaxKeys \in Nat /\ keys' \in Nat /\ keys <= keys' /\ keys' \in 0 .. MaxKeys
  BY <1>a, InstallerAssumption DEF TypeOK
<1>c. /\ plan \in Seq(Changes(keys')) /\ FilesOf(plan) = F
      /\ \A i, j \in DOMAIN plan : plan[i].file = plan[j].file => i = j
      /\ \A j \in DOMAIN plan : /\ plan[j].existed <=> home[plan[j].file] # NoFile
                                /\ plan[j].doc = h[plan[j].file]
  BY <1>a DEF Makes
<1>1. IsPlan(plan, keys')
  <2>1. DOMAIN plan = 1 .. Len(plan) /\ Len(plan) \in Nat /\ DOMAIN plan # {}
    BY <1>c DEF FilesOf
  <2> QED
    BY <1>c, <2>1 DEF IsPlan
<1>2. Target(plan, home) = h
  <2>1. \A f \in Files : Target(plan, home)[f] = h[f]
    BY <1>1, <1>c, TargetFacts, PlanFacts
  <2>2. Target(plan, home) = [f \in Files |-> Target(plan, home)[f]]
    BY DEF Target
  <2> QED
    BY <2>1, <2>2
<1>3. DiskOK'
  <2>1. IsDir(home, keys') /\ IsDir(staged, keys') /\ IsDir(kept, keys')
    BY <1>a, <1>b, DocumentsGrow DEF DiskOK
  <2> QED
    BY <1>a, <1>b, <2>1 DEF DiskOK, UndoIsPossible
<1>4. "stage" \in Places
  BY DEF Places
<1>5. ProcsOK' /\ proc'[p].at = "stage" /\ proc'[p].plan = plan /\ proc'[p].i = 1
  BY <1>a, <1>4, BeginFacts
<1>6. 1 \in DOMAIN plan /\ \A j \in DOMAIN plan : ~(j < 1)
  BY <1>1, PlanFacts
<1>7. Prepares(proc[p])'
  BY <1>a, <1>c, <1>1, <1>2, <1>5, <1>6 DEF Prepares
<1> QED
  BY <1>3, <1>5, <1>7, Updating

\* What a command finds in the home
LEMMA Found ==
  ASSUME InstallerInv, NEW p \in Procs, proc[p].at = "plan"
  PROVE  /\ keys \in Nat /\ keys \in 0 .. MaxKeys /\ Whole(home) /\ Agrees(home)
         /\ home = [f \in Files |-> home[f]]
         /\ \A f \in Files : home[f] # NoFile => home[f] \in Documents(f, keys)
         /\ \A f \in Files, n \in 0 .. MaxKeys : NoFile \notin Documents(f, n)
  BY DiskIs, InstallerAssumption DEF DiskOK, IsDir, InstallerInv, MarkerInv, Whole

LEMMA NewAccountStep ==
  ASSUME Sequential, InstallerInv, NEW p \in Procs, NEW role \in Roles, NEW url \in Urls,
         ~Has("account"), ~Has("key"), Plan(p, NewAccount(role, url), 1)
  PROVE  InstallerInv'
<1> DEFINE n == keys + 1
           cond == role = "maintainer" /\ ~Has("signer")
           key == [did |-> n]
           account == Account(n, {role}, url)
           signer == Config(n, url)
           h == [f \in Files |-> IF f = "key" THEN key ELSE IF f = "account" THEN account
                                 ELSE IF f = "signer" /\ cond THEN signer ELSE home[f]]
           F == {"key", "account"} \cup IF cond THEN {"signer"} ELSE {}
<1>a. proc[p].at = "plan" /\ n <= MaxKeys
  BY DEF Plan
<1>b. /\ keys \in Nat /\ n \in Nat /\ n \in 0 .. MaxKeys /\ n \in 1 .. n /\ Whole(home) /\ Agrees(home)
      /\ \A f \in Files, k \in 0 .. MaxKeys : NoFile \notin Documents(f, k)
  BY <1>a, Found
<1>c. home["account"] = NoFile /\ home["key"] = NoFile
  BY DEF Has
<1>d. {"key", "account", "signer", "bridge", "plugin", "installed", "draft"} \subseteq Files
  BY DEF Files
<1>1. /\ key \in Documents("key", n) /\ account \in Documents("account", n)
      /\ signer \in Documents("signer", n)
  BY <1>b DEF Documents, Account, Config
<1>2. key # NoFile /\ account # NoFile /\ signer # NoFile
  BY <1>b, <1>d, <1>1
<1>3. /\ account.did = n /\ account.url = url /\ key.did = n /\ signer = Config(account.did, account.url)
  BY DEF Account, Config
<1>4. cond \in BOOLEAN
  OBVIOUS
<1>5. Makes(NewAccount(role, url), n, F, h)
  <2> HIDE DEF n, key, account, signer, cond
  <2>1. h["key"] = key /\ h["account"] = account /\ (cond => h["signer"] = signer)
    BY <1>d
  <2> HIDE DEF h
  <2>2. Makes(<<Change("key", key), Change("account", account)>>, n, {"key", "account"}, h)
    BY <1>d, <1>1, <2>1, MakesTwo
  <2>3. Makes(If(cond, <<Change("signer", signer)>>), n, IF cond THEN {"signer"} ELSE {}, h)
    BY <1>d, <1>1, <1>4, <2>1, MakesIf
  <2>4. {"key", "account"} \cap (IF cond THEN {"signer"} ELSE {}) = {}
    OBVIOUS
  <2>5. NewAccount(role, url)
          = <<Change("key", key), Change("account", account)>> \o If(cond, <<Change("signer", signer)>>)
    BY DEF NewAccount, SignerFile, n, key, account, signer, cond
  <2> QED
    BY <2>2, <2>3, <2>4, <2>5, MakesBoth
<1>6. h = [f \in Files |-> h[f]] /\ \A f \in Files \ F : h[f] = home[f]
  OBVIOUS
<1>7. Whole(h)
  <2>1. /\ h["key"] = key /\ h["account"] = account /\ h["bridge"] = home["bridge"]
        /\ h["plugin"] = home["plugin"] /\ h["installed"] = home["installed"]
        /\ h["draft"] = home["draft"] /\ (h["signer"] = signer \/ h["signer"] = home["signer"])
    BY <1>d
  <2>2. home["bridge"] = NoFile /\ home["signer"] = NoFile
    BY <1>b, <1>c DEF Agrees
  <2> HIDE DEF h, key, account, signer, n
  <2>3. Agrees(h)
    BY <1>b, <1>2, <1>3, <2>1, <2>2 DEF Agrees
  <2> QED
    BY <1>b, <2>1, <2>3 DEF Whole
<1>8. F # {} /\ n = keys + 1
  OBVIOUS
<1> HIDE DEF F, h, n
<1> QED
  BY <1>5, <1>6, <1>7, <1>8, PlanStep

LEMMA AddRoleStep ==
  ASSUME Sequential, InstallerInv, NEW p \in Procs, NEW role \in Roles,
         Has("account"), Plan(p, AddRole(role), 0)
  PROVE  InstallerInv'
<1> DEFINE a == home["account"]
           cond == role = "maintainer" /\ ~Has("signer")
           account == Account(a.did, a.roles \cup {role}, a.url)
           signer == Config(a.did, a.url)
           h == [f \in Files |-> IF f = "account" THEN account
                                 ELSE IF f = "signer" /\ cond THEN signer ELSE home[f]]
           F == {"account"} \cup IF cond THEN {"signer"} ELSE {}
<1>a. proc[p].at = "plan"
  BY DEF Plan
<1>b. /\ keys \in Nat /\ keys \in 0 .. MaxKeys /\ Whole(home) /\ Agrees(home)
      /\ \A f \in Files : home[f] # NoFile => home[f] \in Documents(f, keys)
      /\ \A f \in Files, k \in 0 .. MaxKeys : NoFile \notin Documents(f, k)
  BY <1>a, Found
<1>d. {"key", "account", "signer", "bridge", "plugin", "installed", "draft"} \subseteq Files
  BY DEF Files
<1>c. a # NoFile /\ a \in [did: 1 .. keys, roles: SUBSET Roles, url: Urls]
  <2>1. a # NoFile /\ a \in Documents("account", keys)
    BY <1>b, <1>d DEF Has
  <2> QED
    BY <2>1 DEF Documents
<1>1. account \in Documents("account", keys) /\ signer \in Documents("signer", keys)
  BY <1>b, <1>c DEF Documents, Account, Config
<1>2. account # NoFile /\ signer # NoFile
  BY <1>b, <1>d, <1>1
<1>3. account.did = a.did /\ account.url = a.url /\ signer = Config(a.did, a.url)
  BY DEF Account
<1>4. cond \in BOOLEAN
  OBVIOUS
<1>5. Makes(AddRole(role), keys, F, h)
  <2> HIDE DEF a, account, signer, cond
  <2>1. h["account"] = account /\ (cond => h["signer"] = signer)
    BY <1>d
  <2> HIDE DEF h
  <2>2. Makes(<<Change("account", account)>>, keys, {"account"}, h)
    BY <1>d, <1>1, <2>1, MakesOne
  <2>3. Makes(If(cond, <<Change("signer", signer)>>), keys, IF cond THEN {"signer"} ELSE {}, h)
    BY <1>d, <1>1, <1>4, <2>1, MakesIf
  <2>4. {"account"} \cap (IF cond THEN {"signer"} ELSE {}) = {}
    OBVIOUS
  <2>5. AddRole(role) = <<Change("account", account)>> \o If(cond, <<Change("signer", signer)>>)
    BY DEF AddRole, SignerFile, a, account, signer, cond
  <2> QED
    BY <2>2, <2>3, <2>4, <2>5, MakesBoth
<1>6. h = [f \in Files |-> h[f]] /\ \A f \in Files \ F : h[f] = home[f]
  OBVIOUS
<1>7. Whole(h)
  <2>1. /\ h["key"] = home["key"] /\ h["account"] = account /\ h["bridge"] = home["bridge"]
        /\ h["plugin"] = home["plugin"] /\ h["installed"] = home["installed"]
        /\ h["draft"] = home["draft"] /\ (h["signer"] = signer \/ h["signer"] = home["signer"])
    BY <1>d
  <2>2. /\ home["key"] # NoFile /\ a.did = home["key"].did /\ home["plugin"] = home["installed"]
        /\ \A f \in {"signer", "bridge"} : home[f] # NoFile => home[f] = Config(a.did, a.url)
    BY <1>b, <1>c DEF Agrees
  <2> HIDE DEF h, a, account, signer
  <2>3. Agrees(h)
    BY <1>2, <1>3, <2>1, <2>2 DEF Agrees
  <2> QED
    BY <1>b, <2>1, <2>3 DEF Whole
<1>8. F # {} /\ keys = keys + 0
  BY <1>b
<1> HIDE DEF F, h
<1> QED
  BY <1>5, <1>6, <1>7, <1>8, PlanStep

LEMMA SettingsStep ==
  ASSUME Sequential, InstallerInv, NEW p \in Procs, NEW url \in Urls,
         Has("account"), Plan(p, Settings(url), 0)
  PROVE  InstallerInv'
<1> DEFINE a == home["account"]
           account == Account(a.did, a.roles, url)
           signer == Config(home["signer"].did, url)
           bridge == Config(home["bridge"].did, url)
           x == Has("signer")
           y == Has("bridge")
           h == [f \in Files |-> IF f = "account" THEN account ELSE IF f = "signer" /\ x THEN signer
                                 ELSE IF f = "bridge" /\ y THEN bridge ELSE home[f]]
           F == ({"account"} \cup IF x THEN {"signer"} ELSE {}) \cup IF y THEN {"bridge"} ELSE {}
<1>a. proc[p].at = "plan"
  BY DEF Plan
<1>b. /\ keys \in Nat /\ keys \in 0 .. MaxKeys /\ Whole(home) /\ Agrees(home)
      /\ \A f \in Files : home[f] # NoFile => home[f] \in Documents(f, keys)
      /\ \A f \in Files, k \in 0 .. MaxKeys : NoFile \notin Documents(f, k)
  BY <1>a, Found
<1>d. {"key", "account", "signer", "bridge", "plugin", "installed", "draft"} \subseteq Files
  BY DEF Files
<1>c. a # NoFile /\ a \in [did: 1 .. keys, roles: SUBSET Roles, url: Urls]
  <2>1. a # NoFile /\ a \in Documents("account", keys)
    BY <1>b, <1>d DEF Has
  <2> QED
    BY <2>1 DEF Documents
<1>e. /\ home["key"] # NoFile /\ a.did = home["key"].did /\ home["plugin"] = home["installed"]
      /\ \A f \in {"signer", "bridge"} : home[f] # NoFile => home[f] = Config(a.did, a.url)
  BY <1>b, <1>c DEF Agrees
<1>f. (x => signer = Config(a.did, url)) /\ (y => bridge = Config(a.did, url))
  BY <1>e DEF Config, Has
<1>1. /\ account \in Documents("account", keys) /\ Config(a.did, url) \in Documents("signer", keys)
      /\ Config(a.did, url) \in Documents("bridge", keys)
  BY <1>b, <1>c DEF Documents, Account, Config
<1>2. account # NoFile /\ Config(a.did, url) # NoFile
  BY <1>b, <1>d, <1>1
<1>3. account.did = a.did /\ account.url = url
  BY DEF Account
<1>4. x \in BOOLEAN /\ y \in BOOLEAN
  BY DEF Has
<1>5. Makes(Settings(url), keys, F, h)
  <2> HIDE DEF a, account, signer, bridge, x, y
  <2>1. h["account"] = account /\ (x => h["signer"] = signer) /\ (y => h["bridge"] = bridge)
    BY <1>d
  <2> HIDE DEF h
  <2>2. Makes(<<Change("account", account)>>, keys, {"account"}, h)
    BY <1>d, <1>1, <2>1, MakesOne
  <2>3. Makes(If(x, <<Change("signer", signer)>>), keys, IF x THEN {"signer"} ELSE {}, h)
    BY <1>d, <1>f, <1>1, <1>4, <2>1, MakesIf
  <2>4. Makes(If(y, <<Change("bridge", bridge)>>), keys, IF y THEN {"bridge"} ELSE {}, h)
    BY <1>d, <1>f, <1>1, <1>4, <2>1, MakesIf
  <2>5. /\ {"account"} \cap (IF x THEN {"signer"} ELSE {}) = {}
        /\ ({"account"} \cup IF x THEN {"signer"} ELSE {}) \cap (IF y THEN {"bridge"} ELSE {}) = {}
    OBVIOUS
  <2>6. Makes(<<Change("account", account)>> \o If(x, <<Change("signer", signer)>>), keys,
              {"account"} \cup IF x THEN {"signer"} ELSE {}, h)
    BY <2>2, <2>3, <2>5, MakesBoth
  <2>7. Settings(url) = (<<Change("account", account)>> \o If(x, <<Change("signer", signer)>>))
                        \o If(y, <<Change("bridge", bridge)>>)
    BY DEF Settings, a, account, signer, bridge, x, y
  <2> QED
    BY <2>4, <2>5, <2>6, <2>7, MakesBoth
<1>6. h = [f \in Files |-> h[f]] /\ \A f \in Files \ F : h[f] = home[f]
  OBVIOUS
<1>7. Whole(h)
  <2>1. /\ h["key"] = home["key"] /\ h["account"] = account
        /\ h["plugin"] = home["plugin"] /\ h["installed"] = home["installed"]
        /\ h["draft"] = home["draft"]
        /\ \A f \in {"signer", "bridge"} : h[f] # NoFile => h[f] = Config(a.did, url)
    <3>1. h["signer"] # NoFile => h["signer"] = Config(a.did, url)
      BY <1>d, <1>f DEF Has
    <3>2. h["bridge"] # NoFile => h["bridge"] = Config(a.did, url)
      BY <1>d, <1>f DEF Has
    <3> QED
      BY <1>d, <3>1, <3>2
  <2> HIDE DEF h, a, account, signer, bridge
  <2>3. Agrees(h)
    BY <1>e, <1>2, <1>3, <2>1 DEF Agrees
  <2> QED
    BY <1>b, <2>1, <2>3 DEF Whole
<1>8. F # {} /\ keys = keys + 0
  BY <1>b
<1> HIDE DEF F, h
<1> QED
  BY <1>5, <1>6, <1>7, <1>8, PlanStep

LEMMA RotationStep ==
  ASSUME Sequential, InstallerInv, NEW p \in Procs, Has("account"), Plan(p, Rotation, 1)
  PROVE  InstallerInv'
<1> DEFINE a == home["account"]
           n == keys + 1
           old == home["key"]
           key == [did |-> n]
           account == Account(n, a.roles, a.url)
           signer == Config(n, home["signer"].url)
           bridge == Config(n, home["bridge"].url)
           x == Has("signer")
           y == Has("bridge")
           h == [f \in Files |-> IF f = "retired" THEN old ELSE IF f = "key" THEN key
                                 ELSE IF f = "account" THEN account
                                 ELSE IF f = "signer" /\ x THEN signer
                                 ELSE IF f = "bridge" /\ y THEN bridge ELSE home[f]]
           B == {"retired", "key", "account"}
           F == (B \cup IF x THEN {"signer"} ELSE {}) \cup IF y THEN {"bridge"} ELSE {}
<1>a. proc[p].at = "plan" /\ n <= MaxKeys
  BY DEF Plan
<1>b. /\ keys \in Nat /\ n \in Nat /\ n \in 0 .. MaxKeys /\ n \in 1 .. n /\ Whole(home) /\ Agrees(home)
      /\ \A f \in Files : home[f] # NoFile => home[f] \in Documents(f, keys)
      /\ \A f \in Files, k \in 0 .. MaxKeys : NoFile \notin Documents(f, k)
  BY <1>a, Found
<1>d. {"key", "account", "signer", "bridge", "plugin", "installed", "draft", "retired"} \subseteq Files
  BY DEF Files
<1>e. /\ a # NoFile /\ old # NoFile /\ home["plugin"] = home["installed"]
      /\ \A f \in {"signer", "bridge"} : home[f] # NoFile => home[f] = Config(a.did, a.url)
  BY <1>b DEF Agrees, Has
<1>c. a \in [did: 1 .. keys, roles: SUBSET Roles, url: Urls] /\ old \in [did: 1 .. keys]
  <2>1. a \in Documents("account", keys) /\ old \in Documents("key", keys)
    BY <1>b, <1>d, <1>e
  <2> QED
    BY <2>1 DEF Documents
<1>f. (x => signer = Config(n, a.url)) /\ (y => bridge = Config(n, a.url))
  BY <1>e DEF Config, Has
<1>1. /\ account \in Documents("account", n) /\ key \in Documents("key", n)
      /\ Config(n, a.url) \in Documents("signer", n) /\ Config(n, a.url) \in Documents("bridge", n)
      /\ old \in Documents("retired", n)
  <2>1. old \in [did: 1 .. n]
    BY <1>b, <1>c
  <2> QED
    BY <1>b, <1>c, <2>1 DEF Documents, Account, Config
<1>2. account # NoFile /\ key # NoFile
  BY <1>b, <1>d, <1>1
<1>3. account.did = n /\ account.url = a.url /\ key.did = n
  BY DEF Account
<1>4. x \in BOOLEAN /\ y \in BOOLEAN
  BY DEF Has
<1>5. Makes(Rotation, n, F, h)
  <2> HIDE DEF a, n, old, key, account, signer, bridge, x, y
  <2>1. /\ h["retired"] = old /\ h["key"] = key /\ h["account"] = account
        /\ (x => h["signer"] = signer) /\ (y => h["bridge"] = bridge)
    BY <1>d
  <2> HIDE DEF h
  <2>2. Makes(<<Change("retired", old), Change("key", key), Change("account", account)>>, n, B, h)
    BY <1>d, <1>1, <2>1, MakesThree
  <2>3. Makes(If(x, <<Change("signer", signer)>>), n, IF x THEN {"signer"} ELSE {}, h)
    BY <1>d, <1>f, <1>1, <1>4, <2>1, MakesIf
  <2>4. Makes(If(y, <<Change("bridge", bridge)>>), n, IF y THEN {"bridge"} ELSE {}, h)
    BY <1>d, <1>f, <1>1, <1>4, <2>1, MakesIf
  <2>5. /\ B \cap (IF x THEN {"signer"} ELSE {}) = {}
        /\ (B \cup IF x THEN {"signer"} ELSE {}) \cap (IF y THEN {"bridge"} ELSE {}) = {}
    OBVIOUS
  <2> DEFINE s == <<Change("retired", old), Change("key", key), Change("account", account)>>
  <2>6. Makes(s \o If(x, <<Change("signer", signer)>>), n, B \cup IF x THEN {"signer"} ELSE {}, h)
    BY <2>2, <2>3, <2>5, MakesBoth
  <2>7. Rotation = (s \o If(x, <<Change("signer", signer)>>)) \o If(y, <<Change("bridge", bridge)>>)
    BY DEF Rotation, a, n, old, key, account, signer, bridge, x, y
  <2> HIDE DEF s, B
  <2> QED
    BY <2>4, <2>5, <2>6, <2>7, MakesBoth
<1>6. h = [f \in Files |-> h[f]] /\ \A f \in Files \ F : h[f] = home[f]
  OBVIOUS
<1>7. Whole(h)
  <2>1. /\ h["key"] = key /\ h["account"] = account
        /\ h["plugin"] = home["plugin"] /\ h["installed"] = home["installed"]
        /\ h["draft"] = home["draft"]
        /\ \A f \in {"signer", "bridge"} : h[f] # NoFile => h[f] = Config(n, a.url)
    <3>1. h["signer"] # NoFile => h["signer"] = Config(n, a.url)
      BY <1>d, <1>f DEF Has
    <3>2. h["bridge"] # NoFile => h["bridge"] = Config(n, a.url)
      BY <1>d, <1>f DEF Has
    <3> QED
      BY <1>d, <3>1, <3>2
  <2> HIDE DEF h, a, n, key, account, signer, bridge
  <2>3. Agrees(h)
    BY <1>e, <1>2, <1>3, <2>1 DEF Agrees
  <2> QED
    BY <1>b, <2>1, <2>3 DEF Whole
<1>8. F # {} /\ n = keys + 1
  OBVIOUS
<1> HIDE DEF F, h, n
<1> QED
  BY <1>5, <1>6, <1>7, <1>8, PlanStep

LEMMA ProposerBridgeStep ==
  ASSUME Sequential, InstallerInv, NEW p \in Procs, NEW src \in Sources,
         Has("account"), Plan(p, ProposerBridge(src), 0)
  PROVE  InstallerInv'
<1> DEFINE a == home["account"]
           plugin == [src |-> src]
           bridge == Config(a.did, a.url)
           h == [f \in Files |-> IF f \in {"plugin", "installed"} THEN plugin
                                 ELSE IF f = "bridge" THEN bridge ELSE home[f]]
           F == {"plugin", "installed", "bridge"}
<1>a. proc[p].at = "plan"
  BY DEF Plan
<1>b. /\ keys \in Nat /\ keys \in 0 .. MaxKeys /\ Whole(home) /\ Agrees(home)
      /\ \A f \in Files : home[f] # NoFile => home[f] \in Documents(f, keys)
  BY <1>a, Found
<1>d. {"key", "account", "signer", "bridge", "plugin", "installed", "draft"} \subseteq Files
  BY DEF Files
<1>e. /\ a # NoFile /\ home["key"] # NoFile /\ a.did = home["key"].did
      /\ home["signer"] # NoFile => home["signer"] = Config(a.did, a.url)
  BY <1>b DEF Agrees, Has
<1>c. a \in [did: 1 .. keys, roles: SUBSET Roles, url: Urls]
  <2>1. a \in Documents("account", keys)
    BY <1>b, <1>d, <1>e
  <2> QED
    BY <2>1 DEF Documents
<1>1. /\ plugin \in Documents("plugin", keys) /\ plugin \in Documents("installed", keys)
      /\ bridge \in Documents("bridge", keys)
  BY <1>c DEF Documents, Config
<1>5. Makes(ProposerBridge(src), keys, F, h)
  <2> HIDE DEF plugin, bridge
  <2>1. h["plugin"] = plugin /\ h["installed"] = plugin /\ h["bridge"] = bridge
    BY <1>d
  <2> HIDE DEF h
  <2>2. Makes(<<Change("plugin", plugin), Change("installed", plugin), Change("bridge", bridge)>>, keys, F, h)
    BY <1>d, <1>1, <2>1, MakesThree
  <2>3. ProposerBridge(src)
          = <<Change("plugin", plugin), Change("installed", plugin), Change("bridge", bridge)>>
    BY DEF ProposerBridge, plugin, bridge
  <2> QED
    BY <2>2, <2>3
<1>6. h = [f \in Files |-> h[f]] /\ \A f \in Files \ F : h[f] = home[f]
  OBVIOUS
<1>7. Whole(h)
  <2>1. /\ h["key"] = home["key"] /\ h["account"] = a /\ h["plugin"] = h["installed"]
        /\ h["draft"] = home["draft"] /\ h["signer"] = home["signer"] /\ h["bridge"] = Config(a.did, a.url)
    BY <1>d
  <2> HIDE DEF h, a
  <2>3. Agrees(h)
    BY <1>e, <2>1 DEF Agrees
  <2> QED
    BY <1>b, <2>1, <2>3 DEF Whole
<1>8. F # {} /\ keys = keys + 0
  BY <1>b
<1> HIDE DEF F, h
<1> QED
  BY <1>5, <1>6, <1>7, <1>8, PlanStep

LEMMA VerifierApplicationStep ==
  ASSUME Sequential, InstallerInv, NEW p \in Procs, NEW src \in Sources,
         Plan(p, VerifierApplication(src), 0)
  PROVE  InstallerInv'
<1> DEFINE plugin == [src |-> src]
           old == home["draft"]
           x == Has("draft")
           h == [f \in Files |-> IF f \in {"plugin", "installed"} THEN plugin
                                 ELSE IF f = "earlier" /\ x THEN old
                                 ELSE IF f = "draft" THEN Template ELSE home[f]]
           B == {"plugin", "installed"}
           F == (B \cup IF x THEN {"earlier"} ELSE {}) \cup {"draft"}
<1>a. proc[p].at = "plan"
  BY DEF Plan
<1>b. /\ keys \in Nat /\ keys \in 0 .. MaxKeys /\ Whole(home) /\ Agrees(home)
      /\ \A f \in Files : home[f] # NoFile => home[f] \in Documents(f, keys)
  BY <1>a, Found
<1>d. {"key", "account", "signer", "bridge", "plugin", "installed", "draft", "earlier"} \subseteq Files
  BY DEF Files
<1>c. /\ Template \in [groups: [Groups -> SUBSET People], keys: SUBSET People]
      /\ Covered(Template)
  BY DEF Template, Groups, People, Covered
<1>1. /\ plugin \in Documents("plugin", keys) /\ plugin \in Documents("installed", keys)
      /\ Template \in Documents("draft", keys)
      /\ x => old \in Documents("earlier", keys)
  <2>1. x => old \in Documents("draft", keys)
    BY <1>b, <1>d DEF Has
  <2>2. Documents("draft", keys) = Documents("earlier", keys)
    BY DEF Documents
  <2>3. Template \in Documents("draft", keys)
    BY <1>c DEF Documents
  <2>4. plugin \in Documents("plugin", keys) /\ plugin \in Documents("installed", keys)
    BY DEF Documents
  <2> QED
    BY <2>1, <2>2, <2>3, <2>4
<1>4. x \in BOOLEAN
  BY DEF Has
<1>5. Makes(VerifierApplication(src), keys, F, h)
  <2> HIDE DEF plugin, old, x
  <2>1. /\ h["plugin"] = plugin /\ h["installed"] = plugin /\ h["draft"] = Template
        /\ x => h["earlier"] = old
    BY <1>d
  <2> HIDE DEF h
  <2>2. Makes(<<Change("plugin", plugin), Change("installed", plugin)>>, keys, B, h)
    BY <1>d, <1>1, <2>1, MakesTwo
  <2>3. Makes(If(x, <<Change("earlier", old)>>), keys, IF x THEN {"earlier"} ELSE {}, h)
    BY <1>d, <1>1, <1>4, <2>1, MakesIf
  <2>4. Makes(<<Change("draft", Template)>>, keys, {"draft"}, h)
    BY <1>d, <1>1, <2>1, MakesOne
  <2>5. /\ B \cap (IF x THEN {"earlier"} ELSE {}) = {}
        /\ (B \cup IF x THEN {"earlier"} ELSE {}) \cap {"draft"} = {}
    OBVIOUS
  <2> DEFINE s == <<Change("plugin", plugin), Change("installed", plugin)>>
  <2>6. Makes(s \o If(x, <<Change("earlier", old)>>), keys, B \cup IF x THEN {"earlier"} ELSE {}, h)
    BY <2>2, <2>3, <2>5, MakesBoth
  <2>7. VerifierApplication(src)
          = (s \o If(x, <<Change("earlier", old)>>)) \o <<Change("draft", Template)>>
    BY DEF VerifierApplication, plugin, old, x
  <2> HIDE DEF s, B
  <2> QED
    BY <2>4, <2>5, <2>6, <2>7, MakesBoth
<1>6. h = [f \in Files |-> h[f]] /\ \A f \in Files \ F : h[f] = home[f]
  OBVIOUS
<1>7. Whole(h)
  <2>1. /\ \A f \in {"key", "account", "signer", "bridge"} : h[f] = home[f]
        /\ h["plugin"] = h["installed"] /\ h["draft"] = Template
    BY <1>d
  <2> HIDE DEF h
  <2>2. Agrees(h)
    BY <1>b, <2>1 DEF Agrees
  <2> QED
    BY <1>c, <2>1, <2>2 DEF Whole
<1>8. F # {} /\ keys = keys + 0
  BY <1>b
<1> HIDE DEF F, h
<1> QED
  BY <1>5, <1>6, <1>7, <1>8, PlanStep

-----------------------------------------------------------------------------
LEMMA PlansStep ==
  ASSUME Sequential, InstallerInv, NEW p \in Procs, Plans(p)
  PROVE  InstallerInv'
<1>1. ASSUME NEW role \in Roles, NEW url \in Urls, RunInit(p, role, url)
      PROVE  InstallerInv'
  BY <1>1, NewAccountStep, AddRoleStep DEF RunInit
<1>2. ASSUME NEW url \in Urls, RunConfig(p, url)
      PROVE  InstallerInv'
  BY <1>2, SettingsStep DEF RunConfig
<1>3. CASE RunKeyRotate(p)
  BY <1>3, RotationStep DEF RunKeyRotate
<1>4. ASSUME NEW src \in Sources, NEW replace \in BOOLEAN, RunMcpAdd(p, src, replace)
      PROVE  InstallerInv'
  BY <1>4, ProposerBridgeStep, VerifierApplicationStep DEF RunMcpAdd
<1>5. ASSUME NEW did \in Signers, RunSigner(p, did)
      PROVE  InstallerInv'
  BY <1>5, RunSignerStep
<1>6. CASE RefuseCommand(p)
  BY <1>6, LockSteps
<1> QED
  BY <1>1, <1>2, <1>3, <1>4, <1>5, <1>6 DEF Plans

LEMMA CommitsStep ==
  ASSUME Sequential, InstallerInv, NEW p \in Procs, Commits(p)
  PROVE  InstallerInv'
  BY StageStep, BackupStep, WriteMarkerStep, RenameStep, CleanUpStep DEF Commits

LEMMA InstallerInvInit ==
  ASSUME Init
  PROVE  InstallerInv
<1>1. \A f \in Files : home[f] = NoFile /\ staged[f] = NoFile /\ kept[f] = NoFile
  BY DEF Init, Empty
<1>2. {"key", "account", "signer", "bridge", "plugin", "installed", "draft"} \subseteq Files
  BY DEF Files
<1>3. IsDir(Empty, keys)
  BY DEF IsDir, Empty
<1>4. Whole(home)
  BY <1>1, <1>2 DEF Whole, Agrees
<1>5. keys \in 0 .. MaxKeys
  BY InstallerAssumption DEF Init
<1>6. TypeOK
  BY <1>3, <1>5 DEF TypeOK, Init
<1>7. \A p \in Procs : proc[p].at = "idle"
  <2>1. Idle.at = "idle"
    BY DEF Idle
  <2>2. \A p \in Procs : proc[p] = Idle
    BY DEF Init
  <2> QED
    BY <2>1, <2>2
<1> QED
  BY <1>4, <1>6, <1>7 DEF InstallerInv, HomeIsWhole, UndoIsPossible, UpdateInv, MarkerInv, Init

\* With nothing changed, nothing changes.
LEMMA InstallerInvStutter ==
  ASSUME InstallerInv, UNCHANGED vars
  PROVE  InstallerInv'
  BY DEF InstallerInv, HomeIsWhole, TypeOK, UndoIsPossible, UpdateInv, MarkerInv, Prepares, Renames,
         Undoes, Updates, vars

\* InstallerInv is inductive as long as one command runs at a time.
THEOREM InstallerInvHolds ==
  ASSUME Sequential
  PROVE  Spec => []InstallerInv
<1>1. InstallerInv /\ [Next]_vars => InstallerInv'
  <2>1. ASSUME InstallerInv, NEW p \in Procs,
               \/ Starts(p) \/ Locks(p) \/ Recover(p) \/ RollBack(p) \/ Plans(p) \/ Commits(p)
               \/ OperationFails(p) \/ Crash(p) \/ Release(p)
        PROVE  InstallerInv'
    BY <2>1, LockSteps, RecoverStep, RollBackStep, PlansStep, CommitsStep, OperationFailsStep
  <2>2. ASSUME InstallerInv, Next
        PROVE  InstallerInv'
    BY <2>1, <2>2 DEF Next
  <2> QED
    BY <2>2, InstallerInvStutter
<1> QED
  BY <1>1, InstallerInvInit, PTL DEF Spec

\* An update of several files is all or nothing (commitChanges): whatever
\* operation fails, and wherever a command is stopped, without a marker the
\* key, the account, the configs and the drafts are of one update.
THEOREM UpdatesAreAllOrNothing ==
  ASSUME Sequential
  PROVE  Spec => []HomeIsWhole
<1>1. InstallerInv => HomeIsWhole
  BY DEF InstallerInv
<1> QED
  BY <1>1, InstallerInvHolds, PTL

\* While the marker is not committed, rollBack finds all that it needs to make
\* the home whole again, also when it was itself stopped (recoverInterruptedUpdate).
THEOREM UpdatesCanBeUndone ==
  ASSUME Sequential
  PROVE  Spec => []UndoIsPossible
<1>1. InstallerInv => UndoIsPossible
  BY DEF InstallerInv
<1> QED
  BY <1>1, InstallerInvHolds, PTL
=============================================================================
