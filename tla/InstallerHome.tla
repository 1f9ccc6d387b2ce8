---------------------------- MODULE InstallerHome ----------------------------
(***************************************************************************)
(* The MPAS home that the installer commands keep                          *)
(* (cli/src/cli/installer/): one signing key, the account that names it    *)
(* and the configs that repeat it, updated several files at a time by      *)
(* commands that take a lock, recover what a stopped one left, plan their  *)
(* changes and commit them with staged files, kept copies and a marker.    *)
(*                                                                         *)
(* A key is its number; a document keeps the fields that others repeat.    *)
(***************************************************************************)
EXTENDS Naturals, Sequences

CONSTANTS
  Procs,        \* processes that run commands
  NoFile,
  Roles, Urls, Sources,
  Signers,      \* DIDs an operator adds to a deployment
  Placeholder,  \* the DID that a template has in place of one
  MaxKeys,      \* bound: keys that are made
  MaxFaults,    \* bound: crashes and failed file operations
  MaxCommands   \* bound: commands

VARIABLES
  home,      \* the files
  staged,    \* <file>.mpas-new
  kept,      \* <file>.mpas-old
  marker,    \* the pending-update marker
  lock,      \* the lock file
  proc,      \* what each process is doing
  keys, faults, commands

vars == <<home, staged, kept, marker, lock, proc, keys, faults, commands>>
disk == <<home, staged, kept, marker>>

Files == {"key", "account", "signer", "bridge", "plugin", "installed",
          "draft", "earlier", "retired"}

\* The documents: a key, the account, a config, a plugin's source, a draft.
People == Signers \cup {Placeholder}
Groups == {"all", "proposers", "approvers"}

Documents(f, n) ==
  IF f \in {"key", "retired"} THEN [did: 1 .. n]
  ELSE IF f = "account" THEN [did: 1 .. n, roles: SUBSET Roles, url: Urls]
  ELSE IF f \in {"signer", "bridge"} THEN [did: 1 .. n, url: Urls]
  ELSE IF f \in {"plugin", "installed"} THEN [src: Sources]
  ELSE [groups: [Groups -> SUBSET People], keys: SUBSET People]

\* A change of an update: a file, its new contents, and whether it was there
Changes(n) ==
  {c \in [file: Files, doc: UNION {Documents(f, n) : f \in Files}, existed: BOOLEAN] :
     c.doc \in Documents(c.file, n)}

ASSUME InstallerAssumption ==
  /\ MaxKeys \in Nat /\ \A f \in Files, n \in 0 .. MaxKeys : NoFile \notin Documents(f, n)
  /\ NoFile \notin [committed: BOOLEAN, files: Seq(Changes(MaxKeys))]

Idle == [at |-> "idle"]
Empty == [f \in Files |-> NoFile]

Init ==
  /\ home = Empty /\ staged = Empty /\ kept = Empty
  /\ marker = NoFile /\ lock = NoFile
  /\ proc = [p \in Procs |-> Idle]
  /\ keys = 0 /\ faults = 0 /\ commands = 0

Has(f) == home[f] # NoFile

Goto(p, at) == proc' = [proc EXCEPT ![p].at = at]

-----------------------------------------------------------------------------
(* acquireHomeLock: the file is created exclusively and then written, so   *)
(* another process can read it empty.                                      *)

Starts(p) ==
  /\ proc[p] = Idle /\ commands < MaxCommands /\ commands' = commands + 1
  /\ proc' = [proc EXCEPT ![p] = [at |-> "create", try |-> 1, run |-> commands',
                                  seen |-> NoFile, plan |-> <<>>, i |-> 1]]
  /\ UNCHANGED <<disk, lock, keys, faults>>

CreateLock(p) ==
  /\ proc[p].at = "create"
  /\ IF lock = NoFile
     THEN lock' = [by |-> p, run |-> proc[p].run, full |-> FALSE] /\ Goto(p, "write")
     ELSE Goto(p, "check") /\ UNCHANGED lock
  /\ UNCHANGED <<disk, keys, faults, commands>>

Mine(p) == lock # NoFile /\ lock.by = p /\ lock.run = proc[p].run

WriteLock(p) ==
  /\ proc[p].at = "write"
  /\ lock' = IF Mine(p) THEN [lock EXCEPT !.full = TRUE] ELSE lock
  /\ Goto(p, "recover")
  /\ UNCHANGED <<disk, keys, faults, commands>>

\* A second attempt, or the command gives up.
TryAgain(p) ==
  proc' = [proc EXCEPT ![p] = IF @.try = 2 THEN Idle ELSE [@ EXCEPT !.at = "create", !.try = 2]]

Alive(p) == proc[p] # Idle

\* A lock whose holder runs stops the command; one that names nobody who runs,
\* or cannot be read, is removed if it is still the same.
CheckLock(p) ==
  /\ proc[p].at = "check"
  /\ \/ lock = NoFile /\ TryAgain(p)
     \/ lock # NoFile /\ lock.full /\ lock.by # p /\ Alive(lock.by)
        /\ proc' = [proc EXCEPT ![p] = Idle]
     \/ /\ lock # NoFile /\ ~(lock.full /\ lock.by # p /\ Alive(lock.by))
        /\ proc' = [proc EXCEPT ![p] = [@ EXCEPT !.at = "again", !.seen = lock]]
  /\ UNCHANGED <<disk, lock, keys, faults, commands>>

CheckAgain(p) ==
  /\ proc[p].at = "again"
  /\ IF lock = proc[p].seen THEN Goto(p, "remove") ELSE TryAgain(p)
  /\ UNCHANGED <<disk, lock, keys, faults, commands>>

RemoveLock(p) ==
  /\ proc[p].at = "remove" /\ lock' = NoFile /\ TryAgain(p)
  /\ UNCHANGED <<disk, keys, faults, commands>>

\* The command is over; its lock is removed if it is still its own.
Release(p) ==
  /\ proc[p].at = "release"
  /\ lock' = IF Mine(p) THEN NoFile ELSE lock
  /\ proc' = [proc EXCEPT ![p] = Idle]
  /\ UNCHANGED <<disk, keys, faults, commands>>

-----------------------------------------------------------------------------
(* recoverInterruptedUpdate and rollBack                                   *)

Begin(p, at, plan) ==
  proc' = [proc EXCEPT ![p] = [@ EXCEPT !.at = at, !.plan = plan, !.i = 1]]

FilesOf(plan) == {plan[j].file : j \in DOMAIN plan}

Drop(files, dir) == [f \in Files |-> IF f \in files THEN NoFile ELSE dir[f]]

\* An update that was committed is finished, any other undone.
Recover(p) ==
  /\ proc[p].at = "recover"
  /\ \/ marker = NoFile /\ Goto(p, "plan") /\ UNCHANGED disk
     \/ /\ marker # NoFile /\ marker.committed
        /\ kept' = Drop(FilesOf(marker.files), kept)
        /\ staged' = Drop(FilesOf(marker.files), staged)
        /\ marker' = NoFile /\ Goto(p, "plan") /\ UNCHANGED home
     \/ /\ marker # NoFile /\ ~marker.committed
        /\ Begin(p, "undoing", marker.files) /\ UNCHANGED disk
  /\ UNCHANGED <<lock, keys, faults, commands>>

\* Mutated form of Restored: a file that had no earlier contents is left.
RestoredIfExisted(change, files, copies) ==
  IF change.existed /\ copies[change.file] # NoFile THEN copies[change.file]
  ELSE files[change.file]

\* What a rolled-back file becomes; its copy may have been renamed before.
Restored(change, files, copies) ==
  IF ~change.existed THEN NoFile
  ELSE IF copies[change.file] # NoFile THEN copies[change.file] ELSE files[change.file]

\* rollBack, one file at a time: after a failure the command ends ("undo"),
\* in a recovery it goes on ("undoing").
RollBack(p) ==
  /\ proc[p].at \in {"undo", "undoing"}
  /\ IF proc[p].i > Len(proc[p].plan)
     THEN /\ marker' = NoFile
          /\ Goto(p, IF proc[p].at = "undo" THEN "release" ELSE "plan")
          /\ UNCHANGED <<home, staged, kept>>
     ELSE LET change == proc[p].plan[proc[p].i] IN
          /\ home' = [home EXCEPT ![change.file] = Restored(change, home, kept)]
          /\ kept' = IF change.existed THEN Drop({change.file}, kept) ELSE kept
          /\ staged' = Drop({change.file}, staged)
          /\ proc' = [proc EXCEPT ![p].i = @ + 1] /\ UNCHANGED marker
  /\ UNCHANGED <<lock, keys, faults, commands>>

-----------------------------------------------------------------------------
(* The commands, as the changes they plan                                  *)

Change(f, doc) == [file |-> f, doc |-> doc, existed |-> Has(f)]

If(cond, changes) == IF cond THEN changes ELSE <<>>

Account(did, roles, url) == [did |-> did, roles |-> roles, url |-> url]
Config(did, url) == [did |-> did, url |-> url]

\* assertManagedConfigs: the configs that are rewritten name the account's key.
Managed ==
  \A f \in {"signer", "bridge"} : Has(f) => home[f].did = home["account"].did

\* runInit: a new key and account, or one more role; a Maintainer gets a signer
\* config unless there is one.
SignerFile(role, did, url) ==
  If(role = "maintainer" /\ ~Has("signer"), <<Change("signer", Config(did, url))>>)

NewAccount(role, url) ==
  << Change("key", [did |-> keys + 1]), Change("account", Account(keys + 1, {role}, url)) >>
  \o SignerFile(role, keys + 1, url)

AddRole(role) ==
  LET a == home["account"] IN
  << Change("account", Account(a.did, a.roles \cup {role}, a.url)) >>
  \o SignerFile(role, a.did, a.url)

\* applySettings: the account and every config that repeats the setting
Settings(url) ==
  LET a == home["account"] IN
  << Change("account", Account(a.did, a.roles, url)) >>
  \o If(Has("signer"), <<Change("signer", Config(home["signer"].did, url))>>)
  \o If(Has("bridge"), <<Change("bridge", Config(home["bridge"].did, url))>>)

\* runKeyRotate: the old key is kept aside, every config names the new one.
Rotation ==
  LET a == home["account"] IN
  << Change("retired", home["key"]), Change("key", [did |-> keys + 1]),
     Change("account", Account(keys + 1, a.roles, a.url)) >>
  \o If(Has("signer"), <<Change("signer", Config(keys + 1, home["signer"].url))>>)
  \o If(Has("bridge"), <<Change("bridge", Config(keys + 1, home["bridge"].url))>>)

\* checkNameFree: the name is free, or the same source is installed again.
NameFree(src, replace) ==
  \/ \A f \in {"installed", "bridge", "draft"} : ~Has(f)
  \/ replace /\ Has("installed") /\ home["installed"].src = src

ProposerBridge(src) ==
  << Change("plugin", [src |-> src]), Change("installed", [src |-> src]),
     Change("bridge", Config(home["account"].did, home["account"].url)) >>

\* A deployment draft from its template; an earlier one is kept aside.
Template == [groups |-> [all |-> {Placeholder}, proposers |-> {Placeholder},
                         approvers |-> {Placeholder}],
             keys |-> {Placeholder}]

VerifierApplication(src) ==
  << Change("plugin", [src |-> src]), Change("installed", [src |-> src]) >>
  \o If(Has("draft"), <<Change("earlier", home["draft"])>>)
  \o << Change("draft", Template) >>

Plan(p, plan, new) ==
  /\ proc[p].at = "plan" /\ Begin(p, "stage", plan)
  /\ keys' = keys + new /\ keys' <= MaxKeys
  /\ UNCHANGED <<disk, lock, faults, commands>>

RunInit(p, role, url) ==
  \/ ~Has("account") /\ ~Has("key") /\ Plan(p, NewAccount(role, url), 1)
  \/ /\ Has("account") /\ role \notin home["account"].roles
     /\ Plan(p, AddRole(role), 0)

RunConfig(p, url) ==
  Has("account") /\ url # home["account"].url /\ Managed /\ Plan(p, Settings(url), 0)

RunKeyRotate(p) == Has("account") /\ Managed /\ Plan(p, Rotation, 1)

RunMcpAdd(p, src, replace) ==
  /\ Has("account") /\ NameFree(src, replace)
  /\ \/ "proposer" \in home["account"].roles /\ Plan(p, ProposerBridge(src), 0)
     \/ "verifier" \in home["account"].roles /\ Plan(p, VerifierApplication(src), 0)

-----------------------------------------------------------------------------
(* runSigner: one deployment config, rewritten with a rename               *)

\* addSigner takes the group's placeholders out of it, and out of `all' and the
\* keys if no group but `all' has them.
AddSigner(doc, group, did) ==
  LET rest == [g \in Groups |-> doc.groups[g] \ IF g = group THEN {Placeholder} ELSE {}]
      gone == IF \E g \in Groups \ {"all"} : Placeholder \in rest[g]
              THEN {} ELSE {Placeholder} \cap doc.groups[group]
  IN  [groups |-> [g \in Groups |-> IF g = "all" THEN (rest[g] \ gone) \cup {did}
                                    ELSE IF g = group THEN rest[g] \cup {did} ELSE rest[g]],
       keys |-> (doc.keys \ gone) \cup {did}]

\* Mutated form of RemoveSigner: the DID stays in the groups.
RemoveSignerKey(doc, did) == [groups |-> doc.groups, keys |-> doc.keys \ {did}]

RemoveSigner(doc, did) ==
  [groups |-> [g \in Groups |-> doc.groups[g] \ {did}], keys |-> doc.keys \ {did}]

RunSigner(p, did) ==
  /\ proc[p].at = "plan" /\ Has("account") /\ Has("draft")
  /\ "verifier" \in home["account"].roles
  /\ \/ \E g \in Groups :
          /\ did \notin home["draft"].groups[g]
          /\ home' = [home EXCEPT !["draft"] = AddSigner(home["draft"], g, did)]
     \/ /\ did \in home["draft"].keys \cup UNION {home["draft"].groups[g] : g \in Groups}
        /\ home' = [home EXCEPT !["draft"] = RemoveSigner(home["draft"], did)]
  /\ Goto(p, "release")
  /\ UNCHANGED <<staged, kept, marker, lock, keys, faults, commands>>

\* A command whose conditions do not hold ends without a change.
RefuseCommand(p) ==
  /\ proc[p].at = "plan" /\ Goto(p, "release")
  /\ UNCHANGED <<disk, lock, keys, faults, commands>>

-----------------------------------------------------------------------------
(* commitChanges                                                           *)

\* The next file of a stage, or the next stage.
Step(p, done, next) ==
  IF proc[p].i = done THEN Begin(p, next, proc[p].plan)
  ELSE proc' = [proc EXCEPT ![p].i = @ + 1]

Stage(p) ==
  LET c == proc[p] IN
  /\ c.at = "stage"
  /\ staged' = [staged EXCEPT ![c.plan[c.i].file] = c.plan[c.i].doc]
  /\ Step(p, Len(c.plan), "backup")
  /\ UNCHANGED <<home, kept, marker, lock, keys, faults, commands>>

\* Mutated form of Backup: no copy is made of the last file.
BackupAllButLast(p) ==
  LET c == proc[p] IN
  /\ c.at = "backup"
  /\ kept' = IF c.plan[c.i].existed /\ c.i < Len(c.plan)
             THEN [kept EXCEPT ![c.plan[c.i].file] = home[c.plan[c.i].file]] ELSE kept
  /\ Step(p, Len(c.plan), "mark")
  /\ UNCHANGED <<home, staged, marker, lock, keys, faults, commands>>

Backup(p) ==
  LET c == proc[p] IN
  /\ c.at = "backup"
  /\ kept' = IF c.plan[c.i].existed
             THEN [kept EXCEPT ![c.plan[c.i].file] = home[c.plan[c.i].file]] ELSE kept
  /\ Step(p, Len(c.plan), "mark")
  /\ UNCHANGED <<home, staged, marker, lock, keys, faults, commands>>

\* writeMarker, before the first rename and after the last
WriteMarker(p) ==
  /\ proc[p].at \in {"mark", "commit"}
  /\ marker' = [committed |-> proc[p].at = "commit", files |-> proc[p].plan]
  /\ Begin(p, IF proc[p].at = "mark" THEN "rename" ELSE "clean", proc[p].plan)
  /\ UNCHANGED <<home, staged, kept, lock, keys, faults, commands>>

Rename(p) ==
  LET c == proc[p] f == c.plan[c.i].file IN
  /\ c.at = "rename"
  /\ home' = [home EXCEPT ![f] = staged[f]]
  /\ staged' = Drop({f}, staged)
  /\ Step(p, Len(c.plan), "commit")
  /\ UNCHANGED <<kept, marker, lock, keys, faults, commands>>

\* The kept copies are removed, then the marker.
CleanUp(p) ==
  /\ proc[p].at \in {"clean", "unmark"}
  /\ IF proc[p].at = "clean"
     THEN kept' = Drop(FilesOf(proc[p].plan), kept) /\ Goto(p, "unmark") /\ UNCHANGED marker
     ELSE marker' = NoFile /\ Goto(p, "release") /\ UNCHANGED kept
  /\ UNCHANGED <<home, staged, lock, keys, faults, commands>>

Commits(p) == Stage(p) \/ Backup(p) \/ WriteMarker(p) \/ Rename(p) \/ CleanUp(p)

\* A file operation fails: before the marker what was prepared is removed,
\* until the commit is recorded every rename is undone, and a failure of
\* either of those, or after it, is left to the next command.
OperationFails(p) ==
  /\ faults < MaxFaults /\ faults' = faults + 1
  /\ proc[p].at \in {"stage", "backup", "mark", "rename", "commit", "clean",
                     "unmark", "undo", "undoing"}
  /\ IF proc[p].at \in {"stage", "backup", "mark"}
     THEN /\ staged' = Drop(FilesOf(proc[p].plan), staged)
          /\ kept' = Drop(FilesOf(proc[p].plan), kept) /\ marker' = NoFile
          /\ Goto(p, "release")
     ELSE /\ IF proc[p].at \in {"rename", "commit"} THEN Begin(p, "undo", proc[p].plan)
             ELSE Goto(p, "release")
          /\ UNCHANGED <<staged, kept, marker>>
  /\ UNCHANGED <<home, lock, keys, commands>>

\* The process is stopped at any point.
Crash(p) ==
  /\ faults < MaxFaults /\ faults' = faults + 1
  /\ proc[p] # Idle /\ proc' = [proc EXCEPT ![p] = Idle]
  /\ UNCHANGED <<disk, lock, keys, commands>>

-----------------------------------------------------------------------------
Locks(p) == CreateLock(p) \/ WriteLock(p) \/ CheckLock(p) \/ CheckAgain(p) \/ RemoveLock(p)

Plans(p) ==
  \/ \E role \in Roles, url \in Urls : RunInit(p, role, url)
  \/ \E url \in Urls : RunConfig(p, url)
  \/ RunKeyRotate(p)
  \/ \E src \in Sources, replace \in BOOLEAN : RunMcpAdd(p, src, replace)
  \/ \E did \in Signers : RunSigner(p, did)
  \/ RefuseCommand(p)

Next ==
  \E p \in Procs :
    \/ Starts(p) \/ Locks(p) \/ Recover(p) \/ RollBack(p) \/ Plans(p) \/ Commits(p)
    \/ OperationFails(p) \/ Crash(p) \/ Release(p)

Spec == Init /\ [][Next]_vars

-----------------------------------------------------------------------------
(* Properties.                                                             *)

Places == {"create", "write", "check", "again", "remove", "recover", "undo", "undoing",
           "plan", "stage", "backup", "mark", "rename", "commit", "clean", "unmark", "release"}

IsCommand(c) ==
  c \in [at: Places, try: 1 .. 2, run: {c.run}, seen: {c.seen}, plan: {c.plan}, i: Nat]

\* A directory of documents, and an update: one change for each file
IsDir(dir, n) ==
  /\ dir = [f \in Files |-> dir[f]]
  /\ \A f \in Files : dir[f] # NoFile => dir[f] \in Documents(f, n)

IsPlan(plan, n) ==
  /\ plan \in Seq(Changes(n)) /\ Len(plan) > 0
  /\ \A i, j \in DOMAIN plan : plan[i].file = plan[j].file => i = j

TypeOK ==
  /\ proc = [p \in Procs |-> proc[p]]
  /\ \A p \in Procs : proc[p] = Idle \/ IsCommand(proc[p])
  /\ keys \in 0 .. MaxKeys
  /\ IsDir(home, keys) /\ IsDir(staged, keys) /\ IsDir(kept, keys)
  /\ marker # NoFile =>
       marker \in [committed: BOOLEAN, files: {marker.files}] /\ IsPlan(marker.files, keys)

\* The key, the account and the configs agree.
Agrees(h) ==
  /\ h["account"] = NoFile <=> h["key"] = NoFile
  /\ h["account"] # NoFile => h["account"].did = h["key"].did
  /\ \A f \in {"signer", "bridge"} :
       h[f] # NoFile => /\ h["account"] # NoFile
                        /\ h[f] = Config(h["account"].did, h["account"].url)
  /\ h["plugin"] = h["installed"]

\* Whatever signers are added and removed, a group of a draft has no member
\* without a key, and no signer that `all' lacks: the adapter would refuse the
\* approvals (addSigner, removeSigner).  A placeholder may be missing from
\* `all' while another group has it, when a signer was added to `all' itself.
Covered(draft) ==
  \A g \in Groups :
    /\ draft.groups[g] \subseteq draft.keys
    /\ draft.groups[g] \ {Placeholder} \subseteq draft.groups["all"]

Whole(h) == Agrees(h) /\ (h["draft"] # NoFile => Covered(h["draft"]))

\* commitChanges is all or nothing: unless a marker tells of an update that is
\* running, or was left by a process that stopped or failed, the key, the
\* account and the configs are of the same update; and a draft covers its
\* signers.
HomeIsWhole == TypeOK /\ (marker = NoFile => Whole(home))

ChangeOf(plan, f) == plan[CHOOSE j \in DOMAIN plan : plan[j].file = f]

Undone(plan, files, copies) ==
  [f \in Files |-> IF f \in FilesOf(plan) THEN Restored(ChangeOf(plan, f), files, copies)
                   ELSE files[f]]

\* Recovery has what it needs: while an update is not committed, each file of
\* it is as it was or its earlier contents are kept, and putting them back
\* gives a whole home (rollBack after any prefix of renames).
UndoIsPossible ==
  marker # NoFile /\ ~marker.committed => Whole(Undone(marker.files, home, kept))

-----------------------------------------------------------------------------
(***************************************************************************)
(* Why they hold.                                                          *)
(***************************************************************************)
\* One command runs at a time, which the lock is for.
Sequential == \A p, q \in Procs : p = q

\* The home once an update is done
Target(plan, files) ==
  [f \in Files |-> IF f \in FilesOf(plan) THEN ChangeOf(plan, f).doc ELSE files[f]]

\* Until the marker is written the home is as it was, and what is staged and
\* kept grows file by file.
Prepares(c) ==
  /\ marker = NoFile /\ IsPlan(c.plan, keys) /\ c.i \in DOMAIN c.plan
  /\ Whole(Target(c.plan, home))
  /\ \A j \in DOMAIN c.plan :
       /\ c.plan[j].existed <=> home[c.plan[j].file] # NoFile
       /\ c.at # "stage" \/ j < c.i => staged[c.plan[j].file] = c.plan[j].doc
       /\ c.plan[j].existed /\ (c.at = "mark" \/ (c.at = "backup" /\ j < c.i)) =>
            kept[c.plan[j].file] = home[c.plan[j].file]

Updates(c) == marker # NoFile /\ ~marker.committed /\ marker.files = c.plan

\* Then a prefix of the files is new, and every earlier one is kept.
Renames(c) ==
  /\ Updates(c) /\ Whole(Target(c.plan, home))
  /\ c.at = "rename" => c.i \in DOMAIN c.plan
  /\ \A j \in DOMAIN c.plan :
       /\ c.plan[j].existed => kept[c.plan[j].file] # NoFile
       /\ c.at = "commit" \/ j < c.i => home[c.plan[j].file] = c.plan[j].doc
       /\ c.at = "rename" /\ c.i <= j => staged[c.plan[j].file] = c.plan[j].doc

\* Or a prefix of them is as before.
Undoes(c) ==
  /\ Updates(c) /\ c.i \in 1 .. Len(c.plan) + 1
  /\ \A j \in DOMAIN c.plan : j < c.i =>
       Restored(c.plan[j], home, kept) = home[c.plan[j].file]

UpdateInv ==
  \A p \in Procs : LET c == proc[p] IN
    /\ c.at \in {"stage", "backup", "mark"} => Prepares(c)
    /\ c.at \in {"rename", "commit"} => Renames(c)
    /\ c.at \in {"undo", "undoing"} => Undoes(c)

MarkerInv ==
  /\ marker # NoFile /\ marker.committed => Whole(home)
  /\ \A p \in Procs :
       /\ proc[p].at = "plan" => marker = NoFile
       /\ proc[p].at \in {"clean", "unmark"} => marker # NoFile /\ marker.committed

InstallerInv ==
  HomeIsWhole /\ UndoIsPossible /\ UpdateInv /\ MarkerInv
==============================================================================
