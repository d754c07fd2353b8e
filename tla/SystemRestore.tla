---------------------------- MODULE SystemRestore ----------------------------
(***************************************************************************)
(* The restore of a system backup and the recovery of an interrupted one   *)
(* (server-rust/src/recovery/backup_restore.rs and rollback.rs), with the  *)
(* maintenance barrier of routes/recovery_export.rs around it.             *)
(*                                                                         *)
(* A restore replaces three things that cannot be replaced together: the   *)
(* rows of the database, config.json and the artwork directory.  A journal *)
(* and a staging directory with the old copies make it possible to undo    *)
(* it, at once when a step fails and by recover_interrupted_restore when   *)
(* the process died.  An action is one change on disk, and the process may *)
(* die between any two of them; what was written stays written.            *)
(*                                                                         *)
(* Contents are version numbers: version 0 is the original system, version *)
(* k the k-th archive that is restored.                                    *)
(***************************************************************************)
EXTENDS Integers

CONSTANTS
  RecoverAtStartup,  \* whether the startup calls recover_interrupted_restore
  SaveAnyTime,       \* whether a configuration is saved when a journal is left
  MaxRestores,       \* bound: restores begun
  MaxStarts          \* bound: starts of the process after the first

ASSUME RestoreBoundsAssumption ==
  /\ MaxRestores \in Nat /\ MaxStarts \in Nat
  /\ RecoverAtStartup \in BOOLEAN /\ SaveAnyTime \in BOOLEAN

VARIABLES
  has,       \* has[v]: which files version v has
  live,      \* the database, config.json and the artwork
  stage,     \* whether the staging directory of the restore exists
  old,       \* the copies of the original files in it
  journal,   \* recovery/journal.json
  pc,        \* what the process is doing, "off" when it is not running
  rec,       \* the call of recover_inner under way
  undone,    \* whether the rows and the files are back, in a live rollback
  ready,     \* runtime_ready: requests are served
  wasReady,  \* was_ready of the restore under way
  archive,   \* the version of the last archive given to a restore
  starts,    \* counter of the bound
  told,      \* history: what the administrator was told of the last restore
  before     \* history: the version before the last restore

disk == <<live, stage, old, journal>>
process == <<pc, rec, undone, ready, wasReady>>
counters == <<has, archive, starts>>
history == <<told, before>>
vars == <<disk, process, counters, history>>

Files == {"db", "config", "art"}
Versions == 0..MaxRestores
None == -1    \* the file is not there
Torn == -2    \* a database without its log, half of a directory
Contents == Versions \cup {None, Torn}

\* What file f holds when version v is installed.
Of(v, f) == IF f \in has[v] THEN v ELSE None
Whole(v) == \A f \in Files : live[f] = Of(v, f)

NoCopies == [f \in Files |-> None]
NoJournal == [phase |-> "none", had |-> {}]
NoRec == [by |-> "none", at |-> "begin", file |-> "db"]
Steps == {"off", "idle", "prepare", "journal", "moveArt", "config", "art",
          "artCopy", "db", "commit", "undo", "rec"}

TypeOK ==
  /\ has \in [Versions -> SUBSET Files]
  /\ live \in [Files -> Contents]
  /\ stage \in BOOLEAN
  /\ old \in [Files -> Contents]
  /\ journal \in [phase : {"none", "installing", "committed", "rolled-back"},
                  had : SUBSET Files]
  /\ pc \in Steps
  /\ rec \in [by : {"none", "startup", "files", "finish"}, file : Files,
              at : {"begin", "remove", "move", "phase", "status", "stage", "journal"}]
  /\ undone \in [rows : BOOLEAN, files : BOOLEAN]
  /\ ready \in BOOLEAN /\ wasReady \in BOOLEAN
  /\ archive \in Versions
  /\ starts \in 0..MaxStarts
  /\ told \in {"none", "complete", "restored", "incomplete"}
  /\ before \in Versions

\* The original system may lack config.json (it is configured by its
\* environment); it and each archive may lack artwork.
Init ==
  /\ has \in [Versions -> {s \in SUBSET Files : "db" \in s}]
  /\ \A v \in Versions : v # 0 => "config" \in has[v]
  /\ live = [f \in Files |-> Of(0, f)]
  /\ stage = FALSE
  /\ old = NoCopies
  /\ journal = NoJournal
  /\ pc = "idle"
  /\ rec = NoRec
  /\ undone = [rows |-> FALSE, files |-> FALSE]
  /\ ready = TRUE
  /\ wasReady = TRUE
  /\ archive = 0
  /\ starts = 0
  /\ told = "none"
  /\ before = 0

-----------------------------------------------------------------------------
(***************************************************************************)
(* restore_from_archive.                                                   *)
(***************************************************************************)

At(step) == pc = step
Goto(step) == pc' = step /\ UNCHANGED <<rec, undone, ready, wasReady>>
\* The request ends, and opens the barrier or leaves it closed.
Answer(open) == pc' = "idle" /\ ready' = open /\ UNCHANGED <<rec, undone, wasReady>>

\* The barrier closes; a journal that is left refuses every restore, a closed
\* barrier does not ("retry configuration or restore").
RestoreBegin ==
  /\ At("idle")
  /\ journal.phase = "none"
  /\ archive < MaxRestores
  /\ archive' = archive + 1
  /\ stage' = TRUE
  /\ old' = NoCopies
  /\ pc' = "prepare"
  /\ ready' = FALSE
  /\ wasReady' = ready
  /\ undone' = [rows |-> FALSE, files |-> FALSE]
  /\ told' = "none"
  /\ before' = live["db"]
  /\ UNCHANGED <<live, journal, rec, has, starts>>

\* The archive is not valid, the safety backup fails, a target is a link or
\* the snapshot cannot be made.  An error below 500 undoes the barrier.
RestoreRejected(open) ==
  /\ At("prepare")
  /\ open => wasReady
  /\ stage' = FALSE
  /\ Answer(open)
  /\ UNCHANGED <<live, old, journal, counters, history>>

\* The archive is staged, the safety backup is taken; the database and the
\* configuration are copied.
PrepareRollback ==
  /\ At("prepare")
  /\ old' = [old EXCEPT !["db"] = live["db"], !["config"] = live["config"]]
  /\ Goto("journal")
  /\ UNCHANGED <<live, stage, journal, counters, history>>

Installing == [phase |-> "installing", had |-> {f \in Files : live[f] # None}]

WriteJournal ==
  /\ At("journal")
  /\ journal' = Installing
  /\ Goto("moveArt")
  /\ UNCHANGED <<live, stage, old, counters, history>>

\* durable_json renames a complete file into place.  It may fail before or,
\* on the fsync of the directory, after the rename.
WriteJournalFails ==
  /\ At("journal")
  /\ journal' \in {journal, Installing}
  /\ Answer(FALSE)
  /\ UNCHANGED <<live, stage, old, counters, history>>

\* A step of the installation that may fail with or without its effect.
Installs(step, next) ==
  /\ At(step)
  /\ pc' \in {next, "undo"}
  /\ UNCHANGED <<rec, undone, ready, wasReady, stage, journal, counters, history>>

\* A step that fails without its effect.
InstallFails ==
  /\ pc \in {"moveArt", "config", "artCopy", "db"}
  /\ Goto("undo")
  /\ UNCHANGED <<disk, counters, history>>

\* The artwork directory is renamed into the staging directory.
MoveArtwork ==
  /\ Installs("moveArt", "config")
  /\ IF "art" \in journal.had
     THEN /\ old' = [old EXCEPT !["art"] = live["art"]]
          /\ live' = [live EXCEPT !["art"] = None]
     ELSE UNCHANGED <<live, old>>

InstallConfig ==
  /\ Installs("config", "art")
  /\ live' = [live EXCEPT !["config"] = archive]
  /\ UNCHANGED old

\* copy_dir_recursive, when the archive has artwork.
CopyArtwork ==
  /\ At("art")
  /\ IF "art" \in has[archive]
     THEN live' = [live EXCEPT !["art"] = Torn] /\ Goto("artCopy")
     ELSE Goto("db") /\ UNCHANGED live
  /\ UNCHANGED <<stage, old, journal, counters, history>>

CopyArtworkEnds ==
  /\ Installs("artCopy", "db")
  /\ live' = [live EXCEPT !["art"] = archive]
  /\ UNCHANGED old

\* One transaction replaces the rows; the checkpoint after it may fail.
InstallDatabase ==
  /\ Installs("db", "commit")
  /\ live' = [live EXCEPT !["db"] = archive]
  /\ UNCHANGED old

CallRecover(by) ==
  /\ pc' = "rec"
  /\ rec' = [NoRec EXCEPT !.by = by]

CommitJournal ==
  /\ At("commit")
  /\ journal' = [journal EXCEPT !.phase = "committed"]
  /\ CallRecover("finish")
  /\ UNCHANGED <<live, stage, old, undone, ready, wasReady, counters, history>>

CommitJournalFails ==
  /\ At("commit")
  /\ journal' \in {journal, [journal EXCEPT !.phase = "committed"]}
  /\ Answer(FALSE)
  /\ UNCHANGED <<live, stage, old, counters, history>>

\* The live rollback: first the rows, by the same transaction from the old
\* copy, which may fail before or after its commit ...
UndoDatabase ==
  /\ At("undo")
  /\ \E done, ok \in BOOLEAN :
       /\ ok => done
       /\ live' = IF done THEN [live EXCEPT !["db"] = old["db"]] ELSE live
       /\ undone' = [rows |-> ok, files |-> FALSE]
  /\ CallRecover("files")
  /\ UNCHANGED <<stage, old, journal, ready, wasReady, counters, history>>

-----------------------------------------------------------------------------
(***************************************************************************)
(* recover_inner: called "files" and then "finish" by a live rollback,     *)
(* "finish" after the commit, "startup" by recover_interrupted_restore.    *)
(***************************************************************************)

InRec(at) == pc = "rec" /\ rec.at = at
Follow(at, file) == rec' = [rec EXCEPT !.at = at, !.file = file] /\ UNCHANGED pc
RecFrame == UNCHANGED <<undone, ready, wasReady, counters, history>>

\* Slip, told apart by ServesWholeSet: the startup leaves the database alone.
RecBeginFilesOnly ==
  /\ InRec("begin")
  /\ journal.phase # "none"
  /\ journal.phase = "installing" => stage
  /\ IF journal.phase = "installing"
     THEN Follow("remove", "config")
     ELSE Follow("status", "db")
  /\ UNCHANGED disk /\ RecFrame
\* The database file is restored by the startup only, when its copy is there.
RecBegin ==
  /\ InRec("begin")
  /\ journal.phase # "none"
  /\ journal.phase = "installing" => stage
  /\ IF journal.phase = "installing"
     THEN Follow("remove", IF rec.by = "startup" /\ old["db"] # None THEN "db" ELSE "config")
     ELSE Follow("status", "db")
  /\ UNCHANGED disk /\ RecFrame

\* A file with an old copy is removed, and so is one that was not there; the
\* database loses its log first, a directory its entries.
RecRemove ==
  /\ InRec("remove")
  /\ LET f == rec.file IN
       \/ /\ f \in {"db", "art"} /\ live[f] # None
          /\ old[f] # None \/ f \notin journal.had
          /\ live' = [live EXCEPT ![f] = Torn]
          /\ UNCHANGED rec
       \/ /\ old[f] # None \/ f \notin journal.had
          /\ live' = [live EXCEPT ![f] = None]
          /\ Follow("move", f)
       \/ /\ old[f] = None /\ f \in journal.had /\ live[f] # None
          /\ Follow("move", f)
          /\ UNCHANGED live
  /\ UNCHANGED <<pc, stage, old, journal>> /\ RecFrame

\* The old copy is renamed into its place; then the next file, or the end.
RecMove ==
  /\ InRec("move")
  /\ LET f == rec.file IN
       /\ IF old[f] # None
          THEN live' = [live EXCEPT ![f] = old[f]] /\ old' = [old EXCEPT ![f] = None]
          ELSE UNCHANGED <<live, old>>
       /\ CASE f = "db" -> Follow("remove", "config")
            [] f = "config" -> Follow("remove", "art")
            [] f = "art" -> Follow("phase", f)
  /\ UNCHANGED <<stage, journal>> /\ RecFrame

\* Slip, told apart by RollbackPossible: the journal still says installing
\* when the staging directory is removed.
RecPhaseKept ==
  /\ InRec("phase")
  /\ rec.by # "files"
  /\ Follow("status", rec.file)
  /\ UNCHANGED disk /\ RecFrame
\* The journal says rolled-back before the staging directory is removed.
RecPhase ==
  /\ InRec("phase")
  /\ rec.by # "files"
  /\ journal' = [journal EXCEPT !.phase = "rolled-back"]
  /\ Follow("status", rec.file)
  /\ UNCHANGED <<live, stage, old>> /\ RecFrame

RecStatus ==
  /\ InRec("status")
  /\ Follow("stage", rec.file)
  /\ UNCHANGED disk /\ RecFrame

\* remove_dir_all, file by file.
RecStage ==
  /\ InRec("stage")
  /\ \/ /\ \E f \in Files : old[f] # None /\ old' = [old EXCEPT ![f] = None]
        /\ UNCHANGED <<stage, pc, rec>>
     \/ /\ stage' = FALSE
        /\ old' = NoCopies
        /\ Follow("journal", rec.file)
  /\ UNCHANGED <<live, journal>> /\ RecFrame

RecJournal ==
  /\ InRec("journal")
  /\ journal' = NoJournal
  /\ rec' = [rec EXCEPT !.at = "begin"]
  /\ UNCHANGED <<live, stage, old, pc>> /\ RecFrame

-----------------------------------------------------------------------------
(***************************************************************************)
(* The return of recover_inner.                                            *)
(***************************************************************************)

Return(to, open, word) ==
  /\ pc' = to
  /\ ready' = open
  /\ rec' = NoRec
  /\ told' = word
  /\ UNCHANGED <<disk, wasReady, counters, before>>

\* No journal is left: a startup that has nothing to recover, or the end.
RecOk ==
  /\ InRec("begin")
  /\ journal.phase = "none"
  /\ UNCHANGED undone
  /\ CASE rec.by = "startup" -> Return("idle", TRUE, told)
       [] rec.by = "finish" /\ undone.files -> Return("idle", FALSE, "restored")
          \* refresh_runtime may fail; then the barrier stays closed
       [] OTHER -> \E open \in BOOLEAN : Return("idle", open, "complete")

\* Slip, told apart by AsTold: the result for the rows is forgotten.
RecFilesOkAnyway ==
  /\ InRec("phase")
  /\ rec.by = "files"
  /\ undone' = [undone EXCEPT !.files = TRUE]
  /\ CallRecover("finish") /\ UNCHANGED <<disk, ready, wasReady, counters, history>>
\* restore_files is through: the recovery is finished if the rows are back too.
RecFilesOk ==
  /\ InRec("phase")
  /\ rec.by = "files"
  /\ undone' = [undone EXCEPT !.files = TRUE]
  /\ IF undone.rows
     THEN CallRecover("finish") /\ UNCHANGED <<disk, ready, wasReady, counters, history>>
     ELSE Return("idle", FALSE, "incomplete")

\* Any step fails, the removal of the journal also after its effect; the
\* journal and what is staged are kept.  A startup refuses to go on.
RecFails ==
  /\ pc = "rec"
  /\ UNCHANGED undone
  /\ CASE rec.by = "startup" -> Return("off", FALSE, told)
       [] rec.by = "finish" /\ ~undone.files -> Return("idle", FALSE, told)
       [] OTHER -> Return("idle", FALSE, "incomplete")

RecPhaseFails ==
  /\ InRec("phase")
  /\ rec.by # "files"
  /\ journal' = [journal EXCEPT !.phase = "rolled-back"]
  /\ pc' = IF rec.by = "startup" THEN "off" ELSE "idle"
  /\ told' = IF rec.by = "startup" THEN told ELSE "incomplete"
  /\ rec' = NoRec
  /\ UNCHANGED <<live, stage, old, undone, ready, wasReady, counters, before>>

-----------------------------------------------------------------------------
(***************************************************************************)
(* The process.                                                            *)
(***************************************************************************)

Stop ==
  /\ pc # "off"
  /\ pc' = "off"
  /\ rec' = NoRec
  /\ undone' = [rows |-> FALSE, files |-> FALSE]
  /\ ready' = FALSE
  /\ UNCHANGED <<disk, wasReady, counters, history>>

\* runtime_ready is set from the start.
Start ==
  /\ pc = "off"
  /\ starts < MaxStarts
  /\ starts' = starts + 1
  /\ IF RecoverAtStartup
     THEN CallRecover("startup") /\ UNCHANGED ready
     ELSE pc' = "idle" /\ ready' = TRUE /\ UNCHANGED rec
  /\ UNCHANGED <<disk, undone, wasReady, has, archive, history>>

\* POST /admin/system/configuration saves config.json and its rows for the
\* database that is live, and opens the barrier unless refresh_runtime fails.
SaveConfiguration ==
  /\ At("idle")
  /\ SaveAnyTime \/ journal.phase = "none"
  /\ has' = [has EXCEPT ![live["db"]] = @ \cup {"config"}]
  /\ live' = [live EXCEPT !["config"] = live["db"]]
  /\ \E open \in BOOLEAN : Answer(open)
  /\ UNCHANGED <<stage, old, journal, archive, starts, history>>

Restore ==
  \/ RestoreBegin \/ \E open \in BOOLEAN : RestoreRejected(open)
  \/ PrepareRollback \/ WriteJournal \/ WriteJournalFails
  \/ MoveArtwork \/ InstallConfig \/ CopyArtwork \/ CopyArtworkEnds
  \/ InstallDatabase \/ InstallFails \/ UndoDatabase
  \/ CommitJournal \/ CommitJournalFails

Recover ==
  \/ RecBegin \/ RecRemove \/ RecMove \/ RecPhase \/ RecStatus \/ RecStage
  \/ RecJournal \/ RecOk \/ RecFilesOk \/ RecFails \/ RecPhaseFails

Next == Restore \/ Recover \/ SaveConfiguration \/ Stop \/ Start

Spec == Init /\ [][Next]_vars
-----------------------------------------------------------------------------
(***************************************************************************)
(* Properties.                                                             *)
(***************************************************************************)

\* docs/setup-recovery.md: "it does not serve a mixed file set".  When
\* requests are served, the database, config.json and the artwork are those of
\* one version, whatever failed and wherever the process died.
ServesWholeSet == ready => \E v \in Versions : Whole(v)

\* Until the rollback is recorded as done, recover_inner can still undo the
\* restore: the staging directory is there, and of each original file either
\* the old copy or the file itself, complete.  Its "both missing" errors, which
\* would leave the server unable to start, are unreachable.
RollbackPossible ==
  journal.phase = "installing" =>
    /\ stage
    /\ \A f \in journal.had :
         \/ old[f] = Of(before, f)
         \/ old[f] = None /\ live[f] = Of(before, f)

\* The administrator was told that the restore is complete, or that the
\* original files were restored: so it is, and so it stays over any restart.
AsTold ==
  /\ told = "complete" => Whole(archive)
  /\ told = "restored" => Whole(before)

=============================================================================
