------------------------- MODULE SystemRestoreProofs -------------------------
(***************************************************************************)
(* What the restore protocol of SystemRestore guarantees for any number of *)
(* restores, failures, crashes and restarts.  The theorems hold for every  *)
(* value of the constants: for the startup of main.rs, which does not call *)
(* recover_interrupted_restore and where a configuration may be saved over *)
(* a journal, and for the startup the docs describe.  What somebody must   *)
(* not do is a hypothesis on the behaviour, never on a constant.           *)
(*                                                                         *)
(* The journal says which of the invariants below holds of the files:      *)
(*   none          one version is live (Quiet)                             *)
(*   installing    the restore can be undone (Undoable); how far the       *)
(*                 installation (Installed) or its undoing (Recovering) is *)
(*   committed     the archive is live (Closing)                           *)
(*   rolled-back   the version before is live (Closing)                    *)
(* until a configuration is saved over a journal that nobody will look at  *)
(* again: then the restore is Abandoned, and nothing is known of the files *)
(* but that the administrator was told of no success.                      *)
(***************************************************************************)
EXTENDS SystemRestore, TLAPS

\* Every version has a database, every archive a configuration.
Complete ==
  /\ \A v \in Versions : "db" \in has[v] /\ (v # 0 => "config" \in has[v])
  /\ pc \notin {"idle", "off", "rec"} => archive # 0

\* File f is what it was before the restore, and its old copy is used up.
Undone(f) == old[f] = None /\ live[f] = Of(before, f)

Undoable ==
  /\ stage
  /\ journal.had = has[before]
  /\ \A f \in Files : old[f] = Of(before, f) \/ Undone(f)

Installed ==
  /\ pc = "moveArt" => Whole(before) /\ old["art"] = None
  /\ pc \in {"config", "art", "artCopy", "db", "commit"} => old["art"] = Of(before, "art")
  /\ pc \in {"config", "art"} => live["art"] = None
  /\ pc \in {"art", "artCopy", "db", "commit"} => live["config"] = archive
  /\ pc = "artCopy" => "art" \in has[archive]
  /\ pc \in {"db", "commit"} => live["art"] = Of(archive, "art")
  /\ pc = "commit" => live["db"] = archive
  /\ pc \notin {"idle", "off", "rec"} =>
       old["db"] = before /\ old["config"] = Of(before, "config")

\* The files come back in the order database, configuration, artwork; the rows
\* of a live rollback were put back by SQL before.
Recovering ==
  /\ rec.at \in {"begin", "remove", "move", "phase"}
  /\ rec.by # "none"
  /\ rec.by = "startup" /\ rec.file # "db" => Undone("db")
  /\ rec.by # "startup" => /\ rec.file # "db" \/ rec.at = "begin"
                           /\ old["db"] = before
                           /\ undone.rows => live["db"] = before
  /\ rec.by = "files" => ~undone.files
  /\ rec.by = "finish" => undone.rows /\ undone.files /\ Undone("config") /\ Undone("art")
  /\ rec.at # "begin" /\ rec.file = "art" => Undone("config")
  /\ rec.at = "move" /\ (old[rec.file] # None \/ rec.file \notin journal.had)
       => live[rec.file] = None
  /\ rec.at = "phase" => Undone("art") /\ rec.file = "art"

Quiet ==
  /\ live["db"] \in Versions
  /\ Whole(live["db"])
  /\ pc \in {"idle", "off", "prepare", "journal", "rec"}
  /\ pc \in {"prepare", "journal"} => before = live["db"] /\ told = "none" /\ stage
  /\ pc = "prepare" => \A f \in Files : old[f] = None
  /\ pc = "journal" => \A f \in Files : old[f] = IF f = "art" THEN None ELSE live[f]
  /\ pc = "rec" => rec.at = "begin" /\ rec.by \in {"startup", "finish"}
  /\ pc = "rec" /\ rec.by = "finish" =>
       live["db"] = IF undone.files THEN before ELSE archive

Closing ==
  /\ pc \in {"idle", "off", "rec"}
  /\ pc = "rec" => /\ rec.at \in {"begin", "status", "stage", "journal"}
                   /\ rec.by \in {"startup", "finish"}
                   /\ rec.by = "finish" => undone.files = (journal.phase = "rolled-back")

\* No success is announced while a journal is left, and nothing is served in
\* the middle of a restore.
Barrier ==
  /\ journal.phase # "none" => told \in {"none", "incomplete"}
  /\ ready => pc = "idle"
  /\ pc \notin {"idle", "off", "rec"} => ~undone.files

NoJournalLeft == journal.phase = "none" => Quiet

UnderWay ==
  journal.phase = "installing" =>
    /\ Undoable
    /\ pc \notin {"prepare", "journal"}
    /\ Installed
    /\ pc = "rec" => Recovering

Settled ==
  /\ journal.phase = "committed" => Closing /\ Whole(archive)
  /\ journal.phase = "rolled-back" => Closing /\ Whole(before)

IInv ==
  TypeOK /\ Complete /\ AsTold /\ Barrier /\ NoJournalLeft /\ UnderWay /\ Settled

\* The startup of main.rs leaves a journal for ever: no restore begins, none is
\* recovered.
Abandoned ==
  /\ ~RecoverAtStartup
  /\ TypeOK
  /\ journal.phase # "none"
  /\ pc \in {"idle", "off"}
  /\ told \in {"none", "incomplete"}

\* Requests wait behind the barrier while a journal is left.
Closed == journal.phase # "none" => ~ready

\* What the hypotheses of the theorems forbid: a configuration saved over a
\* journal, and a start of the process over one without its recovery.
SavesOverJournal == journal.phase # "none" /\ SaveConfiguration
StartsOverJournal == journal.phase # "none" /\ pc = "off" /\ pc' = "idle"
NobodySavesOverJournal == ~SavesOverJournal
NobodyStartsOverJournal == ~StartsOverJournal
\* With main.rs this asks nothing of anybody.
RecoveredUnsaved == RecoverAtStartup => ~SavesOverJournal

-----------------------------------------------------------------------------

\* A system that was never restored is whole.
LEMMA InitInv == Init => IInv
<1> USE RestoreBoundsAssumption DEF IInv, TypeOK, Complete, AsTold,
     Barrier, NoJournalLeft, UnderWay, Settled, Quiet, Undoable, Undone, Installed,
     Recovering, Closing, Whole, Of, Files, Versions, None, Torn, Contents, NoCopies,
     NoJournal, NoRec, Steps, At, Goto, Answer, Installs, Installing, CallRecover,
     InRec, Return, counters, history, disk, process
<1> SUFFICES ASSUME Init PROVE IInv
  OBVIOUS
<1>1. 0 \in Versions /\ has \in [Versions -> SUBSET Files]
  BY DEF Init
<1>2. live \in [Files -> Contents] /\ Whole(0) /\ live["db"] = 0
  BY <1>1 DEF Init
<1>3. TypeOK
  <2>1. old \in [Files -> Contents] /\ journal.had = {} /\ journal.phase = "none"
    BY DEF Init
  <2>2. /\ journal \in [phase : {"none", "installing", "committed", "rolled-back"},
                         had : SUBSET Files]
        /\ rec \in [by : {"none", "startup", "files", "finish"}, file : Files,
                    at : {"begin", "remove", "move", "phase", "status", "stage", "journal"}]
    BY DEF Init
  <2>3. pc \in Steps /\ undone \in [rows : BOOLEAN, files : BOOLEAN]
    BY DEF Init
  <2>4. stage \in BOOLEAN /\ ready \in BOOLEAN /\ wasReady \in BOOLEAN
    BY DEF Init
  <2>5. archive \in Versions /\ before \in Versions
    BY <1>1 DEF Init
  <2>6. starts \in 0..MaxStarts
    BY DEF Init
  <2>7. told \in {"none", "complete", "restored", "incomplete"}
    BY DEF Init
  <2> QED BY <1>1, <1>2, <2>1, <2>2, <2>3, <2>4, <2>5, <2>6, <2>7
<1>4. Complete
  BY DEF Init
<1> QED BY <1>2, <1>3, <1>4 DEF Init

\* One step of recover_inner changes its place only.
LEMMA Followed ==
  ASSUME TypeOK, NEW f \in Files,
         NEW at \in {"remove", "move", "phase", "status", "stage", "journal"},
         Follow(at, f)
  PROVE  rec'.by = rec.by /\ rec'.at = at /\ rec'.file = f /\ pc' = pc
  BY DEF TypeOK, Follow

\* Every action keeps the types; a restore that begins finds a whole database.
LEMMA TypeStep == IInv /\ [Next]_vars => TypeOK'
<1> USE RestoreBoundsAssumption DEF IInv, TypeOK, Versions, Files, Contents, None, Torn,
     Steps, NoRec, NoCopies, NoJournal, At, Goto, Answer, Installs, Installing, Of,
     CallRecover, InRec, Follow, RecFrame, Return, counters, history, disk, process
<1> SUFFICES ASSUME IInv, [Next]_vars PROVE TypeOK'
  OBVIOUS
<1>0. journal.phase = "none" => live["db"] \in Versions
  BY DEF NoJournalLeft, Quiet
<1>1. CASE RestoreBegin
  <2>1. has' \in [Versions -> SUBSET Files] /\ stage' \in BOOLEAN
    BY <1>1, <1>0 DEF RestoreBegin
  <2>2. live' \in [Files -> Contents]
    BY <1>1, <1>0 DEF RestoreBegin
  <2>3. old' \in [Files -> Contents]
    BY <1>1, <1>0 DEF RestoreBegin
  <2>4. journal' \in [phase : {"none", "installing", "committed", "rolled-back"},
                      had : SUBSET Files]
    BY <1>1, <1>0 DEF RestoreBegin
  <2>5. rec' \in [by : {"none", "startup", "files", "finish"}, file : Files,
                  at : {"begin", "remove", "move", "phase", "status", "stage", "journal"}]
    BY <1>1, <1>0 DEF RestoreBegin
  <2>6. pc' \in Steps /\ undone' \in [rows : BOOLEAN, files : BOOLEAN]
            /\ ready' \in BOOLEAN /\ wasReady' \in BOOLEAN
    BY <1>1, <1>0 DEF RestoreBegin
  <2>7. archive' \in Versions /\ starts' \in 0..MaxStarts /\ before' \in Versions
            /\ told' \in {"none", "complete", "restored", "incomplete"}
    BY <1>1, <1>0 DEF RestoreBegin
  <2> QED BY <2>1, <2>2, <2>3, <2>4, <2>5, <2>6, <2>7
<1>2. CASE \E open \in BOOLEAN : RestoreRejected(open)
  BY <1>2 DEF RestoreRejected
<1>3. CASE PrepareRollback
  BY <1>3 DEF PrepareRollback
<1>4. CASE WriteJournal
  BY <1>4 DEF WriteJournal
<1>5. CASE WriteJournalFails
  <2>1. has' \in [Versions -> SUBSET Files] /\ stage' \in BOOLEAN
    BY <1>5 DEF WriteJournalFails
  <2>2. live' \in [Files -> Contents]
    BY <1>5 DEF WriteJournalFails
  <2>3. old' \in [Files -> Contents]
    BY <1>5 DEF WriteJournalFails
  <2>4. journal' \in [phase : {"none", "installing", "committed", "rolled-back"},
                      had : SUBSET Files]
    BY <1>5 DEF WriteJournalFails
  <2>5. rec' \in [by : {"none", "startup", "files", "finish"}, file : Files,
                  at : {"begin", "remove", "move", "phase", "status", "stage", "journal"}]
    BY <1>5 DEF WriteJournalFails
  <2>6. pc' \in Steps /\ undone' \in [rows : BOOLEAN, files : BOOLEAN]
            /\ ready' \in BOOLEAN /\ wasReady' \in BOOLEAN
    BY <1>5 DEF WriteJournalFails
  <2>7. archive' \in Versions /\ starts' \in 0..MaxStarts /\ before' \in Versions
            /\ told' \in {"none", "complete", "restored", "incomplete"}
    BY <1>5 DEF WriteJournalFails
  <2> QED BY <2>1, <2>2, <2>3, <2>4, <2>5, <2>6, <2>7
<1>6. CASE MoveArtwork
  BY <1>6 DEF MoveArtwork
<1>7. CASE InstallConfig
  BY <1>7 DEF InstallConfig
<1>8. CASE CopyArtwork
  BY <1>8 DEF CopyArtwork
<1>9. CASE CopyArtworkEnds
  BY <1>9 DEF CopyArtworkEnds
<1>10. CASE InstallDatabase
  BY <1>10 DEF InstallDatabase
<1>11. CASE InstallFails
  BY <1>11 DEF InstallFails
<1>12. CASE UndoDatabase
  BY <1>12 DEF UndoDatabase
<1>13. CASE CommitJournal
  BY <1>13 DEF CommitJournal
<1>14. CASE CommitJournalFails
  <2>1. has' \in [Versions -> SUBSET Files] /\ stage' \in BOOLEAN
    BY <1>14 DEF CommitJournalFails
  <2>2. live' \in [Files -> Contents]
    BY <1>14 DEF CommitJournalFails
  <2>3. old' \in [Files -> Contents]
    BY <1>14 DEF CommitJournalFails
  <2>4. journal' \in [phase : {"none", "installing", "committed", "rolled-back"},
                      had : SUBSET Files]
    BY <1>14 DEF CommitJournalFails
  <2>5. rec' \in [by : {"none", "startup", "files", "finish"}, file : Files,
                  at : {"begin", "remove", "move", "phase", "status", "stage", "journal"}]
    BY <1>14 DEF CommitJournalFails
  <2>6. pc' \in Steps /\ undone' \in [rows : BOOLEAN, files : BOOLEAN]
            /\ ready' \in BOOLEAN /\ wasReady' \in BOOLEAN
    BY <1>14 DEF CommitJournalFails
  <2>7. archive' \in Versions /\ starts' \in 0..MaxStarts /\ before' \in Versions
            /\ told' \in {"none", "complete", "restored", "incomplete"}
    BY <1>14 DEF CommitJournalFails
  <2> QED BY <2>1, <2>2, <2>3, <2>4, <2>5, <2>6, <2>7
<1>15. CASE RecBegin
  <2>1. has' \in [Versions -> SUBSET Files] /\ stage' \in BOOLEAN
    BY <1>15 DEF RecBegin
  <2>2. live' \in [Files -> Contents]
    BY <1>15 DEF RecBegin
  <2>3. old' \in [Files -> Contents]
    BY <1>15 DEF RecBegin
  <2>4. journal' \in [phase : {"none", "installing", "committed", "rolled-back"},
                      had : SUBSET Files]
    BY <1>15 DEF RecBegin
  <2>5. rec' \in [by : {"none", "startup", "files", "finish"}, file : Files,
                  at : {"begin", "remove", "move", "phase", "status", "stage", "journal"}]
    BY <1>15 DEF RecBegin
  <2>6. pc' \in Steps /\ undone' \in [rows : BOOLEAN, files : BOOLEAN]
            /\ ready' \in BOOLEAN /\ wasReady' \in BOOLEAN
    BY <1>15 DEF RecBegin
  <2>7. archive' \in Versions /\ starts' \in 0..MaxStarts /\ before' \in Versions
            /\ told' \in {"none", "complete", "restored", "incomplete"}
    BY <1>15 DEF RecBegin
  <2> QED BY <2>1, <2>2, <2>3, <2>4, <2>5, <2>6, <2>7
<1>16. CASE RecRemove
  <2>1. has' \in [Versions -> SUBSET Files] /\ stage' \in BOOLEAN
    BY <1>16 DEF RecRemove
  <2>2. live' \in [Files -> Contents]
    BY <1>16 DEF RecRemove
  <2>3. old' \in [Files -> Contents]
    BY <1>16 DEF RecRemove
  <2>4. journal' \in [phase : {"none", "installing", "committed", "rolled-back"},
                      had : SUBSET Files]
    BY <1>16 DEF RecRemove
  <2>5. rec' \in [by : {"none", "startup", "files", "finish"}, file : Files,
                  at : {"begin", "remove", "move", "phase", "status", "stage", "journal"}]
    BY <1>16 DEF RecRemove
  <2>6. pc' \in Steps /\ undone' \in [rows : BOOLEAN, files : BOOLEAN]
            /\ ready' \in BOOLEAN /\ wasReady' \in BOOLEAN
    BY <1>16 DEF RecRemove
  <2>7. archive' \in Versions /\ starts' \in 0..MaxStarts /\ before' \in Versions
            /\ told' \in {"none", "complete", "restored", "incomplete"}
    BY <1>16 DEF RecRemove
  <2> QED BY <2>1, <2>2, <2>3, <2>4, <2>5, <2>6, <2>7
<1>17. CASE RecMove
  <2>1. has' \in [Versions -> SUBSET Files] /\ stage' \in BOOLEAN
    BY <1>17 DEF RecMove
  <2>2. live' \in [Files -> Contents]
    BY <1>17 DEF RecMove
  <2>3. old' \in [Files -> Contents]
    BY <1>17 DEF RecMove
  <2>4. journal' \in [phase : {"none", "installing", "committed", "rolled-back"},
                      had : SUBSET Files]
    BY <1>17 DEF RecMove
  <2>5. rec' \in [by : {"none", "startup", "files", "finish"}, file : Files,
                  at : {"begin", "remove", "move", "phase", "status", "stage", "journal"}]
    BY <1>17 DEF RecMove
  <2>6. pc' \in Steps /\ undone' \in [rows : BOOLEAN, files : BOOLEAN]
            /\ ready' \in BOOLEAN /\ wasReady' \in BOOLEAN
    BY <1>17 DEF RecMove
  <2>7. archive' \in Versions /\ starts' \in 0..MaxStarts /\ before' \in Versions
            /\ told' \in {"none", "complete", "restored", "incomplete"}
    BY <1>17 DEF RecMove
  <2> QED BY <2>1, <2>2, <2>3, <2>4, <2>5, <2>6, <2>7
<1>18. CASE RecPhase
  BY <1>18 DEF RecPhase
<1>19. CASE RecStatus
  BY <1>19 DEF RecStatus
<1>20. CASE RecStage
  <2>1. has' \in [Versions -> SUBSET Files] /\ stage' \in BOOLEAN
    BY <1>20 DEF RecStage
  <2>2. live' \in [Files -> Contents]
    BY <1>20 DEF RecStage
  <2>3. old' \in [Files -> Contents]
    BY <1>20 DEF RecStage
  <2>4. journal' \in [phase : {"none", "installing", "committed", "rolled-back"},
                      had : SUBSET Files]
    BY <1>20 DEF RecStage
  <2>5. rec' \in [by : {"none", "startup", "files", "finish"}, file : Files,
                  at : {"begin", "remove", "move", "phase", "status", "stage", "journal"}]
    BY <1>20 DEF RecStage
  <2>6. pc' \in Steps /\ undone' \in [rows : BOOLEAN, files : BOOLEAN]
            /\ ready' \in BOOLEAN /\ wasReady' \in BOOLEAN
    BY <1>20 DEF RecStage
  <2>7. archive' \in Versions /\ starts' \in 0..MaxStarts /\ before' \in Versions
            /\ told' \in {"none", "complete", "restored", "incomplete"}
    BY <1>20 DEF RecStage
  <2> QED BY <2>1, <2>2, <2>3, <2>4, <2>5, <2>6, <2>7
<1>21. CASE RecJournal
  BY <1>21 DEF RecJournal
<1>22. CASE RecOk
  <2>1. has' \in [Versions -> SUBSET Files] /\ stage' \in BOOLEAN
    BY <1>22 DEF RecOk
  <2>2. live' \in [Files -> Contents]
    BY <1>22 DEF RecOk
  <2>3. old' \in [Files -> Contents]
    BY <1>22 DEF RecOk
  <2>4. journal' \in [phase : {"none", "installing", "committed", "rolled-back"},
                      had : SUBSET Files]
    BY <1>22 DEF RecOk
  <2>5. rec' \in [by : {"none", "startup", "files", "finish"}, file : Files,
                  at : {"begin", "remove", "move", "phase", "status", "stage", "journal"}]
    BY <1>22 DEF RecOk
  <2>6. pc' \in Steps /\ undone' \in [rows : BOOLEAN, files : BOOLEAN]
            /\ ready' \in BOOLEAN /\ wasReady' \in BOOLEAN
    BY <1>22 DEF RecOk
  <2>7. archive' \in Versions /\ starts' \in 0..MaxStarts /\ before' \in Versions
            /\ told' \in {"none", "complete", "restored", "incomplete"}
    BY <1>22 DEF RecOk
  <2> QED BY <2>1, <2>2, <2>3, <2>4, <2>5, <2>6, <2>7
<1>23. CASE RecFilesOk
  <2>1. has' \in [Versions -> SUBSET Files] /\ stage' \in BOOLEAN
    BY <1>23 DEF RecFilesOk
  <2>2. live' \in [Files -> Contents]
    BY <1>23 DEF RecFilesOk
  <2>3. old' \in [Files -> Contents]
    BY <1>23 DEF RecFilesOk
  <2>4. journal' \in [phase : {"none", "installing", "committed", "rolled-back"},
                      had : SUBSET Files]
    BY <1>23 DEF RecFilesOk
  <2>5. rec' \in [by : {"none", "startup", "files", "finish"}, file : Files,
                  at : {"begin", "remove", "move", "phase", "status", "stage", "journal"}]
    BY <1>23 DEF RecFilesOk
  <2>6. pc' \in Steps /\ undone' \in [rows : BOOLEAN, files : BOOLEAN]
            /\ ready' \in BOOLEAN /\ wasReady' \in BOOLEAN
    BY <1>23 DEF RecFilesOk
  <2>7. archive' \in Versions /\ starts' \in 0..MaxStarts /\ before' \in Versions
            /\ told' \in {"none", "complete", "restored", "incomplete"}
    BY <1>23 DEF RecFilesOk
  <2> QED BY <2>1, <2>2, <2>3, <2>4, <2>5, <2>6, <2>7
<1>24. CASE RecFails
  <2>1. has' \in [Versions -> SUBSET Files] /\ stage' \in BOOLEAN
    BY <1>24 DEF RecFails
  <2>2. live' \in [Files -> Contents]
    BY <1>24 DEF RecFails
  <2>3. old' \in [Files -> Contents]
    BY <1>24 DEF RecFails
  <2>4. journal' \in [phase : {"none", "installing", "committed", "rolled-back"},
                      had : SUBSET Files]
    BY <1>24 DEF RecFails
  <2>5. rec' \in [by : {"none", "startup", "files", "finish"}, file : Files,
                  at : {"begin", "remove", "move", "phase", "status", "stage", "journal"}]
    BY <1>24 DEF RecFails
  <2>6. pc' \in Steps /\ undone' \in [rows : BOOLEAN, files : BOOLEAN]
            /\ ready' \in BOOLEAN /\ wasReady' \in BOOLEAN
    BY <1>24 DEF RecFails
  <2>7. archive' \in Versions /\ starts' \in 0..MaxStarts /\ before' \in Versions
            /\ told' \in {"none", "complete", "restored", "incomplete"}
    BY <1>24 DEF RecFails
  <2> QED BY <2>1, <2>2, <2>3, <2>4, <2>5, <2>6, <2>7
<1>25. CASE RecPhaseFails
  BY <1>25 DEF RecPhaseFails
<1>26. CASE SaveConfiguration
  <2>1. has' \in [Versions -> SUBSET Files] /\ stage' \in BOOLEAN
    BY <1>26, <1>0 DEF SaveConfiguration
  <2>2. live' \in [Files -> Contents]
    BY <1>26, <1>0 DEF SaveConfiguration
  <2>3. old' \in [Files -> Contents]
    BY <1>26, <1>0 DEF SaveConfiguration
  <2>4. journal' \in [phase : {"none", "installing", "committed", "rolled-back"},
                      had : SUBSET Files]
    BY <1>26, <1>0 DEF SaveConfiguration
  <2>5. rec' \in [by : {"none", "startup", "files", "finish"}, file : Files,
                  at : {"begin", "remove", "move", "phase", "status", "stage", "journal"}]
    BY <1>26, <1>0 DEF SaveConfiguration
  <2>6. pc' \in Steps /\ undone' \in [rows : BOOLEAN, files : BOOLEAN]
            /\ ready' \in BOOLEAN /\ wasReady' \in BOOLEAN
    BY <1>26, <1>0 DEF SaveConfiguration
  <2>7. archive' \in Versions /\ starts' \in 0..MaxStarts /\ before' \in Versions
            /\ told' \in {"none", "complete", "restored", "incomplete"}
    BY <1>26, <1>0 DEF SaveConfiguration
  <2> QED BY <2>1, <2>2, <2>3, <2>4, <2>5, <2>6, <2>7
<1>27. CASE Stop
  BY <1>27 DEF Stop
<1>28. CASE Start
  <2>1. has' \in [Versions -> SUBSET Files] /\ stage' \in BOOLEAN
    BY <1>28 DEF Start
  <2>2. live' \in [Files -> Contents]
    BY <1>28 DEF Start
  <2>3. old' \in [Files -> Contents]
    BY <1>28 DEF Start
  <2>4. journal' \in [phase : {"none", "installing", "committed", "rolled-back"},
                      had : SUBSET Files]
    BY <1>28 DEF Start
  <2>5. rec' \in [by : {"none", "startup", "files", "finish"}, file : Files,
                  at : {"begin", "remove", "move", "phase", "status", "stage", "journal"}]
    BY <1>28 DEF Start
  <2>6. pc' \in Steps /\ undone' \in [rows : BOOLEAN, files : BOOLEAN]
            /\ ready' \in BOOLEAN /\ wasReady' \in BOOLEAN
    BY <1>28 DEF Start
  <2>7. archive' \in Versions /\ starts' \in 0..MaxStarts /\ before' \in Versions
            /\ told' \in {"none", "complete", "restored", "incomplete"}
    BY <1>28 DEF Start
  <2> QED BY <2>1, <2>2, <2>3, <2>4, <2>5, <2>6, <2>7
<1>29. CASE UNCHANGED vars
  BY <1>29 DEF vars
<1> QED
  BY <1>1, <1>2, <1>3, <1>4, <1>5, <1>6, <1>7, <1>8, <1>9, <1>10, <1>11, <1>12,
     <1>13, <1>14, <1>15, <1>16, <1>17, <1>18, <1>19, <1>20, <1>21, <1>22, <1>23,
     <1>24, <1>25, <1>26, <1>27, <1>28, <1>29
     DEF Next, Restore, Recover

\* The recovery begins with the database or the configuration, or ends at once.
LEMMA BeginStep == ASSUME IInv, RecBegin PROVE UnderWay' /\ Settled'
<1> USE RestoreBoundsAssumption DEF IInv, TypeOK, Complete, AsTold,
     Barrier, NoJournalLeft, UnderWay, Settled, Quiet, Undoable, Undone, Installed,
     Recovering, Closing, Whole, Of, Files, Versions, None, Torn, Contents, NoCopies,
     NoJournal, NoRec, Steps, At, Goto, Answer, Installs, Installing, CallRecover,
     InRec, Return, counters, history, disk, process
<1>1. pc' = pc /\ rec'.by = rec.by /\ UNCHANGED <<disk, undone, ready, wasReady, counters, history>>
  BY Followed DEF RecBegin, RecFrame
<1>2. CASE journal.phase = "installing"
  <2>1. /\ rec'.at = "remove"
        /\ rec'.file = IF rec.by = "startup" /\ old["db"] # None THEN "db" ELSE "config"
    BY <1>2, Followed DEF RecBegin
  <2> QED BY <1>1, <1>2, <2>1 DEF RecBegin
<1>3. CASE journal.phase # "installing"
  <2>1. rec'.at = "status"
    BY <1>3, Followed DEF RecBegin
  <2> QED BY <1>1, <1>3, <2>1 DEF RecBegin
<1> QED BY <1>2, <1>3

\* What is removed is not the only copy of an original file.
LEMMA RemoveStep == ASSUME IInv, RecRemove PROVE UnderWay'
<1> USE RestoreBoundsAssumption DEF IInv, TypeOK, Complete, AsTold,
     Barrier, NoJournalLeft, UnderWay, Settled, Quiet, Undoable, Undone, Installed,
     Recovering, Closing, Whole, Of, Files, Versions, None, Torn, Contents, NoCopies,
     NoJournal, NoRec, Steps, At, Goto, Answer, Installs, Installing, CallRecover,
     InRec, Return, counters, history, disk, process
<1>1. /\ pc' = pc /\ rec.at = "remove" /\ rec'.by = rec.by /\ rec'.file = rec.file
      /\ rec'.at \in {"remove", "move"}
      /\ UNCHANGED <<stage, old, journal, undone, before, has, archive>>
  BY Followed DEF RecRemove, RecFrame
<1>2. SUFFICES ASSUME journal.phase = "installing" PROVE Undoable' /\ Recovering'
  BY <1>1 DEF RecRemove
<1>3. PICK f \in Files : f = rec.file
  OBVIOUS
<1>4. \/ /\ rec'.at = "remove" /\ live[f] # None
         /\ (old[f] # None \/ f \notin journal.had)
         /\ live' = [live EXCEPT ![f] = Torn]
      \/ /\ rec'.at = "move" /\ (old[f] # None \/ f \notin journal.had)
         /\ live' = [live EXCEPT ![f] = None]
      \/ rec'.at = "move" /\ old[f] = None /\ f \in journal.had /\ live' = live
  BY <1>3, Followed DEF RecRemove
<1>5. Undoable /\ Recovering
  BY <1>1, <1>2 DEF RecRemove
<1>6. Undoable'
  BY <1>1, <1>3, <1>4, <1>5
<1>7. Recovering'
  BY <1>1, <1>3, <1>4, <1>5
<1> QED BY <1>6, <1>7

\* The old copy takes its place: the file is undone, the others as they were.
LEMMA MoveStep == ASSUME IInv, RecMove PROVE UnderWay'
<1> USE RestoreBoundsAssumption DEF IInv, TypeOK, Complete, AsTold,
     Barrier, NoJournalLeft, UnderWay, Settled, Quiet, Undoable, Undone, Installed,
     Recovering, Closing, Whole, Of, Files, Versions, None, Torn, Contents, NoCopies,
     NoJournal, NoRec, Steps, At, Goto, Answer, Installs, Installing, CallRecover,
     InRec, Return, counters, history, disk, process
<1>1. /\ pc' = pc /\ rec.at = "move" /\ rec'.by = rec.by
      /\ UNCHANGED <<stage, journal, undone, before, has, archive>>
  BY Followed DEF RecMove, RecFrame
<1>2. SUFFICES ASSUME journal.phase = "installing" PROVE Undoable' /\ Recovering'
  BY <1>1 DEF RecMove
<1>3. PICK f \in Files : f = rec.file
  OBVIOUS
<1>4. /\ f = "db" => rec'.at = "remove" /\ rec'.file = "config"
      /\ f = "config" => rec'.at = "remove" /\ rec'.file = "art"
      /\ f = "art" => rec'.at = "phase" /\ rec'.file = "art"
  BY <1>3, Followed DEF RecMove
<1>5. Undoable /\ Recovering
  BY <1>1, <1>2 DEF RecMove
<1>6. Undone(f)' /\ \A g \in Files \ {f} : live'[g] = live[g] /\ old'[g] = old[g]
  BY <1>1, <1>3, <1>5 DEF RecMove
<1>7. Undoable'
  BY <1>1, <1>3, <1>5, <1>6
<1>8. Recovering'
  BY <1>1, <1>3, <1>4, <1>5, <1>6
<1> QED BY <1>7, <1>8

\* A saved configuration belongs to the database it is saved for.
LEMMA SaveStep ==
  ASSUME IInv, SaveConfiguration, journal.phase = "none"
  PROVE  NoJournalLeft'
<1> USE RestoreBoundsAssumption DEF IInv, TypeOK, Complete, AsTold,
     Barrier, NoJournalLeft, UnderWay, Settled, Quiet, Undoable, Undone, Installed,
     Recovering, Closing, Whole, Of, Files, Versions, None, Torn, Contents, NoCopies,
     NoJournal, NoRec, Steps, At, Goto, Answer, Installs, Installing, CallRecover,
     InRec, Return, counters, history, disk, process
<1>1. /\ journal.phase = "none" /\ pc = "idle" /\ pc' = "idle"
      /\ Whole(live["db"]) /\ live["db"] \in Versions
  BY DEF SaveConfiguration
<1>2. /\ live'["db"] = live["db"] /\ live'["art"] = live["art"]
      /\ live'["config"] = live["db"]
      /\ has'[live["db"]] = has[live["db"]] \cup {"config"}
  BY <1>1 DEF SaveConfiguration
<1>3. Whole(live["db"])'
  BY <1>1, <1>2
<1> QED BY <1>1, <1>2, <1>3

\* Every action but a save over a journal preserves the invariant.
LEMMA InvStep ==
  ASSUME IInv, [Next]_vars, ~SavesOverJournal
  PROVE  IInv'
<1> USE RestoreBoundsAssumption DEF IInv, TypeOK, Complete, AsTold,
     Barrier, NoJournalLeft, UnderWay, Settled, Quiet, Undoable, Undone, Installed,
     Recovering, Closing, Whole, Of, Files, Versions, None, Torn, Contents, NoCopies,
     NoJournal, NoRec, Steps, At, Goto, Answer, Installs, Installing, CallRecover,
     InRec, Follow, RecFrame, Return, counters, history, disk, process
<1>0. TypeOK'
  BY TypeStep
<1>1. CASE RestoreBegin
  <2>1. Complete'
    BY <1>1 DEF RestoreBegin
  <2>2. AsTold'
    BY <1>1 DEF RestoreBegin
  <2>3. Barrier'
    BY <1>1 DEF RestoreBegin
  <2>4. NoJournalLeft'
    BY <1>1 DEF RestoreBegin
  <2>5. UnderWay'
    BY <1>1 DEF RestoreBegin
  <2>6. Settled'
    BY <1>1 DEF RestoreBegin
  <2> QED BY <1>0, <2>1, <2>2, <2>3, <2>4, <2>5, <2>6
<1>2. CASE \E open \in BOOLEAN : RestoreRejected(open)
  <2>1. Complete'
    BY <1>2 DEF RestoreRejected
  <2>2. AsTold'
    BY <1>2 DEF RestoreRejected
  <2>3. Barrier'
    BY <1>2 DEF RestoreRejected
  <2>4. NoJournalLeft'
    BY <1>2 DEF RestoreRejected
  <2>5. UnderWay'
    BY <1>2 DEF RestoreRejected
  <2>6. Settled'
    BY <1>2 DEF RestoreRejected
  <2> QED BY <1>0, <2>1, <2>2, <2>3, <2>4, <2>5, <2>6
<1>3. CASE PrepareRollback
  <2>1. Complete'
    BY <1>3 DEF PrepareRollback
  <2>2. AsTold'
    BY <1>3 DEF PrepareRollback
  <2>3. Barrier'
    BY <1>3 DEF PrepareRollback
  <2>4. NoJournalLeft'
    <3>1. \A f \in Files : old'[f] = IF f = "art" THEN None ELSE live[f]
      BY <1>3 DEF PrepareRollback
    <3>2. Quiet /\ live' = live /\ pc' = "journal" /\ journal.phase = "none"
      BY <1>3 DEF PrepareRollback
    <3> QED BY <1>3, <3>1, <3>2 DEF PrepareRollback
  <2>5. UnderWay'
    BY <1>3 DEF PrepareRollback
  <2>6. Settled'
    BY <1>3 DEF PrepareRollback
  <2> QED BY <1>0, <2>1, <2>2, <2>3, <2>4, <2>5, <2>6
<1>4. CASE WriteJournal
  BY <1>0, <1>4 DEF WriteJournal
<1>5. CASE WriteJournalFails
  <2>1. Complete'
    BY <1>5 DEF WriteJournalFails
  <2>2. AsTold'
    BY <1>5 DEF WriteJournalFails
  <2>3. Barrier'
    BY <1>5 DEF WriteJournalFails
  <2>4. NoJournalLeft'
    BY <1>5 DEF WriteJournalFails
  <2>5. UnderWay'
    <3>1. Quiet /\ journal.phase = "none" /\ pc' = "idle" /\ pc = "journal"
      BY <1>5 DEF WriteJournalFails
    <3>2. CASE journal' = journal
      BY <3>1, <3>2
    <3>3. CASE journal' = Installing
      <4>1. journal'.had = has[before]
        BY <3>1, <3>3, <1>5 DEF WriteJournalFails
      <4>2. \A f \in Files : old[f] = Of(before, f) \/ Undone(f)
        BY <3>1
      <4> QED BY <3>1, <3>3, <4>1, <4>2, <1>5 DEF WriteJournalFails
    <3> QED BY <1>5, <3>2, <3>3 DEF WriteJournalFails
  <2>6. Settled'
    BY <1>5 DEF WriteJournalFails
  <2> QED BY <1>0, <2>1, <2>2, <2>3, <2>4, <2>5, <2>6
<1>6. CASE MoveArtwork
  BY <1>0, <1>6 DEF MoveArtwork
<1>7. CASE InstallConfig
  BY <1>0, <1>7 DEF InstallConfig
<1>8. CASE CopyArtwork
  BY <1>0, <1>8 DEF CopyArtwork
<1>9. CASE CopyArtworkEnds
  BY <1>0, <1>9 DEF CopyArtworkEnds
<1>10. CASE InstallDatabase
  BY <1>0, <1>10 DEF InstallDatabase
<1>11. CASE InstallFails
  BY <1>0, <1>11 DEF InstallFails
<1>12. CASE UndoDatabase
  BY <1>0, <1>12 DEF UndoDatabase
<1>13. CASE CommitJournal
  <2>1. Complete'
    BY <1>13 DEF CommitJournal
  <2>2. AsTold'
    BY <1>13 DEF CommitJournal
  <2>3. Barrier'
    BY <1>13 DEF CommitJournal
  <2>4. NoJournalLeft'
    BY <1>13 DEF CommitJournal
  <2>5. UnderWay'
    BY <1>13 DEF CommitJournal
  <2>6. Settled'
    BY <1>13 DEF CommitJournal
  <2> QED BY <1>0, <2>1, <2>2, <2>3, <2>4, <2>5, <2>6
<1>14. CASE CommitJournalFails
  <2>1. Complete'
    BY <1>14 DEF CommitJournalFails
  <2>2. AsTold'
    BY <1>14 DEF CommitJournalFails
  <2>3. Barrier'
    BY <1>14 DEF CommitJournalFails
  <2>4. NoJournalLeft'
    BY <1>14 DEF CommitJournalFails
  <2>5. UnderWay'
    BY <1>14 DEF CommitJournalFails
  <2>6. Settled'
    BY <1>14 DEF CommitJournalFails
  <2> QED BY <1>0, <2>1, <2>2, <2>3, <2>4, <2>5, <2>6
<1>15. CASE RecBegin
  <2>1. Complete'
    BY <1>15 DEF RecBegin
  <2>2. AsTold'
    BY <1>15 DEF RecBegin
  <2>3. Barrier'
    BY <1>15 DEF RecBegin
  <2>4. NoJournalLeft'
    BY <1>15 DEF RecBegin
  <2>5. UnderWay'
    BY <1>15, BeginStep
  <2>6. Settled'
    BY <1>15, BeginStep
  <2> QED BY <1>0, <2>1, <2>2, <2>3, <2>4, <2>5, <2>6
<1>16. CASE RecRemove
  <2>1. Complete'
    BY <1>16 DEF RecRemove
  <2>2. AsTold'
    BY <1>16 DEF RecRemove
  <2>3. Barrier'
    BY <1>16 DEF RecRemove
  <2>4. NoJournalLeft'
    BY <1>16 DEF RecRemove
  <2>5. UnderWay'
    BY <1>16, RemoveStep
  <2>6. Settled'
    BY <1>16 DEF RecRemove
  <2> QED BY <1>0, <2>1, <2>2, <2>3, <2>4, <2>5, <2>6
<1>17. CASE RecMove
  <2>1. Complete'
    BY <1>17 DEF RecMove
  <2>2. AsTold'
    BY <1>17 DEF RecMove
  <2>3. Barrier'
    BY <1>17 DEF RecMove
  <2>4. NoJournalLeft'
    BY <1>17 DEF RecMove
  <2>5. UnderWay'
    BY <1>17, MoveStep
  <2>6. Settled'
    BY <1>17 DEF RecMove
  <2> QED BY <1>0, <2>1, <2>2, <2>3, <2>4, <2>5, <2>6
<1>18. CASE RecPhase
  <2>1. Complete'
    BY <1>18 DEF RecPhase
  <2>2. AsTold'
    BY <1>18 DEF RecPhase
  <2>3. Barrier'
    BY <1>18 DEF RecPhase
  <2>4. NoJournalLeft'
    BY <1>18 DEF RecPhase
  <2>5. UnderWay'
    BY <1>18 DEF RecPhase
  <2>6. Settled'
    BY <1>18 DEF RecPhase
  <2> QED BY <1>0, <2>1, <2>2, <2>3, <2>4, <2>5, <2>6
<1>19. CASE RecStatus
  BY <1>0, <1>19 DEF RecStatus
<1>20. CASE RecStage
  <2>1. Complete'
    BY <1>20 DEF RecStage
  <2>2. AsTold'
    BY <1>20 DEF RecStage
  <2>3. Barrier'
    BY <1>20 DEF RecStage
  <2>4. NoJournalLeft'
    BY <1>20 DEF RecStage
  <2>5. UnderWay'
    BY <1>20 DEF RecStage
  <2>6. Settled'
    BY <1>20 DEF RecStage
  <2> QED BY <1>0, <2>1, <2>2, <2>3, <2>4, <2>5, <2>6
<1>21. CASE RecJournal
  BY <1>0, <1>21 DEF RecJournal
<1>22. CASE RecOk
  <2>1. Complete'
    BY <1>22 DEF RecOk
  <2>2. AsTold'
    BY <1>22 DEF RecOk
  <2>3. Barrier'
    BY <1>22 DEF RecOk
  <2>4. NoJournalLeft'
    BY <1>22 DEF RecOk
  <2>5. UnderWay'
    BY <1>22 DEF RecOk
  <2>6. Settled'
    BY <1>22 DEF RecOk
  <2> QED BY <1>0, <2>1, <2>2, <2>3, <2>4, <2>5, <2>6
<1>23. CASE RecFilesOk
  <2>1. Complete'
    BY <1>23 DEF RecFilesOk
  <2>2. AsTold'
    BY <1>23 DEF RecFilesOk
  <2>3. Barrier'
    BY <1>23 DEF RecFilesOk
  <2>4. NoJournalLeft'
    BY <1>23 DEF RecFilesOk
  <2>5. UnderWay'
    BY <1>23 DEF RecFilesOk
  <2>6. Settled'
    BY <1>23 DEF RecFilesOk
  <2> QED BY <1>0, <2>1, <2>2, <2>3, <2>4, <2>5, <2>6
<1>24. CASE RecFails
  <2>1. Complete'
    BY <1>24 DEF RecFails
  <2>2. AsTold'
    BY <1>24 DEF RecFails
  <2>3. Barrier'
    BY <1>24 DEF RecFails
  <2>4. NoJournalLeft'
    BY <1>24 DEF RecFails
  <2>5. UnderWay'
    BY <1>24 DEF RecFails
  <2>6. Settled'
    BY <1>24 DEF RecFails
  <2> QED BY <1>0, <2>1, <2>2, <2>3, <2>4, <2>5, <2>6
<1>25. CASE RecPhaseFails
  BY <1>0, <1>25 DEF RecPhaseFails
<1>26. CASE SaveConfiguration
  <2>0. journal.phase = "none" /\ journal'.phase = "none"
    BY <1>26 DEF SaveConfiguration, SavesOverJournal
  <2>1. Complete'
    BY <1>26, <2>0 DEF SaveConfiguration
  <2>2. AsTold'
    BY <1>26, <2>0 DEF SaveConfiguration
  <2>3. Barrier'
    BY <1>26, <2>0 DEF SaveConfiguration
  <2>4. NoJournalLeft'
    BY <1>26, <2>0, SaveStep
  <2>5. UnderWay'
    BY <1>26, <2>0 DEF SaveConfiguration
  <2>6. Settled'
    BY <1>26, <2>0 DEF SaveConfiguration
  <2> QED BY <1>0, <2>1, <2>2, <2>3, <2>4, <2>5, <2>6
<1>27. CASE Stop
  <2>1. Complete'
    BY <1>27 DEF Stop
  <2>2. AsTold'
    BY <1>27 DEF Stop
  <2>3. Barrier'
    BY <1>27 DEF Stop
  <2>4. NoJournalLeft'
    BY <1>27 DEF Stop
  <2>5. UnderWay'
    BY <1>27 DEF Stop
  <2>6. Settled'
    BY <1>27 DEF Stop
  <2> QED BY <1>0, <2>1, <2>2, <2>3, <2>4, <2>5, <2>6
<1>28. CASE Start
  BY <1>0, <1>28 DEF Start
<1>29. CASE UNCHANGED vars
  BY <1>29 DEF vars
<1> QED
  BY <1>1, <1>2, <1>3, <1>4, <1>5, <1>6, <1>7, <1>8, <1>9, <1>10, <1>11, <1>12,
     <1>13, <1>14, <1>15, <1>16, <1>17, <1>18, <1>19, <1>20, <1>21, <1>22, <1>23,
     <1>24, <1>25, <1>26, <1>27, <1>28, <1>29
     DEF Next, Restore, Recover

\* The invariants look at nothing but the variables.
LEMMA UnchangedInv ==
  UNCHANGED vars => (IInv => IInv') /\ (Abandoned => Abandoned')
  BY DEF vars, disk, process, counters, history, IInv, Abandoned, TypeOK, Complete, AsTold,
     Barrier, NoJournalLeft, UnderWay, Settled, Quiet, Undoable, Undone, Installed,
     Recovering, Closing, Whole, Of

\* After a save over a journal that no startup looks at, nothing moves but the
\* process and the configuration.
LEMMA AbandonedStep ==
  ASSUME IInv \/ Abandoned, [Next]_vars, RecoveredUnsaved
  PROVE  IInv' \/ Abandoned'
<1>1. CASE IInv /\ ~SavesOverJournal
  BY <1>1, InvStep
<1>2. CASE IInv /\ SavesOverJournal
  <2>1. TypeOK'
    BY <1>2, TypeStep
  <2>2. told \in {"none", "incomplete"} /\ journal.phase # "none" /\ ~RecoverAtStartup
    BY <1>2 DEF IInv, Barrier, SavesOverJournal, RecoveredUnsaved
  <2>3. journal' = journal /\ told' = told /\ pc' = "idle"
    BY <1>2 DEF SavesOverJournal, SaveConfiguration, Answer, history
  <2>. QED BY <2>1, <2>2, <2>3 DEF Abandoned
<1>3. CASE Abandoned
  <2>1. SaveConfiguration \/ Stop \/ Start \/ UNCHANGED vars
    BY <1>3 DEF Abandoned, Next, Restore, Recover, RestoreBegin, RestoreRejected,
         PrepareRollback, WriteJournal, WriteJournalFails, MoveArtwork, InstallConfig,
         CopyArtwork, CopyArtworkEnds, InstallDatabase, InstallFails, UndoDatabase,
         CommitJournal, CommitJournalFails, RecBegin, RecRemove, RecMove, RecPhase,
         RecStatus, RecStage, RecJournal, RecOk, RecFilesOk, RecFails, RecPhaseFails,
         At, Installs, InRec
  <2>2. journal' = journal /\ told' = told /\ pc' \in {"idle", "off"}
    BY <1>3, <2>1 DEF Abandoned, SaveConfiguration, Stop, Start, Answer, disk, history, vars,
         process
  <2>3. TypeOK'
    <3>1. CASE SaveConfiguration
      <4>1. /\ has' \in [Versions -> SUBSET Files] /\ live' \in [Files -> Contents]
            /\ ready' \in BOOLEAN /\ pc' \in Steps
        BY <1>3, <3>1 DEF Abandoned, TypeOK, SaveConfiguration, Answer, Files, Steps
      <4>. QED BY <1>3, <3>1, <4>1 DEF Abandoned, TypeOK, SaveConfiguration, Answer, history
    <3>2. CASE Stop
      BY <1>3, <3>2 DEF Abandoned, TypeOK, Stop, disk, history, counters, Files, Steps, NoRec
    <3>3. CASE Start
      <4>1. starts' \in 0..MaxStarts /\ pc' \in Steps /\ ready' \in BOOLEAN /\ rec' = rec
        BY <1>3, <3>3, RestoreBoundsAssumption DEF Abandoned, TypeOK, Start, Steps
      <4>. QED BY <1>3, <3>3, <4>1 DEF Abandoned, TypeOK, Start, disk, history
    <3>4. CASE UNCHANGED vars
      BY <1>3, <3>4 DEF Abandoned, TypeOK, vars, disk, process, counters, history
    <3>. QED BY <2>1, <3>1, <3>2, <3>3, <3>4
  <2>. QED BY <1>3, <2>2, <2>3 DEF Abandoned
<1>. QED BY <1>1, <1>2, <1>3

\* Only a save or a start over a journal opens the barrier in front of one.
LEMMA ClosedStep ==
  ASSUME IInv, Closed, [Next]_vars, ~SavesOverJournal, ~StartsOverJournal
  PROVE  Closed'
<1> USE DEF IInv, TypeOK, Closed, Barrier, SavesOverJournal, StartsOverJournal, At, Goto,
     Answer, Installs, Installing, NoJournal, CallRecover, InRec, Follow, RecFrame, Return,
     counters, history, disk, process
<1>1. CASE Restore
  <2>1. pc \in {"prepare", "journal"} => journal.phase = "none"
    BY DEF UnderWay, Settled, Closing
  <2>2. CASE RestoreBegin
    BY <2>2 DEF RestoreBegin
  <2>3. CASE \E open \in BOOLEAN : RestoreRejected(open)
    BY <2>1, <2>3 DEF RestoreRejected
  <2>4. CASE PrepareRollback \/ WriteJournal \/ WriteJournalFails
    BY <2>4 DEF PrepareRollback, WriteJournal, WriteJournalFails
  <2>5. CASE MoveArtwork \/ InstallConfig \/ CopyArtwork \/ CopyArtworkEnds
    BY <2>5 DEF MoveArtwork, InstallConfig, CopyArtwork, CopyArtworkEnds
  <2>6. CASE InstallDatabase \/ InstallFails \/ UndoDatabase
    BY <2>6 DEF InstallDatabase, InstallFails, UndoDatabase
  <2>7. CASE CommitJournal \/ CommitJournalFails
    BY <2>7 DEF CommitJournal, CommitJournalFails
  <2>. QED BY <1>1, <2>2, <2>3, <2>4, <2>5, <2>6, <2>7 DEF Restore
<1>2. CASE Recover
  BY <1>2 DEF Recover, RecBegin, RecRemove, RecMove, RecPhase, RecStatus, RecStage,
     RecJournal, RecOk, RecFilesOk, RecFails, RecPhaseFails
<1>3. CASE SaveConfiguration \/ Stop \/ Start
  BY <1>3 DEF SaveConfiguration, Stop, Start
<1>4. CASE UNCHANGED vars
  BY <1>4 DEF vars
<1>. QED BY <1>1, <1>2, <1>3, <1>4 DEF Next

-----------------------------------------------------------------------------
\* The protocol keeps its invariant whatever fails, wherever the process dies
\* and whether or not the next start recovers, until somebody saves a
\* configuration over a journal.
THEOREM RestoreInvariant ==
  Spec /\ [][NobodySavesOverJournal]_vars => []IInv
<1>1. Init => IInv
  BY InitInv
<1>2. IInv /\ [Next]_vars /\ [NobodySavesOverJournal]_vars => IInv'
  <2>1. CASE UNCHANGED vars
    BY <2>1, UnchangedInv
  <2>2. CASE NobodySavesOverJournal
    BY <2>2, InvStep DEF NobodySavesOverJournal
  <2>. QED BY <2>1, <2>2
<1>. QED BY <1>1, <1>2, PTL DEF Spec

\* With the startup of main.rs no hypothesis is left: a save over a journal
\* abandons the restore, and so it stays.
THEOREM RestoreAsBuilt ==
  Spec /\ [][RecoveredUnsaved]_vars => [](IInv \/ Abandoned)
<1>1. Init => IInv \/ Abandoned
  BY InitInv
<1>2. (IInv \/ Abandoned) /\ [Next]_vars /\ [RecoveredUnsaved]_vars
        => (IInv \/ Abandoned)'
  <2>1. CASE UNCHANGED vars
    BY <2>1, UnchangedInv
  <2>2. CASE RecoveredUnsaved
    BY <2>2, AbandonedStep
  <2>. QED BY <2>1, <2>2
<1>. QED BY <1>1, <1>2, PTL DEF Spec

\* Every reachable state is well typed: with main.rs whatever happens, with
\* the documented startup if nobody saves a configuration over a journal.
THEOREM RestoreTypes ==
  Spec /\ [][RecoveredUnsaved]_vars => []TypeOK
<1>1. IInv \/ Abandoned => TypeOK
  BY DEF IInv, Abandoned
<1>. QED BY <1>1, RestoreAsBuilt, PTL

\* What the administrator was told stays true: with main.rs whatever fails,
\* is saved or is started again.
THEOREM AsToldHolds ==
  Spec /\ [][RecoveredUnsaved]_vars => []AsTold
<1>1. IInv \/ Abandoned => AsTold
  BY DEF IInv, Abandoned, AsTold
<1>. QED BY <1>1, RestoreAsBuilt, PTL

\* The same for the startup of main.rs, which does not recover: a mixed set is
\* served over a journal only, never after a restore that ended, and never
\* after an undoing that is recorded as complete.
MixedOnlyOverJournal == journal.phase = "none" => ServesWholeSet

\* Without a journal the files that are served are those of one version: with
\* main.rs whatever happens.
THEOREM MarkedWhenMixed ==
  Spec /\ [][RecoveredUnsaved]_vars => []MixedOnlyOverJournal
<1>1. IInv \/ Abandoned => MixedOnlyOverJournal
  BY DEF IInv, Abandoned, NoJournalLeft, Quiet, ServesWholeSet, MixedOnlyOverJournal
<1>. QED BY <1>1, RestoreAsBuilt, PTL

\* No mixed set of files is served at all (docs/setup-recovery.md) if nobody
\* saves a configuration or starts the process over a journal.  The documented
\* startup never starts over one; main.rs does, and then the set is mixed.
THEOREM ServesWholeSetHolds ==
  Spec /\ [][NobodySavesOverJournal]_vars /\ [][NobodyStartsOverJournal]_vars
    => []ServesWholeSet
<1>1. Init => Closed
  BY DEF Init, Closed, NoJournal
<1>2. IInv /\ Closed /\ [Next]_vars /\ [NobodySavesOverJournal]_vars
        /\ [NobodyStartsOverJournal]_vars => Closed'
  <2>1. CASE UNCHANGED vars
    BY <2>1 DEF Closed, vars, disk, process
  <2>2. CASE NobodySavesOverJournal /\ NobodyStartsOverJournal
    BY <2>2, ClosedStep DEF NobodySavesOverJournal, NobodyStartsOverJournal
  <2>. QED BY <2>1, <2>2
<1>3. IInv /\ Closed => ServesWholeSet
  BY DEF IInv, Closed, NoJournalLeft, Quiet, ServesWholeSet
<1>. QED BY <1>1, <1>2, <1>3, RestoreInvariant, PTL DEF Spec

\* The "both missing" errors of recover_inner are unreachable: whenever a
\* restore or a recovery is under way, its undoing is possible.
THEOREM RollbackPossibleHolds ==
  Spec /\ [][RecoveredUnsaved]_vars
    => [](pc \notin {"idle", "off"} => RollbackPossible)
<1>1. IInv => RollbackPossible
  BY DEF IInv, TypeOK, UnderWay, Undoable, Undone, RollbackPossible, Files
<1>2. IInv \/ Abandoned => (pc \notin {"idle", "off"} => RollbackPossible)
  BY <1>1 DEF Abandoned
<1>. QED BY <1>2, RestoreAsBuilt, PTL

\* And it stays so after a crash or a failure, until somebody saves a
\* configuration over the journal.
THEOREM RollbackStaysPossible ==
  Spec /\ [][NobodySavesOverJournal]_vars => []RollbackPossible
<1>1. IInv => RollbackPossible
  BY DEF IInv, TypeOK, UnderWay, Undoable, Undone, RollbackPossible, Files
<1>. QED BY <1>1, RestoreInvariant, PTL
=============================================================================
