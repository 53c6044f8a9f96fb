-------------------------- MODULE PortableReplacement --------------------------
(***************************************************************************)
(* How a portable backup replaces an existing file                         *)
(* (src/main/backup/portable-backup.ts): the copy to roll back to, the     *)
(* journal, the installation, the cleanup, and what recovers a replacement *)
(* that a failure or the end of the process interrupted.  Every change of  *)
(* the file system is a step; each may be refused, and the process may end *)
(* between any two.                                                        *)
(***************************************************************************)
EXTENDS Naturals, FiniteSets

CONSTANTS
  Export,        \* calls of encryptPortableBackup
  Destination,   \* paths the user exports to
  NoFile,        \* no file at a path
  NoExport,      \* no export
  MaxRefusals,   \* bound: calls the file system refuses
  MaxEnds        \* bound: ends of the process while an operation is under way

ASSUME ReplacementConstants ==
  /\ NoFile \notin Export \cup {"backup", "foreign"} /\ NoExport \notin Export \cup {"start"}
  /\ "start" \notin Export /\ {"backup", "foreign"} \cap Export = {}
  /\ {MaxRefusals, MaxEnds} \subseteq Nat

(* A file holds what an export has written, an older backup, or something  *)
(* that is no backup, which the user has chosen to overwrite.              *)
Content == Export \cup {"backup", "foreign", NoFile}

VARIABLES
  onWindows,  \* process.platform === 'win32'
  target,     \* destinationPath of each export
  file,       \* what is at each destination
  temporary,  \* the exports whose temporary file exists
  rollback,   \* what the rollback file of each export holds
  journals,   \* the exports whose journal is in the recovery directory
  launched,   \* whether the program runs
  progress,      \* how far each export is
  flight,     \* replacementFlights: who runs under the lock of the directory
  unvisited,  \* journals the scan has not come to
  job,        \* the replacement that is being cleaned up or rolled back
  jobStep,    \* the next call of that
  unresolved, \* failures: journals the scan could not recover
  refusals,   \* calls the file system has refused
  ends,       \* ends of the process with an operation under way
  reported,   \* history: what was last reported as written to a destination
  blind       \* history: a journal or a reported backup could not be read when it mattered

disk    == <<file, temporary, rollback, journals>>
work    == <<flight, unvisited, job, jobStep, unresolved>>
replacementVars == <<onWindows, target, file, temporary, rollback, journals, launched, progress,
                     flight, unvisited, job, jobStep, unresolved, refusals, ends, reported, blind>>

Progress == {"new", "queued", "scan", "place", "copy", "journal", "install", "clear", "retry", "verify",
          "cleanup", "undo", "failed", "over", "written", "dead"}

ReplacementTypeOK ==
  /\ onWindows \in BOOLEAN /\ launched \in BOOLEAN /\ blind \in BOOLEAN
  /\ target \in [Export -> Destination]
  /\ file \in [Destination -> Content] /\ reported \in [Destination -> Content]
  /\ rollback \in [Export -> Content]
  /\ progress \in [Export -> Progress]
  /\ temporary \subseteq Export /\ journals \subseteq Export
  /\ unvisited \subseteq Export /\ unresolved \subseteq Export
  /\ flight \in Export \cup {"start", NoExport} /\ job \in Export \cup {NoExport}
  /\ jobStep \in {"rmTemporary", "rmRollback", "rmJournal", "rmDestination", "restore"}
  /\ refusals \in 0..MaxRefusals /\ ends \in 0..MaxEnds

ReplacementInit ==
  /\ onWindows \in BOOLEAN
  /\ target \in [Export -> Destination]
  /\ file \in [Destination -> {"backup", "foreign", NoFile}]
  /\ temporary = {} /\ journals = {} /\ rollback = [e \in Export |-> NoFile]
  /\ launched = TRUE /\ progress = [e \in Export |-> "new"]
  /\ flight = NoExport /\ unvisited = {} /\ job = NoExport /\ jobStep = "rmJournal" /\ unresolved = {}
  /\ refusals = 0 /\ ends = 0
  /\ reported = file /\ blind = FALSE

Moves(e, s) == progress' = [progress EXCEPT ![e] = s]

CallRefused == refusals < MaxRefusals /\ refusals' = refusals + 1

------------------------------------------------------------------------------
(* The encrypted file is complete beside its destination; the replacement  *)
(* waits for the lock of the recovery directory.                           *)
Encrypts(e) ==
  /\ launched /\ progress[e] = "new"
  /\ Moves(e, "queued") /\ temporary' = temporary \cup {e}
  /\ UNCHANGED <<onWindows, target, file, rollback, journals, launched, work, refusals, ends, reported, blind>>

(* withReplacementLock: the operation begins with a scan of the journals.  *)
(* Encryptions end at any time, so that the order of waiting is any.       *)
TakesLock(e) ==
  /\ launched /\ progress[e] = "queued" /\ flight = NoExport
  /\ Moves(e, "scan") /\ flight' = e /\ unvisited' = journals /\ unresolved' = {}
  /\ UNCHANGED <<onWindows, target, disk, launched, job, jobStep, refusals, ends, reported, blind>>

SettledByTemporary(e) == file[target[e]] # NoFile /\ e \in temporary

(* recoverReplacement: a temporary file says that nothing was installed,   *)
(* so whatever is at the destination stays; without it a backup at the     *)
(* destination is the one that was installed.                              *)
Settled(e) ==
  LET d == target[e]
  IN  file[d] # NoFile /\ (e \in temporary \/ file[d] # "foreign")

Recovers(e) ==
  /\ Settled(e) \/ rollback[e] # NoFile
  /\ job' = e
  /\ jobStep' = IF Settled(e) THEN "rmTemporary"
                ELSE IF file[target[e]] # NoFile THEN "rmDestination" ELSE "restore"

CannotRecover(e) == ~Settled(e) /\ rollback[e] = NoFile

Scanning == job = NoExport /\ flight \in {"start"} \cup {e \in Export : progress[e] = "scan"}

(* The scan reads the next journal.                                        *)
Visits(e) ==
  /\ Scanning /\ e \in unvisited
  /\ unvisited' = unvisited \ {e}
  /\ \/ Recovers(e) /\ UNCHANGED unresolved
     \/ CannotRecover(e) /\ unresolved' = unresolved \cup {e} /\ UNCHANGED <<job, jobStep>>
  /\ UNCHANGED <<onWindows, target, disk, launched, progress, flight, refusals, ends, reported, blind>>

(* A journal that cannot be read is unresolved.                            *)
VisitRefused(e) ==
  /\ Scanning /\ e \in unvisited /\ CallRefused
  /\ unvisited' = unvisited \ {e} /\ unresolved' = unresolved \cup {e}
  /\ UNCHANGED <<onWindows, target, disk, launched, progress, flight, job, jobStep, ends, reported, blind>>

(* isPortableBackup is false for a backup that cannot be read now: it is   *)
(* taken for a torn one and replaced by the copy.                          *)
VisitMisled(e) ==
  /\ Scanning /\ e \in unvisited \ temporary /\ CallRefused
  /\ file[target[e]] \notin {NoFile, "foreign"} /\ rollback[e] # NoFile
  /\ unvisited' = unvisited \ {e} /\ job' = e /\ jobStep' = "rmDestination"
  /\ blind' = (blind \/ file[target[e]] = reported[target[e]])
  /\ UNCHANGED <<onWindows, target, disk, launched, progress, flight, unresolved, ends, reported>>

InTheWay(unread) == \E f \in unread : flight \in Export /\ target[f] = target[flight]

(* A directory that cannot be read shows no journal.                       *)
ScanRefused ==
  /\ Scanning /\ unvisited = journals /\ unresolved = {} /\ journals # {} /\ CallRefused
  /\ unvisited' = {} /\ blind' = (blind \/ InTheWay(journals))
  /\ UNCHANGED <<onWindows, target, disk, launched, progress, flight, job, jobStep, unresolved, ends, reported>>

(* original: what is at the destination decides how the export goes on.    *)
GoesOn ==
  /\ Moves(flight, IF file[target[flight]] = NoFile THEN "place" ELSE "copy")
  /\ UNCHANGED flight

ScanEndsUnchecked ==
  /\ Scanning /\ unvisited = {}
  /\ \/ flight = "start" /\ flight' = NoExport /\ UNCHANGED progress
     \/ flight \in Export /\ GoesOn
  /\ UNCHANGED <<onWindows, target, disk, launched, unvisited, job, jobStep, unresolved, refusals,
                 ends, reported, blind>>

(* The end of the scan: of the start; of an export whose destination still *)
(* requires recovery; of one that goes on, maybe because the journal in    *)
(* its way could not be read once more.                                    *)
ScanEnds ==
  /\ Scanning /\ unvisited = {}
  /\ \/ /\ flight = "start"
        /\ flight' = NoExport /\ UNCHANGED <<progress, refusals, blind>>
     \/ /\ InTheWay(unresolved)
        /\ Moves(flight, "failed") /\ flight' = NoExport /\ UNCHANGED <<refusals, blind>>
     \/ /\ flight \in Export /\ ~InTheWay(unresolved)
        /\ GoesOn /\ UNCHANGED <<refusals, blind>>
     \/ /\ InTheWay(unresolved) /\ CallRefused
        /\ GoesOn /\ blind' = TRUE
  /\ UNCHANGED <<onWindows, target, disk, launched, unvisited, job, jobStep, unresolved, ends, reported>>

------------------------------------------------------------------------------
InFlight(e, s) == flight = e /\ job = NoExport /\ progress[e] = s

ToDestination(e, content) == file' = [file EXCEPT ![target[e]] = content]

Reports(e) == reported' = [reported EXCEPT ![target[e]] = e]

(* Nothing is there to be replaced: rename(temporaryPath, destination).    *)
Places(e) ==
  /\ InFlight(e, "place")
  /\ \/ /\ ToDestination(e, e) /\ temporary' = temporary \ {e}
        /\ Moves(e, "written") /\ Reports(e) /\ UNCHANGED refusals
     \/ /\ CallRefused /\ Moves(e, "failed") /\ UNCHANGED <<file, temporary, reported>>
  /\ flight' = NoExport
  /\ UNCHANGED <<onWindows, target, rollback, journals, launched, unvisited, job, jobStep, unresolved,
                 ends, blind>>

(* copyFile, and writeReplacementJournal, which shows a whole journal or   *)
(* none.  When one fails the copy is removed; nothing reads a copy without *)
(* a journal, so whether that succeeds makes no difference.                *)
Prepares(e) ==
  /\ \/ /\ InFlight(e, "copy")
        /\ rollback' = [rollback EXCEPT ![e] = file[target[e]]]
        /\ Moves(e, "journal") /\ UNCHANGED <<journals, flight, refusals>>
     \/ /\ InFlight(e, "journal")
        /\ journals' = journals \cup {e}
        /\ Moves(e, "install") /\ UNCHANGED <<rollback, flight, refusals>>
     \/ /\ InFlight(e, "copy") \/ InFlight(e, "journal")
        /\ CallRefused /\ rollback' = [rollback EXCEPT ![e] = NoFile]
        /\ Moves(e, "failed") /\ flight' = NoExport /\ UNCHANGED journals
  /\ UNCHANGED <<onWindows, target, file, temporary, launched, unvisited, job, jobStep, unresolved,
                 ends, reported, blind>>

(* An error after the journal rolls the replacement back.                  *)
Undoes(e) ==
  \/ Recovers(e) /\ Moves(e, "undo") /\ UNCHANGED flight
  \/ CannotRecover(e) /\ Moves(e, "failed") /\ flight' = NoExport /\ UNCHANGED <<job, jobStep>>

(* The rename over the destination, and what Windows does when it refuses  *)
(* to replace a file: remove the destination, and rename once more.        *)
Installs(e) ==
  /\ \/ /\ InFlight(e, "install") \/ InFlight(e, "retry")
        /\ ToDestination(e, e) /\ temporary' = temporary \ {e}
        /\ Moves(e, "verify") /\ UNCHANGED <<flight, job, jobStep, refusals>>
     \/ /\ InFlight(e, "install") /\ onWindows /\ CallRefused
        /\ Moves(e, "clear") /\ UNCHANGED <<file, temporary, flight, job, jobStep>>
     \/ /\ InFlight(e, "clear")
        /\ ToDestination(e, NoFile)
        /\ Moves(e, "retry") /\ UNCHANGED <<temporary, flight, job, jobStep, refusals>>
     \/ /\ InFlight(e, "install") \/ InFlight(e, "clear") \/ InFlight(e, "retry")
        /\ CallRefused /\ Undoes(e) /\ UNCHANGED <<file, temporary>>
  /\ UNCHANGED <<onWindows, target, rollback, journals, launched, unvisited, unresolved, ends,
                 reported, blind>>

(* inspectPortableBackup(destination): from here on the backup counts as   *)
(* written, whatever becomes of the cleanup.  What cannot be read here may *)
(* or may not be readable when the replacement is undone.                  *)
Verifies(e) ==
  /\ InFlight(e, "verify")
  /\ \/ /\ Moves(e, "cleanup") /\ Reports(e)
        /\ job' = e /\ jobStep' = "rmTemporary" /\ UNCHANGED <<flight, refusals>>
     \/ /\ CallRefused /\ Undoes(e) /\ UNCHANGED reported
     \/ /\ refusals + 2 <= MaxRefusals /\ refusals' = refusals + 2
        /\ Moves(e, "undo") /\ job' = e /\ jobStep' = "rmDestination" /\ UNCHANGED <<flight, reported>>
  /\ UNCHANGED <<onWindows, target, disk, launched, unvisited, unresolved, ends, blind>>

------------------------------------------------------------------------------
(* cleanupReplacement, and the calls that put the original back.  Removing *)
(* what is gone succeeds.                                                  *)
NextJobStep ==
  CASE jobStep = "rmDestination" -> "restore"
    [] jobStep = "restore"       -> "rmTemporary"
    [] jobStep = "rmTemporary"   -> IF rollback[job] = NoFile THEN "rmJournal" ELSE "rmRollback"
    [] OTHER                     -> "rmJournal"

JobStepEffect(s) ==
  /\ CASE s = "rmDestination" -> ToDestination(job, NoFile)
       [] s = "restore"       -> ToDestination(job, rollback[job])
       [] OTHER               -> UNCHANGED file
  /\ rollback'  = IF s \in {"restore", "rmRollback"} THEN [rollback EXCEPT ![job] = NoFile] ELSE rollback
  /\ temporary' = IF s = "rmTemporary" THEN temporary \ {job} ELSE temporary
  /\ journals'  = IF s = "rmJournal" THEN journals \ {job} ELSE journals

(* A step of the job; its last one, or a refused one, ends it: the scan    *)
(* goes on, a cleaned up export returns, one that was undone throws.       *)
JobProceeds ==
  /\ job # NoExport /\ jobStep # "rmJournal"
  /\ JobStepEffect(jobStep) /\ jobStep' = NextJobStep
  /\ UNCHANGED <<onWindows, target, launched, progress, flight, unvisited, job, unresolved, refusals,
                 ends, reported, blind>>

JobEnds(refused) ==
  /\ job' = NoExport /\ UNCHANGED jobStep
  /\ unresolved' = IF refused THEN unresolved \cup {job} ELSE unresolved
  /\ IF flight = "start" \/ progress[flight] = "scan"
     THEN UNCHANGED <<progress, flight>>
     ELSE /\ Moves(flight, IF progress[flight] = "cleanup" THEN "written" ELSE "failed")
          /\ flight' = NoExport

JobFinishes ==
  /\ job # NoExport /\ jobStep = "rmJournal"
  /\ JobStepEffect(jobStep) /\ JobEnds(FALSE)
  /\ UNCHANGED <<onWindows, target, launched, unvisited, refusals, ends, reported, blind>>

JobRefused ==
  /\ job # NoExport /\ CallRefused
  /\ jobStep = "rmTemporary" => job \in temporary
  /\ JobEnds(TRUE)
  /\ UNCHANGED <<onWindows, target, disk, launched, unvisited, ends, reported, blind>>

(* encryptPortableBackup removes its temporary file, or tries to.          *)
Discards(e) ==
  /\ launched /\ progress[e] = "failed"
  /\ Moves(e, "over")
  /\ \/ temporary' = temporary \ {e} /\ UNCHANGED refusals
     \/ CallRefused /\ UNCHANGED temporary
  /\ UNCHANGED <<onWindows, target, file, rollback, journals, launched, work, ends, reported, blind>>

------------------------------------------------------------------------------
Idle == flight = NoExport /\ \A e \in Export : progress[e] \notin {"queued", "failed"}

(* The program ends, between two operations or in the middle of one.       *)
ProgramEnds ==
  /\ launched /\ launched' = FALSE
  /\ IF Idle THEN UNCHANGED ends ELSE ends < MaxEnds /\ ends' = ends + 1
  /\ progress' = [e \in Export |-> IF progress[e] \in {"new", "over", "written"} THEN progress[e]
                                ELSE IF progress[e] = "cleanup" THEN "written" ELSE "dead"]
  /\ flight' = NoExport /\ unvisited' = {} /\ job' = NoExport /\ unresolved' = {} /\ UNCHANGED jobStep
  /\ UNCHANGED <<onWindows, target, disk, refusals, reported, blind>>

(* DatabaseBackupService.initialize recovers what the last run left.       *)
ProgramStarts ==
  /\ ~launched /\ launched' = TRUE
  /\ flight' = "start" /\ unvisited' = journals
  /\ UNCHANGED <<onWindows, target, disk, progress, job, jobStep, unresolved, refusals, ends, reported, blind>>

UnderLock ==
  \/ \E e \in Export :
       \/ Visits(e) \/ VisitRefused(e) \/ VisitMisled(e) \/ Places(e) \/ Prepares(e) \/ Installs(e) \/ Verifies(e)
  \/ ScanRefused \/ ScanEnds \/ JobProceeds \/ JobFinishes \/ JobRefused

ReplacementNext ==
  \/ UnderLock \/ ProgramEnds \/ ProgramStarts
  \/ \E e \in Export : Encrypts(e) \/ TakesLock(e) \/ Discards(e)

ReplacementSpec == ReplacementInit /\ [][ReplacementNext]_replacementVars

(* File system calls return; the user ends the program some day and starts *)
(* it again.                                                               *)
ReplacementFairness ==
  /\ WF_replacementVars(UnderLock)
  /\ WF_replacementVars(launched /\ Idle /\ ProgramEnds)
  /\ WF_replacementVars(ProgramStarts)
  /\ \A e \in Export : WF_replacementVars(TakesLock(e)) /\ WF_replacementVars(Discards(e))

FairReplacementSpec == ReplacementSpec /\ ReplacementFairness

------------------------------------------------------------------------------
Unreported(d) == {e \in Export : target[e] = d /\ progress[e] \notin {"cleanup", "written"}}

(* However often the process ends and whatever the file system refuses,    *)
(* what was last reported as written to a destination, or an export that   *)
(* has not been reported yet, is there as a whole, or its journal names    *)
(* the copy to put back: withReplacementLock, the order of atomicReplace   *)
(* and the choice of recoverReplacement.  Excepted is what follows when an *)
(* export goes past a journal of its destination that it cannot read, or   *)
(* when a recovery takes a reported backup that it cannot read for a torn  *)
(* one.                                                                    *)
BackupKept ==
  \A d \in Destination : reported[d] # NoFile /\ ~blind =>
    LET Current == {reported[d]} \cup Unreported(d)
    IN  \/ file[d] \in Current
        \/ /\ file[d] = NoFile
           /\ \E e \in journals : target[e] = d /\ rollback[e] \in Current

Open == {e \in journals : file[target[e]] # "foreign"}

(* Every journal is resolved by some start: no sequence of failures leaves *)
(* one that recoverReplacement rejects for ever, which would also block    *)
(* the destination for later exports.  A destination that held no backup   *)
(* is excepted, because without its copy it is not told from a torn one.   *)
JournalsEnd == (Open # {}) ~> (Open = {})
=============================================================================
