---------------------- MODULE PortableReplacementProofs ----------------------
(***************************************************************************)
(* That replacing a portable backup loses none, for any number of exports, *)
(* paths, refused calls and ends of the process.  The argument: while      *)
(* nothing was misread, a path has one journal at most; as long as it has  *)
(* one, either the file or the copy is current; and when it has none, the  *)
(* file is.                                                                *)
(***************************************************************************)
EXTENDS PortableReplacement, TLAPS

Underway == {"scan", "place", "copy", "journal", "install", "clear", "retry", "verify",
             "cleanup", "undo"}

Counted(e) == progress[e] \in {"cleanup", "written"}

(* A content that a path may hold without a loss.                          *)
IsCurrent(c, d) == \/ c = reported[d]
                   \/ c \in Export /\ target[c] = d /\ ~Counted(c)

(* Who runs under the lock, and for which journal.                         *)
FlightInv ==
  /\ flight # NoExport => launched
  /\ unvisited \subseteq journals /\ job \notin unvisited
  /\ flight \in Export /\ progress[flight] # "scan" => unvisited = {}
  /\ \A e \in Export : progress[e] \in Underway <=> flight = e
  /\ \A e \in Export : progress[e] \in {"cleanup", "undo"} => job = e
  /\ job # NoExport => /\ job \in journals /\ flight # NoExport
                       /\ flight \in Export => progress[flight] \in {"scan", "cleanup", "undo"}

(* What the files of an export are at each of its stages.                  *)
StageInv ==
  \A e \in Export :
    /\ progress[e] \in {"new", "queued", "scan", "place", "copy", "journal"} => e \notin journals
    /\ progress[e] \in {"install", "clear", "retry", "verify"} => e \in journals
    /\ progress[e] = "copy" => file[target[e]] # NoFile
    /\ progress[e] \in {"journal", "install", "clear", "retry", "verify"} => rollback[e] # NoFile
    /\ progress[e] = "verify" => file[target[e]] = e

(* A roll-back has a copy, and a cleanup a destination.                    *)
JobInv ==
  job # NoExport =>
    /\ jobStep \in {"rmDestination", "restore"} => rollback[job] # NoFile
    /\ jobStep \in {"rmTemporary", "rmRollback", "rmJournal"} => file[target[job]] # NoFile

(* One journal for each path.                                              *)
WayInv ==
  ~blind =>
    /\ \A e, f \in journals : target[e] = target[f] => e = f
    /\ \A e \in Export : progress[e] \in {"place", "copy", "journal"} =>
         \A f \in journals : target[f] # target[e]
    /\ \A e \in Export : progress[e] = "scan" =>
         \A f \in journals : target[f] = target[e] => f \in unvisited \cup unresolved \cup {job}

(* What a path and the copy of its journal hold.                           *)
CountedInv ==
  ~blind =>
    \A e \in journals : Counted(e) =>
      /\ file[target[e]] = e /\ reported[target[e]] = e
      /\ job = e => jobStep \notin {"rmDestination", "restore"}

CopyInv ==
  ~blind =>
    /\ \A e \in journals : ~Counted(e) /\ reported[target[e]] # NoFile =>
         /\ IsCurrent(file[target[e]], target[e]) \/ file[target[e]] = NoFile
         /\ rollback[e] # NoFile => IsCurrent(rollback[e], target[e])
         /\ rollback[e] = NoFile => file[target[e]] # NoFile
    /\ \A e \in Export : progress[e] = "journal" /\ reported[target[e]] # NoFile =>
         IsCurrent(rollback[e], target[e])

PathInv ==
  ~blind =>
    \A d \in Destination :
      (reported[d] # NoFile /\ \A e \in journals : target[e] # d) => IsCurrent(file[d], d)

ReplacementInv ==
  /\ ReplacementTypeOK /\ FlightInv /\ StageInv /\ JobInv
  /\ WayInv /\ CountedInv /\ CopyInv /\ PathInv

LEMMA EncryptsKeeps ==
  ASSUME ReplacementInv, NEW e \in Export, Encrypts(e)
  PROVE  ReplacementInv'
<1>1. ReplacementTypeOK'
  BY DEF ReplacementInv, ReplacementTypeOK, Encrypts, Moves, work, Progress
<1>2. FlightInv'
  BY DEF ReplacementInv, FlightInv, Encrypts, Moves, work, Underway
<1>3. StageInv'
  BY DEF ReplacementInv, StageInv, Encrypts, Moves
<1>4. JobInv'
  BY DEF ReplacementInv, JobInv, Encrypts, work
<1>5. WayInv'
  BY DEF ReplacementInv, WayInv, Encrypts, Moves, work
<1>6. CountedInv'
  BY DEF ReplacementInv, CountedInv, Encrypts, Moves, work, Counted
<1>7. CopyInv'
  BY DEF ReplacementInv, CopyInv, Encrypts, Moves, Counted, IsCurrent
<1>8. PathInv'
  BY DEF ReplacementInv, PathInv, Encrypts, Moves, Counted, IsCurrent
<1>9. QED
  BY <1>1, <1>2, <1>3, <1>4, <1>5, <1>6, <1>7, <1>8 DEF ReplacementInv

LEMMA TakesLockKeeps ==
  ASSUME ReplacementInv, NEW e \in Export, TakesLock(e)
  PROVE  ReplacementInv'
<1>1. ReplacementTypeOK'
  BY DEF ReplacementInv, ReplacementTypeOK, TakesLock, Moves, disk, Progress
<1>2. FlightInv'
  BY ReplacementConstants DEF ReplacementInv, ReplacementTypeOK, FlightInv, TakesLock, Moves,
     disk, Underway
<1>3. StageInv'
  BY DEF ReplacementInv, StageInv, TakesLock, Moves, disk
<1>4. JobInv'
  BY DEF ReplacementInv, JobInv, TakesLock, disk
<1>5. WayInv'
  BY DEF ReplacementInv, WayInv, TakesLock, Moves, disk
<1>6. CountedInv'
  BY DEF ReplacementInv, CountedInv, TakesLock, Moves, disk, Counted
<1>7. CopyInv'
  BY DEF ReplacementInv, CopyInv, TakesLock, Moves, disk, Counted, IsCurrent
<1>8. PathInv'
  BY DEF ReplacementInv, PathInv, TakesLock, Moves, disk, Counted, IsCurrent
<1>9. QED
  BY <1>1, <1>2, <1>3, <1>4, <1>5, <1>6, <1>7, <1>8 DEF ReplacementInv

LEMMA VisitsKeeps ==
  ASSUME ReplacementInv, NEW e \in Export, Visits(e)
  PROVE  ReplacementInv'
<1>1. ReplacementTypeOK'
  <2>1. progress' \in [Export -> Progress]
    BY DEF ReplacementInv, ReplacementTypeOK, Visits
  <2>2. /\ job' \in Export \cup {NoExport} /\ flight' \in Export \cup {"start", NoExport}
        /\ jobStep' \in {"rmTemporary", "rmRollback", "rmJournal", "rmDestination", "restore"}
    BY DEF ReplacementInv, ReplacementTypeOK, Visits, Recovers
  <2>3. refusals' \in 0..MaxRefusals /\ ends' \in 0..MaxEnds
    BY DEF ReplacementInv, ReplacementTypeOK, Visits
  <2>4. unvisited' \subseteq Export /\ unresolved' \subseteq Export
    BY DEF ReplacementInv, ReplacementTypeOK, Visits, Scanning, Recovers, CannotRecover,
       Settled, disk, Progress, Content
  <2>5. blind' \in BOOLEAN /\ launched' \in BOOLEAN
    BY DEF ReplacementInv, ReplacementTypeOK, Visits
  <2>6. /\ onWindows' \in BOOLEAN /\ target' \in [Export -> Destination]
        /\ file' \in [Destination -> Content] /\ reported' \in [Destination -> Content]
        /\ rollback' \in [Export -> Content] /\ temporary' \subseteq Export /\ journals' \subseteq Export
    BY DEF ReplacementInv, ReplacementTypeOK, Visits, disk
  <2>7. QED
    BY <2>1, <2>2, <2>3, <2>4, <2>5, <2>6 DEF ReplacementTypeOK
<1>2. FlightInv'
  <2>1. /\ job = NoExport /\ flight # NoExport /\ e \in journals
        /\ flight \in Export => progress[flight] = "scan"
    BY ReplacementConstants DEF ReplacementInv, ReplacementTypeOK, FlightInv, Visits, Scanning
  <2>2. /\ unvisited' = unvisited \ {e} /\ job' \in {e, NoExport}
        /\ UNCHANGED <<journals, flight, progress, launched>>
    BY <2>1 DEF Visits, Recovers, disk
  <2>3. NoExport \notin unvisited /\ unvisited \subseteq journals
    BY ReplacementConstants DEF ReplacementInv, ReplacementTypeOK, FlightInv
  <2>4. \A f \in Export : progress[f] \notin {"cleanup", "undo"}
    BY <2>1, ReplacementConstants DEF ReplacementInv, FlightInv
  <2>5. QED
    BY <2>1, <2>2, <2>3, <2>4 DEF ReplacementInv, FlightInv
<1>3. StageInv'
  BY DEF ReplacementInv, StageInv, Visits, disk
<1>4. JobInv'
  BY DEF ReplacementInv, JobInv, Visits, Recovers, Settled, disk
<1>5. WayInv'
  BY ReplacementConstants DEF ReplacementInv, ReplacementTypeOK, WayInv, Visits, Scanning,
     Recovers, disk
<1>6. CountedInv'
  BY ReplacementConstants DEF ReplacementInv, CountedInv, Visits, Recovers, Settled, disk, Counted
<1>7. CopyInv'
  BY DEF ReplacementInv, CopyInv, Visits, disk, Counted, IsCurrent
<1>8. PathInv'
  BY DEF ReplacementInv, PathInv, Visits, disk, Counted, IsCurrent
<1>9. QED
  BY <1>1, <1>2, <1>3, <1>4, <1>5, <1>6, <1>7, <1>8 DEF ReplacementInv

LEMMA VisitRefusedKeeps ==
  ASSUME ReplacementInv, NEW e \in Export, VisitRefused(e)
  PROVE  ReplacementInv'
<1>1. ReplacementTypeOK'
  BY ReplacementConstants DEF ReplacementInv, ReplacementTypeOK, VisitRefused, CallRefused, disk
<1>2. FlightInv'
  BY DEF ReplacementInv, FlightInv, VisitRefused, disk
<1>3. StageInv'
  BY DEF ReplacementInv, StageInv, VisitRefused, disk
<1>4. JobInv'
  BY DEF ReplacementInv, JobInv, VisitRefused, disk
<1>5. WayInv'
  BY DEF ReplacementInv, WayInv, VisitRefused, disk
<1>6. CountedInv'
  BY DEF ReplacementInv, CountedInv, VisitRefused, disk, Counted
<1>7. CopyInv'
  BY DEF ReplacementInv, CopyInv, VisitRefused, disk, Counted, IsCurrent
<1>8. PathInv'
  BY DEF ReplacementInv, PathInv, VisitRefused, disk, Counted, IsCurrent
<1>9. QED
  BY <1>1, <1>2, <1>3, <1>4, <1>5, <1>6, <1>7, <1>8 DEF ReplacementInv

LEMMA VisitMisledKeeps ==
  ASSUME ReplacementInv, NEW e \in Export, VisitMisled(e)
  PROVE  ReplacementInv'
<1>1. ReplacementTypeOK'
  BY ReplacementConstants DEF ReplacementInv, ReplacementTypeOK, VisitMisled, CallRefused, disk
<1>2. FlightInv'
  <2>1. /\ job = NoExport /\ flight # NoExport /\ e \in journals
        /\ flight \in Export => progress[flight] = "scan"
    BY ReplacementConstants DEF ReplacementInv, ReplacementTypeOK, FlightInv, VisitMisled, Scanning
  <2>2. /\ unvisited' = unvisited \ {e} /\ job' \in {e, NoExport}
        /\ UNCHANGED <<journals, flight, progress, launched>>
    BY <2>1 DEF VisitMisled, Recovers, disk
  <2>3. NoExport \notin unvisited /\ unvisited \subseteq journals
    BY ReplacementConstants DEF ReplacementInv, ReplacementTypeOK, FlightInv
  <2>4. \A f \in Export : progress[f] \notin {"cleanup", "undo"}
    BY <2>1, ReplacementConstants DEF ReplacementInv, FlightInv
  <2>5. QED
    BY <2>1, <2>2, <2>3, <2>4 DEF ReplacementInv, FlightInv
<1>3. StageInv'
  BY DEF ReplacementInv, StageInv, VisitMisled, disk
<1>4. JobInv'
  BY DEF ReplacementInv, JobInv, VisitMisled, disk
<1>5. WayInv'
  BY ReplacementConstants DEF ReplacementInv, ReplacementTypeOK, WayInv, VisitMisled, Scanning, disk
<1>6. CountedInv'
  <2>1. /\ UNCHANGED <<file, journals, target, reported, progress>> /\ job' = e
        /\ ~blind' => ~blind /\ file[target[e]] # reported[target[e]]
    BY DEF VisitMisled, disk
  <2>2. \A f \in journals : Counted(f) /\ ~blind' => /\ file[target[f]] = f /\ reported[target[f]] = f
                                                    /\ f # e
    BY <2>1 DEF ReplacementInv, CountedInv
  <2>3. QED
    BY <2>1, <2>2 DEF CountedInv, Counted
<1>7. CopyInv'
  BY DEF ReplacementInv, ReplacementTypeOK, CopyInv, VisitMisled, disk, Counted, IsCurrent
<1>8. PathInv'
  BY DEF ReplacementInv, ReplacementTypeOK, PathInv, VisitMisled, disk, Counted, IsCurrent
<1>9. QED
  BY <1>1, <1>2, <1>3, <1>4, <1>5, <1>6, <1>7, <1>8 DEF ReplacementInv

LEMMA ScanRefusedKeeps ==
  ASSUME ReplacementInv, ScanRefused
  PROVE  ReplacementInv'
<1>1. ReplacementTypeOK'
  BY ReplacementConstants DEF ReplacementInv, ReplacementTypeOK, ScanRefused, CallRefused, disk
<1>2. FlightInv'
  BY DEF ReplacementInv, FlightInv, ScanRefused
<1>3. StageInv'
  BY DEF ReplacementInv, StageInv, ScanRefused, disk
<1>4. JobInv'
  BY DEF ReplacementInv, JobInv, ScanRefused, disk
<1>5. WayInv'
  BY ReplacementConstants DEF ReplacementInv, ReplacementTypeOK, FlightInv, WayInv, ScanRefused,
     InTheWay, disk, Underway
<1>6. CountedInv'
  BY DEF ReplacementInv, ReplacementTypeOK, CountedInv, ScanRefused, disk, Counted
<1>7. CopyInv'
  BY DEF ReplacementInv, ReplacementTypeOK, CopyInv, ScanRefused, disk, Counted, IsCurrent
<1>8. PathInv'
  BY DEF ReplacementInv, ReplacementTypeOK, PathInv, ScanRefused, disk, Counted, IsCurrent
<1>9. QED
  BY <1>1, <1>2, <1>3, <1>4, <1>5, <1>6, <1>7, <1>8 DEF ReplacementInv

(* The end of a scan reports nothing, and no export has a new copy.        *)
LEMMA ScanEndsReportsNothing ==
  ASSUME ReplacementInv, ScanEnds
  PROVE  /\ UNCHANGED <<file, rollback, journals, target, reported>>
         /\ ~blind' => ~blind
         /\ \A f \in Export : /\ Counted(f)' <=> Counted(f)
                              /\ progress'[f] # "journal" \/ progress'[f] = progress[f]
         /\ \A d \in Destination : \A c \in Content : IsCurrent(c, d)' <=> IsCurrent(c, d)
<1>0. /\ UNCHANGED <<file, rollback, journals, target, reported>>
      /\ ~blind' => ~blind
  BY DEF ScanEnds, GoesOn, disk
<1>1. \A f \in Export : /\ Counted(f)' <=> Counted(f)
                        /\ progress'[f] # "journal" \/ progress'[f] = progress[f]
  <2>1. progress \in [Export -> Progress]
    BY DEF ReplacementInv, ReplacementTypeOK
  <2>2. /\ flight = "start" \/ progress[flight] = "scan"
        /\ \/ progress' = progress
           \/ flight # "start" /\ progress' = [progress EXCEPT ![flight] = "failed"]
           \/ flight # "start" /\ progress' = [progress EXCEPT ![flight] = "place"]
           \/ flight # "start" /\ progress' = [progress EXCEPT ![flight] = "copy"]
    BY ReplacementConstants DEF ScanEnds, GoesOn, Moves, Scanning, InTheWay
  <2>3. QED
    BY <2>1, <2>2 DEF Counted
<1>2. \A d \in Destination : \A c \in Content : IsCurrent(c, d)' <=> IsCurrent(c, d)
  BY <1>0, <1>1 DEF IsCurrent
<1>3. QED
  BY <1>0, <1>1, <1>2 DEF IsCurrent, Counted

LEMMA ScanEndsKeeps ==
  ASSUME ReplacementInv, ScanEnds
  PROVE  ReplacementInv'
<1>1. ReplacementTypeOK'
  <2>1. progress' \in [Export -> Progress]
    BY DEF ReplacementInv, ReplacementTypeOK, ScanEnds, Moves, GoesOn, Progress
  <2>2. /\ job' \in Export \cup {NoExport} /\ flight' \in Export \cup {"start", NoExport}
        /\ jobStep' \in {"rmTemporary", "rmRollback", "rmJournal", "rmDestination", "restore"}
    BY DEF ReplacementInv, ReplacementTypeOK, ScanEnds, GoesOn
  <2>3. refusals' \in 0..MaxRefusals /\ ends' \in 0..MaxEnds
    BY ReplacementConstants DEF ReplacementInv, ReplacementTypeOK, ScanEnds, CallRefused
  <2>4. unvisited' \subseteq Export /\ unresolved' \subseteq Export
    BY DEF ReplacementInv, ReplacementTypeOK, ScanEnds
  <2>5. blind' \in BOOLEAN /\ launched' \in BOOLEAN
    BY DEF ReplacementInv, ReplacementTypeOK, ScanEnds, Moves, CallRefused, Scanning, GoesOn,
       InTheWay, disk, Progress, Content
  <2>6. /\ onWindows' \in BOOLEAN /\ target' \in [Export -> Destination]
        /\ file' \in [Destination -> Content] /\ reported' \in [Destination -> Content]
        /\ rollback' \in [Export -> Content] /\ temporary' \subseteq Export /\ journals' \subseteq Export
    BY DEF ReplacementInv, ReplacementTypeOK, ScanEnds, disk
  <2>7. QED
    BY <2>1, <2>2, <2>3, <2>4, <2>5, <2>6 DEF ReplacementTypeOK
<1>2. FlightInv'
  BY ReplacementConstants DEF ReplacementInv, ReplacementTypeOK, FlightInv, ScanEnds, Moves,
     Scanning, GoesOn, Underway
<1>3. StageInv'
  BY ReplacementConstants DEF ReplacementInv, ReplacementTypeOK, StageInv, ScanEnds, Moves,
     Scanning, GoesOn, disk
<1>4. JobInv'
  BY DEF ReplacementInv, JobInv, ScanEnds, disk
<1>5. WayInv'
  BY ReplacementConstants DEF ReplacementInv, ReplacementTypeOK, WayInv, ScanEnds, Moves,
     Scanning, GoesOn, InTheWay, disk
<1>6. CountedInv'
  BY DEF ReplacementInv, ReplacementTypeOK, CountedInv, ScanEnds, Moves, GoesOn, disk, Counted
<1>7. CopyInv'
  BY ScanEndsReportsNothing DEF ReplacementInv, ReplacementTypeOK, CopyInv, IsCurrent, Counted
<1>8. PathInv'
  BY ScanEndsReportsNothing DEF ReplacementInv, ReplacementTypeOK, PathInv
<1>9. QED
  BY <1>1, <1>2, <1>3, <1>4, <1>5, <1>6, <1>7, <1>8 DEF ReplacementInv

LEMMA PlacesKeeps ==
  ASSUME ReplacementInv, NEW e \in Export, Places(e)
  PROVE  ReplacementInv'
<1>1. ReplacementTypeOK'
  BY ReplacementConstants DEF ReplacementInv, ReplacementTypeOK, Places, Moves, CallRefused,
     ToDestination, Reports, Progress, Content
<1>2. FlightInv'
  BY ReplacementConstants DEF ReplacementInv, ReplacementTypeOK, FlightInv, Places, Moves,
     InFlight, Underway
<1>3. StageInv'
  BY DEF ReplacementInv, ReplacementTypeOK, FlightInv, StageInv, Places, Moves, InFlight, Underway
<1>4. JobInv'
  BY DEF ReplacementInv, JobInv, Places, InFlight
<1>5. WayInv'
  BY DEF ReplacementInv, ReplacementTypeOK, WayInv, Places, Moves
<1>6. CountedInv'
  BY DEF ReplacementInv, ReplacementTypeOK, WayInv, CountedInv, Places, Moves, InFlight,
     ToDestination, Reports, Counted
<1>7. CopyInv'
  BY DEF ReplacementInv, ReplacementTypeOK, FlightInv, WayInv, CopyInv, Places, Moves, InFlight,
     ToDestination, Reports, Underway, Counted, IsCurrent
<1>8. PathInv'
  BY DEF ReplacementInv, ReplacementTypeOK, PathInv, Places, Moves, ToDestination, Reports,
     Counted, IsCurrent
<1>9. QED
  BY <1>1, <1>2, <1>3, <1>4, <1>5, <1>6, <1>7, <1>8 DEF ReplacementInv

LEMMA PreparesKeeps ==
  ASSUME ReplacementInv, NEW e \in Export, Prepares(e)
  PROVE  ReplacementInv'
<1>1. ReplacementTypeOK'
  BY ReplacementConstants DEF ReplacementInv, ReplacementTypeOK, Prepares, Moves, CallRefused,
     Progress, Content
<1>2. FlightInv'
  BY ReplacementConstants DEF ReplacementInv, ReplacementTypeOK, FlightInv, Prepares, Moves,
     InFlight, Underway
<1>3. StageInv'
  BY DEF ReplacementInv, ReplacementTypeOK, StageInv, Prepares, Moves, InFlight
<1>4. JobInv'
  BY DEF ReplacementInv, JobInv, Prepares, InFlight
<1>5. WayInv'
  BY DEF ReplacementInv, ReplacementTypeOK, FlightInv, WayInv, Prepares, Moves, InFlight, Underway
<1>6. CountedInv'
  BY DEF ReplacementInv, ReplacementTypeOK, CountedInv, Prepares, Moves, Counted
<1>7. CopyInv'
  BY DEF ReplacementInv, ReplacementTypeOK, StageInv, CountedInv, CopyInv, PathInv, Prepares,
     Moves, InFlight, Counted, IsCurrent
<1>8. PathInv'
  BY DEF ReplacementInv, ReplacementTypeOK, PathInv, Prepares, Moves, Counted, IsCurrent
<1>9. QED
  BY <1>1, <1>2, <1>3, <1>4, <1>5, <1>6, <1>7, <1>8 DEF ReplacementInv

LEMMA InstallsKeeps ==
  ASSUME ReplacementInv, NEW e \in Export, Installs(e)
  PROVE  ReplacementInv'
<1>1. ReplacementTypeOK'
  BY ReplacementConstants DEF ReplacementInv, ReplacementTypeOK, Installs, Moves, CallRefused,
     Recovers, ToDestination, Undoes, Progress, Content
<1>2. FlightInv'
  BY DEF ReplacementInv, ReplacementTypeOK, FlightInv, StageInv, Installs, Moves, Recovers,
     CannotRecover, InFlight, Undoes, Underway
<1>3. StageInv'
  BY DEF ReplacementInv, ReplacementTypeOK, FlightInv, StageInv, Installs, Moves, InFlight,
     ToDestination, Undoes, Underway
<1>4. JobInv'
  BY DEF ReplacementInv, JobInv, Installs, Recovers, Settled, InFlight, Undoes
<1>5. WayInv'
  BY DEF ReplacementInv, ReplacementTypeOK, FlightInv, WayInv, Installs, Moves, InFlight, Undoes,
     Underway
<1>6. CountedInv'
  BY DEF ReplacementInv, ReplacementTypeOK, StageInv, WayInv, CountedInv, Installs, Moves,
     Recovers, InFlight, ToDestination, Undoes, Counted
<1>7. CopyInv'
  BY DEF ReplacementInv, ReplacementTypeOK, StageInv, WayInv, CopyInv, Installs, Moves, InFlight,
     ToDestination, Undoes, Counted, IsCurrent
<1>8. PathInv'
  BY DEF ReplacementInv, ReplacementTypeOK, StageInv, PathInv, Installs, Moves, InFlight,
     ToDestination, Undoes, Counted, IsCurrent
<1>9. QED
  BY <1>1, <1>2, <1>3, <1>4, <1>5, <1>6, <1>7, <1>8 DEF ReplacementInv

LEMMA VerifiesKeeps ==
  ASSUME ReplacementInv, NEW e \in Export, Verifies(e)
  PROVE  ReplacementInv'
<1>1. ReplacementTypeOK'
  BY ReplacementConstants DEF ReplacementInv, ReplacementTypeOK, Verifies, Moves, CallRefused,
     Recovers, Reports, Undoes, disk, Progress, Content
<1>2. FlightInv'
  BY DEF ReplacementInv, ReplacementTypeOK, FlightInv, StageInv, Verifies, Moves, Recovers,
     CannotRecover, InFlight, Undoes, disk, Underway
<1>3. StageInv'
  BY DEF ReplacementInv, ReplacementTypeOK, StageInv, Verifies, Moves, Undoes, disk
<1>4. JobInv'
  BY ReplacementConstants DEF ReplacementInv, StageInv, JobInv, Verifies, Recovers, InFlight,
     Undoes, disk
<1>5. WayInv'
  BY DEF ReplacementInv, ReplacementTypeOK, FlightInv, WayInv, Verifies, Moves, InFlight, Undoes,
     disk, Underway
<1>6. CountedInv'
  BY DEF ReplacementInv, ReplacementTypeOK, StageInv, CountedInv, Verifies, Moves, Recovers,
     InFlight, Reports, Undoes, disk, Counted
<1>7. CopyInv'
  BY DEF ReplacementInv, ReplacementTypeOK, StageInv, WayInv, CopyInv, Verifies, Moves, InFlight,
     Reports, Undoes, disk, Counted, IsCurrent
<1>8. PathInv'
  BY DEF ReplacementInv, ReplacementTypeOK, StageInv, PathInv, Verifies, Moves, InFlight, Reports,
     Undoes, disk, Counted, IsCurrent
<1>9. QED
  BY <1>1, <1>2, <1>3, <1>4, <1>5, <1>6, <1>7, <1>8 DEF ReplacementInv

LEMMA JobProceedsKeeps ==
  ASSUME ReplacementInv, JobProceeds
  PROVE  ReplacementInv'
<1>1. ReplacementTypeOK'
  BY DEF ReplacementInv, ReplacementTypeOK, JobProceeds, ToDestination, JobStepEffect,
     NextJobStep, Content
<1>2. FlightInv'
  BY DEF ReplacementInv, FlightInv, JobProceeds, JobStepEffect
<1>3. StageInv'
  BY DEF ReplacementInv, FlightInv, StageInv, JobProceeds, JobStepEffect, Underway
<1>4. JobInv'
  BY DEF ReplacementInv, ReplacementTypeOK, JobInv, JobProceeds, ToDestination, JobStepEffect,
     NextJobStep
<1>5. WayInv'
  BY DEF ReplacementInv, WayInv, JobProceeds, JobStepEffect
<1>6. CountedInv'
  BY DEF ReplacementInv, ReplacementTypeOK, FlightInv, WayInv, CountedInv, JobProceeds,
     ToDestination, JobStepEffect, NextJobStep, Counted
<1>7. CopyInv'
  BY DEF ReplacementInv, ReplacementTypeOK, FlightInv, JobInv, WayInv, CopyInv, JobProceeds,
     ToDestination, JobStepEffect, Counted, IsCurrent
<1>8. PathInv'
  BY DEF ReplacementInv, ReplacementTypeOK, FlightInv, PathInv, JobProceeds, ToDestination,
     JobStepEffect, Counted, IsCurrent
<1>9. QED
  BY <1>1, <1>2, <1>3, <1>4, <1>5, <1>6, <1>7, <1>8 DEF ReplacementInv

LEMMA JobFinishesKeeps ==
  ASSUME ReplacementInv, JobFinishes
  PROVE  ReplacementInv'
<1>1. ReplacementTypeOK'
  BY DEF ReplacementInv, ReplacementTypeOK, JobFinishes, Moves, JobStepEffect, JobEnds, Progress
<1>2. FlightInv'
  BY ReplacementConstants DEF ReplacementInv, ReplacementTypeOK, FlightInv, JobFinishes, Moves,
     JobStepEffect, JobEnds, Underway
<1>3. StageInv'
  BY DEF ReplacementInv, ReplacementTypeOK, FlightInv, StageInv, JobFinishes, Moves,
     JobStepEffect, JobEnds, Underway
<1>4. JobInv'
  BY DEF ReplacementInv, JobInv, JobFinishes, JobEnds
<1>5. WayInv'
  BY DEF ReplacementInv, ReplacementTypeOK, WayInv, JobFinishes, Moves, JobStepEffect, JobEnds
<1>6. CountedInv'
  BY DEF ReplacementInv, ReplacementTypeOK, CountedInv, JobFinishes, Moves, JobStepEffect,
     JobEnds, Counted
<1>7. CopyInv'
  BY DEF ReplacementInv, ReplacementTypeOK, FlightInv, CopyInv, JobFinishes, Moves, JobStepEffect,
     JobEnds, Counted, IsCurrent
<1>8. PathInv'
  BY DEF ReplacementInv, ReplacementTypeOK, JobInv, CountedInv, CopyInv, PathInv, JobFinishes,
     Moves, JobStepEffect, JobEnds, Counted, IsCurrent
<1>9. QED
  BY <1>1, <1>2, <1>3, <1>4, <1>5, <1>6, <1>7, <1>8 DEF ReplacementInv

LEMMA JobRefusedKeeps ==
  ASSUME ReplacementInv, JobRefused
  PROVE  ReplacementInv'
<1>1. ReplacementTypeOK'
  BY ReplacementConstants DEF ReplacementInv, ReplacementTypeOK, JobRefused, Moves, CallRefused,
     JobEnds, disk, Progress
<1>2. FlightInv'
  BY ReplacementConstants DEF ReplacementInv, ReplacementTypeOK, FlightInv, JobRefused, Moves,
     JobEnds, disk, Underway
<1>3. StageInv'
  BY DEF ReplacementInv, ReplacementTypeOK, StageInv, JobRefused, Moves, JobEnds, disk
<1>4. JobInv'
  BY DEF ReplacementInv, JobInv, JobRefused, JobEnds
<1>5. WayInv'
  BY DEF ReplacementInv, ReplacementTypeOK, WayInv, JobRefused, Moves, JobEnds, disk
<1>6. CountedInv'
  BY ReplacementConstants DEF ReplacementInv, ReplacementTypeOK, CountedInv, JobRefused, Moves,
     JobEnds, disk, Counted
<1>7. CopyInv'
  BY DEF ReplacementInv, ReplacementTypeOK, FlightInv, CopyInv, JobRefused, Moves, JobEnds, disk,
     Counted, IsCurrent
<1>8. PathInv'
  BY DEF ReplacementInv, ReplacementTypeOK, PathInv, JobRefused, Moves, JobEnds, disk, Counted,
     IsCurrent
<1>9. QED
  BY <1>1, <1>2, <1>3, <1>4, <1>5, <1>6, <1>7, <1>8 DEF ReplacementInv

LEMMA DiscardsKeeps ==
  ASSUME ReplacementInv, NEW e \in Export, Discards(e)
  PROVE  ReplacementInv'
<1>1. ReplacementTypeOK'
  BY ReplacementConstants DEF ReplacementInv, ReplacementTypeOK, Discards, Moves, CallRefused,
     work, Progress
<1>2. FlightInv'
  BY DEF ReplacementInv, FlightInv, Discards, Moves, work, Underway
<1>3. StageInv'
  BY DEF ReplacementInv, StageInv, Discards, Moves
<1>4. JobInv'
  BY DEF ReplacementInv, JobInv, Discards, work
<1>5. WayInv'
  BY DEF ReplacementInv, WayInv, Discards, Moves, work
<1>6. CountedInv'
  BY DEF ReplacementInv, CountedInv, Discards, Moves, work, Counted
<1>7. CopyInv'
  BY DEF ReplacementInv, CopyInv, Discards, Moves, Counted, IsCurrent
<1>8. PathInv'
  BY DEF ReplacementInv, PathInv, Discards, Moves, Counted, IsCurrent
<1>9. QED
  BY <1>1, <1>2, <1>3, <1>4, <1>5, <1>6, <1>7, <1>8 DEF ReplacementInv

LEMMA ProgramEndsKeeps ==
  ASSUME ReplacementInv, ProgramEnds
  PROVE  ReplacementInv'
<1>1. ReplacementTypeOK'
  <2>1. progress' \in [Export -> Progress]
    BY DEF ReplacementInv, ProgramEnds, Progress
  <2>2. /\ job' \in Export \cup {NoExport} /\ flight' \in Export \cup {"start", NoExport}
        /\ jobStep' \in {"rmTemporary", "rmRollback", "rmJournal", "rmDestination", "restore"}
    BY DEF ReplacementInv, ReplacementTypeOK, ProgramEnds
  <2>3. refusals' \in 0..MaxRefusals /\ ends' \in 0..MaxEnds
    BY ReplacementConstants DEF ReplacementInv, ReplacementTypeOK, ProgramEnds
  <2>4. unvisited' \subseteq Export /\ unresolved' \subseteq Export
    BY DEF ReplacementInv, ProgramEnds
  <2>5. blind' \in BOOLEAN /\ launched' \in BOOLEAN
    BY DEF ReplacementInv, ReplacementTypeOK, ProgramEnds, disk, Progress, Content
  <2>6. /\ onWindows' \in BOOLEAN /\ target' \in [Export -> Destination]
        /\ file' \in [Destination -> Content] /\ reported' \in [Destination -> Content]
        /\ rollback' \in [Export -> Content] /\ temporary' \subseteq Export /\ journals' \subseteq Export
    BY DEF ReplacementInv, ReplacementTypeOK, ProgramEnds, disk
  <2>7. QED
    BY <2>1, <2>2, <2>3, <2>4, <2>5, <2>6 DEF ReplacementTypeOK
<1>2. FlightInv'
  BY ReplacementConstants DEF ReplacementInv, FlightInv, ProgramEnds, Underway
<1>3. StageInv'
  BY DEF ReplacementInv, StageInv, ProgramEnds, disk
<1>4. JobInv'
  BY DEF ReplacementInv, JobInv, ProgramEnds
<1>5. WayInv'
  BY DEF ReplacementInv, WayInv, ProgramEnds, disk
<1>6. CountedInv'
  BY ReplacementConstants DEF ReplacementInv, ReplacementTypeOK, CountedInv, ProgramEnds, disk,
     Counted
<1>7. CopyInv'
  BY DEF ReplacementInv, ReplacementTypeOK, CopyInv, ProgramEnds, disk, Counted, IsCurrent
<1>8. PathInv'
  BY DEF ReplacementInv, PathInv, ProgramEnds, disk, Counted, IsCurrent
<1>9. QED
  BY <1>1, <1>2, <1>3, <1>4, <1>5, <1>6, <1>7, <1>8 DEF ReplacementInv

LEMMA ProgramStartsKeeps ==
  ASSUME ReplacementInv, ProgramStarts
  PROVE  ReplacementInv'
<1>1. ReplacementTypeOK'
  BY DEF ReplacementInv, ReplacementTypeOK, ProgramStarts, disk
<1>2. FlightInv'
  BY ReplacementConstants DEF ReplacementInv, ReplacementTypeOK, FlightInv, ProgramStarts, disk
<1>3. StageInv'
  BY DEF ReplacementInv, StageInv, ProgramStarts, disk
<1>4. JobInv'
  BY DEF ReplacementInv, JobInv, ProgramStarts, disk
<1>5. WayInv'
  BY DEF ReplacementInv, WayInv, ProgramStarts, disk
<1>6. CountedInv'
  BY DEF ReplacementInv, CountedInv, ProgramStarts, disk, Counted
<1>7. CopyInv'
  BY DEF ReplacementInv, CopyInv, ProgramStarts, disk, Counted, IsCurrent
<1>8. PathInv'
  BY DEF ReplacementInv, PathInv, ProgramStarts, disk, Counted, IsCurrent
<1>9. QED
  BY <1>1, <1>2, <1>3, <1>4, <1>5, <1>6, <1>7, <1>8 DEF ReplacementInv

LEMMA NextKeeps ==
  ASSUME ReplacementInv, [ReplacementNext]_replacementVars
  PROVE  ReplacementInv'
<1>1. ASSUME NEW e \in Export, Encrypts(e) PROVE ReplacementInv'
  BY <1>1, EncryptsKeeps
<1>2. ASSUME NEW e \in Export, TakesLock(e) PROVE ReplacementInv'
  BY <1>2, TakesLockKeeps
<1>3. ASSUME NEW e \in Export, Visits(e) PROVE ReplacementInv'
  BY <1>3, VisitsKeeps
<1>4. ASSUME NEW e \in Export, VisitRefused(e) PROVE ReplacementInv'
  BY <1>4, VisitRefusedKeeps
<1>5. ASSUME NEW e \in Export, VisitMisled(e) PROVE ReplacementInv'
  BY <1>5, VisitMisledKeeps
<1>6. CASE ScanRefused
  BY <1>6, ScanRefusedKeeps
<1>7. CASE ScanEnds
  BY <1>7, ScanEndsKeeps
<1>8. ASSUME NEW e \in Export, Places(e) PROVE ReplacementInv'
  BY <1>8, PlacesKeeps
<1>9. ASSUME NEW e \in Export, Prepares(e) PROVE ReplacementInv'
  BY <1>9, PreparesKeeps
<1>10. ASSUME NEW e \in Export, Installs(e) PROVE ReplacementInv'
  BY <1>10, InstallsKeeps
<1>11. ASSUME NEW e \in Export, Verifies(e) PROVE ReplacementInv'
  BY <1>11, VerifiesKeeps
<1>12. CASE JobProceeds
  BY <1>12, JobProceedsKeeps
<1>13. CASE JobFinishes
  BY <1>13, JobFinishesKeeps
<1>14. CASE JobRefused
  BY <1>14, JobRefusedKeeps
<1>15. ASSUME NEW e \in Export, Discards(e) PROVE ReplacementInv'
  BY <1>15, DiscardsKeeps
<1>16. CASE ProgramEnds
  BY <1>16, ProgramEndsKeeps
<1>17. CASE ProgramStarts
  BY <1>17, ProgramStartsKeeps
<1>18. CASE UNCHANGED replacementVars
  BY <1>18 DEF replacementVars, ReplacementInv, ReplacementTypeOK, FlightInv, StageInv, JobInv,
     WayInv, CountedInv, CopyInv, PathInv, IsCurrent, Counted
<1>19. QED
  BY <1>1, <1>2, <1>3, <1>4, <1>5, <1>6, <1>7, <1>8, <1>9, <1>10, <1>11, <1>12, <1>13, <1>14,
     <1>15, <1>16, <1>17, <1>18 DEF ReplacementNext, UnderLock

LEMMA InitEstablishes == ReplacementInit => ReplacementInv
<1>1. SUFFICES ASSUME ReplacementInit PROVE ReplacementInv
  OBVIOUS
<1>2. ReplacementTypeOK
  <2>1. /\ file \in [Destination -> Content] /\ reported \in [Destination -> Content]
        /\ rollback \in [Export -> Content] /\ progress \in [Export -> Progress]
    BY <1>1 DEF ReplacementInit, Content, Progress
  <2>2. refusals \in 0..MaxRefusals /\ ends \in 0..MaxEnds
    BY <1>1, ReplacementConstants DEF ReplacementInit
  <2>3. QED
    BY <1>1, <2>1, <2>2 DEF ReplacementInit, ReplacementTypeOK
<1>3. FlightInv /\ StageInv /\ JobInv /\ WayInv /\ CountedInv
  BY <1>1, ReplacementConstants DEF ReplacementInit, FlightInv, StageInv, JobInv, WayInv,
     CountedInv, Underway
<1>4. CopyInv /\ PathInv
  BY <1>1 DEF ReplacementInit, CopyInv, PathInv, IsCurrent
<1>5. QED
  BY <1>2, <1>3, <1>4 DEF ReplacementInv

LEMMA ReplacementInvariant == ReplacementSpec => []ReplacementInv
<1>1. ReplacementInv /\ [ReplacementNext]_replacementVars => ReplacementInv'
  BY NextKeeps
<1>2. QED
  BY <1>1, InitEstablishes, PTL DEF ReplacementSpec

(* The files, the journals and who works on them keep their types through  *)
(* every refused call and end of the process.                              *)
THEOREM ReplacementTypeCorrect == ReplacementSpec => []ReplacementTypeOK
<1>1. ReplacementInv => ReplacementTypeOK
  BY DEF ReplacementInv
<1>2. QED
  BY <1>1, ReplacementInvariant, PTL

LEMMA InvariantKeepsBackups == ReplacementInv => BackupKept
<1>1. SUFFICES ASSUME ReplacementInv, NEW d \in Destination, reported[d] # NoFile, ~blind
               PROVE  LET Current == {reported[d]} \cup Unreported(d)
                      IN  \/ file[d] \in Current
                          \/ /\ file[d] = NoFile
                             /\ \E e \in journals : target[e] = d /\ rollback[e] \in Current
  BY DEF BackupKept
<1>2. \A c \in Content : IsCurrent(c, d) <=> c \in {reported[d]} \cup Unreported(d)
  BY DEF IsCurrent, Unreported, Counted
<1>3. CASE \A e \in journals : target[e] # d
  BY <1>1, <1>2, <1>3 DEF ReplacementInv, ReplacementTypeOK, PathInv
<1>4. ASSUME NEW e \in journals, target[e] = d
      PROVE  \/ IsCurrent(file[d], d)
             \/ file[d] = NoFile /\ IsCurrent(rollback[e], d)
  BY <1>1, <1>4 DEF ReplacementInv, CountedInv, CopyInv, IsCurrent
<1>5. QED
  BY <1>1, <1>2, <1>3, <1>4 DEF ReplacementInv, ReplacementTypeOK

(* For any number of exports and paths, and whatever is refused or cut     *)
(* off, what was last reported as written to a path, or an export not yet  *)
(* reported, is there or is in the copy that its journal puts back.        *)
THEOREM BackupsAreKept == ReplacementSpec => []BackupKept
<1>1. QED
  BY InvariantKeepsBackups, ReplacementInvariant, PTL
=============================================================================
