---------------------------- MODULE SystemProxyLease ----------------------------
(***************************************************************************)
(* The lease on the operating system's proxy settings                      *)
(* (src/main/proxy/built-in/system-proxy-lease.ts), its journal            *)
(* (lease-recovery.ts) and the commands that change the settings of        *)
(* Windows (platform-adapters.ts).  Operations run one at a time; every    *)
(* await, and every value a command writes, is a step, between which the   *)
(* process may die and another program may change the settings.            *)
(***************************************************************************)
EXTENDS Naturals, Sequences

CONSTANTS
  Endpoint,    \* mixed endpoints of the core, one for each of its generations
  Foreign,     \* proxies that the user and other programs choose
  NoRecord,    \* no lease record
  NoClaim,     \* no claim about what was chosen last
  MaxCalls,    \* bound: operations called and not begun
  MaxLeases,   \* bound: acquisitions called
  MaxWatches,  \* bound: calls of startMonitoring for one lease
  MaxFaults,   \* bound: commands and file operations that fail
  MaxDeaths    \* bound: deaths of the process

Mode == {"manual", "automatic"}

(* What Windows stores: the proxy inside the binary connection settings,   *)
(* the proxy of the registry value, and the other values of the registry,  *)
(* which say whether that proxy is used.                                   *)
Settings == [blob : Endpoint \cup Foreign, server : Endpoint \cup Foreign, mode : Mode]

LeaseRecord == [id : 1..MaxLeases, target : Endpoint, original : Settings]

ASSUME LeaseConstants ==
  /\ Endpoint \cap Foreign = {} /\ NoClaim \notin Foreign /\ NoRecord \notin LeaseRecord
  /\ {MaxCalls, MaxLeases, MaxWatches, MaxFaults, MaxDeaths} \subseteq Nat

VARIABLES
  settings,     \* the settings of the operating system
  journal,      \* the recovery record on disk
  leaseStatus,  \* status
  record,       \* record
  monitor,      \* the lease an armed monitor timer is for, 0 when none is
  calls,        \* operationTail: operations called and not begun
  doing,        \* the operation under way and where it is
  draft,        \* the record an acquisition is about to save
  startup,      \* how far the start of the application is
  made,         \* acquisitions called, which gives them their lease ids
  watches,      \* calls of startMonitoring for the lease
  faults,       \* commands and file operations that have failed
  deaths,       \* deaths of the process
  choice        \* history: what the user or another program chose last

memory    == <<leaseStatus, record, monitor, calls, doing, draft, watches>>
outside   == <<settings, choice>>
counters  == <<made, faults, deaths>>
leaseVars == <<settings, journal, leaseStatus, record, monitor, calls, doing, draft,
               startup, made, watches, faults, deaths, choice>>

Applied(r) == [blob |-> r.target, server |-> r.target, mode |-> "manual"]

(* windowsOwnsSnapshotMarker, $ownsStone                                   *)
Owns(r) == settings.server = r.target \/ settings.blob = r.target

Operation(op, target, id) ==
  [op |-> op, at |-> "called", target |-> target, id |-> id, current |-> TRUE,
   changed |-> FALSE]

Nothing == Operation("none", NoClaim, 0)

LeaseOp == {"none", "acquire", "verify", "release", "recover", "watch"}
Stage ==
  {"called", "load", "compare", "restoreMode", "restoreBlob", "restoreServer", "announce",
   "check", "clear", "capture", "save", "applyBlob", "applyServer", "applyMode", "notify",
   "confirm", "verify", "observe", "applied", "drifted"}

LeaseTypeOK ==
  /\ settings \in Settings
  /\ {journal, record, draft} \subseteq LeaseRecord \cup {NoRecord}
  /\ leaseStatus \in {"idle", "recovering", "acquiring", "active", "releasing", "error"}
  /\ {monitor, made} \subseteq 0..MaxLeases
  /\ \A c \in {doing} \cup {calls[i] : i \in DOMAIN calls} :
       c \in [op : LeaseOp, at : Stage, target : Endpoint \cup {NoClaim}, id : 0..MaxLeases,
              current : BOOLEAN, changed : BOOLEAN]
  /\ startup \in {"down", "first", "second", "done"}
  /\ watches \in 0..MaxWatches /\ faults \in 0..MaxFaults /\ deaths \in 0..MaxDeaths
  /\ choice \in [server : Foreign \cup {NoClaim}, all : Settings \cup {NoClaim}]

LeaseInit ==
  /\ settings \in {[blob |-> p, server |-> p, mode |-> m] : p \in Foreign, m \in Mode}
  /\ choice = [server |-> settings.server, all |-> settings]
  /\ journal = NoRecord /\ record = NoRecord /\ draft = NoRecord
  /\ leaseStatus = "idle" /\ monitor = 0 /\ watches = 0
  /\ calls = <<>> /\ doing = Nothing
  /\ startup = "down"
  /\ made = 0 /\ faults = 0 /\ deaths = 0

(* A command or a file operation fails.                                    *)
Fault == faults < MaxFaults /\ faults' = faults + 1
Works == UNCHANGED faults

(* stopActiveLeaseMonitor: the timer is off, and what a monitor read under *)
(* the old epoch counts no more.                                           *)
Outdated(c) == [c EXCEPT !.current = @ /\ c.op # "watch"]
Stale(cs)   == [i \in DOMAIN cs |-> Outdated(cs[i])]

At(stage) == doing' = [doing EXCEPT !.at = stage] /\ UNCHANGED calls
Ends      == doing' = Nothing /\ UNCHANGED calls

(* fail: the record stays, in memory and on disk.                          *)
Fail ==
  /\ leaseStatus' = "error" /\ monitor' = 0
  /\ calls' = Stale(calls) /\ doing' = Nothing
  /\ UNCHANGED record

(* finishIdle                                                              *)
FinishIdle(rest) ==
  /\ leaseStatus' = "idle" /\ record' = NoRecord /\ monitor' = 0
  /\ calls' = Stale(rest) /\ doing' = Nothing
-----------------------------------------------------------------------------
(* What the orchestrator and the start of the application call.            *)

Alive == startup # "down"
Callable  == startup = "done" /\ Len(calls) < MaxCalls

CallAcquire(t) ==
  /\ Callable /\ made < MaxLeases
  /\ made' = made + 1
  /\ calls' = Append(calls, Operation("acquire", t, made'))
  /\ UNCHANGED <<outside, journal, leaseStatus, record, monitor, doing, draft, startup,
                 watches, faults, deaths>>

CallVerify(t, id) ==
  /\ Callable /\ id \in 1..made
  /\ calls' = Append(calls, Operation("verify", t, id))
  /\ UNCHANGED <<outside, journal, leaseStatus, record, monitor, doing, draft, startup,
                 watches, counters>>

CallRecover ==
  /\ Callable
  /\ calls' = Append(calls, Operation("recover", NoClaim, 0))
  /\ UNCHANGED <<outside, journal, leaseStatus, record, monitor, doing, draft, startup,
                 watches, counters>>

(* A release stops the monitor before it joins the queue.                  *)
CallRelease ==
  /\ Callable
  /\ calls' = Append(Stale(calls), Operation("release", NoClaim, 0))
  /\ doing' = Outdated(doing)
  /\ monitor' = 0
  /\ UNCHANGED <<outside, journal, leaseStatus, record, draft, startup, watches, counters>>

StartMonitoring ==
  /\ Callable /\ leaseStatus = "active" /\ watches < MaxWatches
  /\ watches' = watches + 1
  /\ monitor' = record.id
  /\ calls' = Stale(calls)
  /\ doing' = Outdated(doing)
  /\ UNCHANGED <<outside, journal, leaseStatus, record, draft, startup, counters>>

MonitorFires ==
  /\ monitor # 0
  /\ monitor' = 0
  /\ calls' = Append(calls, Operation("watch", NoClaim, monitor))
  /\ UNCHANGED <<outside, journal, leaseStatus, record, doing, draft, startup, watches,
                 counters>>
-----------------------------------------------------------------------------
(* The head of the queue begins: up to its first await.                    *)

Begins(op) == Alive /\ doing = Nothing /\ calls # <<>> /\ Head(calls).op = op

BeginsAt(stage) == doing' = [Head(calls) EXCEPT !.at = stage]

(* Nothing else happens at the beginning of an operation.                  *)
Advance(stage) ==
  BeginsAt(stage) /\ calls' = Tail(calls) /\ UNCHANGED <<leaseStatus, record, monitor>>

RefuseCall ==
  /\ leaseStatus' = "error" /\ monitor' = 0
  /\ calls' = Stale(Tail(calls)) /\ doing' = Nothing
  /\ UNCHANGED record

BeginAcquire ==
  /\ Begins("acquire")
  /\ \/ leaseStatus = "active" /\ record.target = Head(calls).target /\ Advance("verify")
     \/ leaseStatus = "active" /\ record.target # Head(calls).target /\ RefuseCall
     \/ /\ leaseStatus # "active" /\ record # NoRecord
        /\ BeginsAt("compare") /\ calls' = Stale(Tail(calls))
        /\ leaseStatus' = "recovering" /\ monitor' = 0
        /\ UNCHANGED record
     \/ leaseStatus # "active" /\ record = NoRecord /\ Advance("load")
  /\ UNCHANGED <<outside, journal, draft, startup, watches, counters>>

BeginRelease ==
  /\ Begins("release")
  /\ \/ /\ record # NoRecord
        /\ BeginsAt("compare") /\ calls' = Tail(calls)
        /\ leaseStatus' = "releasing"
        /\ UNCHANGED <<record, monitor>>
     \/ record = NoRecord /\ Advance("load")
  /\ UNCHANGED <<outside, journal, draft, startup, watches, counters>>

BeginRecoverForgetting ==
  /\ Begins("recover")
  /\ IF leaseStatus = "active" THEN RefuseCall ELSE FinishIdle(Tail(calls))
  /\ UNCHANGED <<outside, journal, draft, startup, watches, counters>>

BeginRecover ==
  /\ Begins("recover")
  /\ \/ leaseStatus = "active" /\ RefuseCall
     \/ /\ leaseStatus # "active" /\ record # NoRecord
        /\ BeginsAt("compare") /\ calls' = Stale(Tail(calls))
        /\ leaseStatus' = "recovering" /\ monitor' = 0
        /\ UNCHANGED record
     \/ /\ leaseStatus # "active" /\ record = NoRecord
        /\ BeginsAt("load") /\ calls' = Stale(Tail(calls))
        /\ monitor' = 0
        /\ UNCHANGED <<leaseStatus, record>>
  /\ UNCHANGED <<outside, journal, draft, startup, watches, counters>>

BeginVerify ==
  LET c == Head(calls) IN
  /\ Begins("verify")
  /\ IF leaseStatus = "active" /\ record.target = c.target /\ record.id = c.id
       THEN Advance("verify")
       ELSE RefuseCall
  /\ UNCHANGED <<outside, journal, draft, startup, watches, counters>>

StillOwns(c) == c.current /\ leaseStatus = "active" /\ record.id = c.id

BeginWatch ==
  /\ Begins("watch")
  /\ IF StillOwns(Head(calls))
       THEN Advance("observe")
       ELSE doing' = Nothing /\ calls' = Tail(calls) /\ UNCHANGED <<leaseStatus, record, monitor>>
  /\ UNCHANGED <<outside, journal, draft, startup, watches, counters>>
-----------------------------------------------------------------------------
(* loadRecoveryRecord, then restoreRecord: the fields that Stone+ still    *)
(* owns get back their values, the endpoint of the registry last.          *)

Load ==
  /\ doing.at = "load"
  /\ \/ Fault /\ Fail
     \/ /\ Works /\ journal = NoRecord /\ doing.op = "acquire"
        /\ At("capture") /\ leaseStatus' = "acquiring"
        /\ UNCHANGED <<record, monitor>>
     \/ Works /\ journal = NoRecord /\ doing.op # "acquire" /\ FinishIdle(calls)
     \/ /\ Works /\ journal # NoRecord
        /\ record' = journal
        /\ doing' = [doing EXCEPT !.at = "compare"]
        /\ IF doing.op = "release"
             THEN leaseStatus' = "releasing" /\ UNCHANGED <<monitor, calls>>
             ELSE leaseStatus' = "recovering" /\ monitor' = 0 /\ calls' = Stale(calls)
  /\ UNCHANGED <<outside, journal, draft, startup, made, deaths, watches>>

Compare ==
  /\ doing.at = "compare"
  /\ \/ Fault /\ Fail
     \/ /\ Works
        /\ \/ settings = record.original /\ At("announce")
           \/ settings # record.original /\ ~Owns(record) /\ At("check")
           \/ settings # record.original /\ Owns(record) /\ At("restoreMode")
        /\ UNCHANGED <<leaseStatus, record, monitor>>
  /\ UNCHANGED <<outside, journal, draft, startup, made, deaths, watches>>

(* Set-StoneValue: a value that was not retained ends the command.         *)
Writes(new, next) ==
  /\ \/ /\ Works
        /\ settings' = new
        /\ doing' = [doing EXCEPT !.at = next, !.changed = @ \/ new # settings]
        /\ UNCHANGED <<calls, leaseStatus, record, monitor>>
     \/ Fault /\ settings' \in {settings, new} /\ Fail
  /\ UNCHANGED <<journal, draft, startup, made, deaths, watches, choice>>

RestoreMode ==
  /\ doing.at = "restoreMode"
  /\ Writes([settings EXCEPT !.mode = IF @ = "manual" THEN record.original.mode ELSE @],
            "restoreBlob")

RestoreBlob ==
  /\ doing.at = "restoreBlob"
  /\ Writes([settings EXCEPT !.blob = IF @ = record.target THEN record.original.blob ELSE @],
            "restoreServer")

RestoreServerAlways ==
  doing.at = "restoreServer" /\ Writes([settings EXCEPT !.server = record.original.server], "announce")

RestoreServer ==
  /\ doing.at = "restoreServer"
  /\ Writes([settings EXCEPT !.server =
               IF @ = record.target THEN record.original.server ELSE @], "announce")

(* A notification that fails after a change puts the endpoint back, so     *)
(* that the release can be retried.                                        *)
Announce ==
  /\ doing.at = "announce"
  /\ \/ /\ Works /\ At("check")
        /\ UNCHANGED <<settings, leaseStatus, record, monitor>>
     \/ /\ Fault /\ Fail
        /\ settings' \in {settings} \cup
             {[settings EXCEPT !.server = record.target] :
                c \in {TRUE} \cap {doing.changed /\ settings.server = record.original.server}}
  /\ UNCHANGED <<journal, draft, startup, made, deaths, watches, choice>>

(* The settings are read again: while the endpoint survives the journal    *)
(* stays.                                                                  *)
Check ==
  /\ doing.at = "check"
  /\ \/ Fault /\ Fail
     \/ Works /\ Owns(record) /\ Fail
     \/ Works /\ ~Owns(record) /\ At("clear") /\ UNCHANGED <<leaseStatus, record, monitor>>
  /\ UNCHANGED <<outside, journal, draft, startup, made, deaths, watches>>

(* An acquisition that found the lease of an earlier run goes on.          *)
Clear ==
  /\ doing.at = "clear"
  /\ \/ Fault /\ Fail /\ UNCHANGED journal
     \/ /\ Works /\ journal' = NoRecord /\ doing.op = "acquire"
        /\ leaseStatus' = "acquiring" /\ record' = NoRecord /\ monitor' = 0
        /\ doing' = [doing EXCEPT !.at = "capture", !.changed = FALSE]
        /\ calls' = Stale(calls)
     \/ Works /\ journal' = NoRecord /\ doing.op # "acquire" /\ FinishIdle(calls)
  /\ UNCHANGED <<outside, draft, startup, made, deaths, watches>>
-----------------------------------------------------------------------------
(* The rest of acquire: capture, save, apply, confirm.                     *)

Capture ==
  /\ doing.at = "capture"
  /\ \/ Fault /\ Fail /\ UNCHANGED <<draft, watches>>
     \/ /\ Works /\ At("save")
        /\ draft' = [id |-> doing.id, target |-> doing.target, original |-> settings]
        /\ watches' = 0
        /\ UNCHANGED <<leaseStatus, record, monitor>>
  /\ UNCHANGED <<outside, journal, startup, made, deaths>>

SaveUnconfirmed ==
  /\ doing.at = "save" /\ journal = NoRecord
  /\ draft' = NoRecord /\ record' = draft
  /\ \/ Works /\ journal' = draft
     \/ Fault /\ UNCHANGED journal
  /\ At("applyBlob")
  /\ UNCHANGED <<outside, leaseStatus, monitor, startup, made, deaths, watches>>

(* FileSystemProxyLeaseRecoveryStore.save: it refuses to replace a record, *)
(* renames a finished file, and may still fail after that.                 *)
Save ==
  /\ doing.at = "save"
  /\ draft' = NoRecord
  /\ \/ Works /\ journal # NoRecord /\ Fail /\ UNCHANGED journal
     \/ Fault /\ Fail /\ UNCHANGED journal
     \/ Fault /\ journal = NoRecord /\ Fail /\ journal' = draft
     \/ /\ Works /\ journal = NoRecord
        /\ journal' = draft /\ record' = draft
        /\ At("applyBlob")
        /\ UNCHANGED <<leaseStatus, monitor>>
  /\ UNCHANGED <<outside, startup, made, deaths, watches>>

ApplyBlob ==
  doing.at = "applyBlob" /\ Writes([settings EXCEPT !.blob = record.target], "applyServer")

ApplyServer ==
  doing.at = "applyServer" /\ Writes([settings EXCEPT !.server = record.target], "applyMode")

ApplyMode ==
  doing.at = "applyMode" /\ Writes([settings EXCEPT !.mode = "manual"], "notify")

(* The command announces the change and reads the registry values again.   *)
Notify ==
  /\ doing.at = "notify"
  /\ \/ Fault /\ Fail
     \/ Works /\ ~(settings.server = record.target /\ settings.mode = "manual") /\ Fail
     \/ /\ Works /\ settings.server = record.target /\ settings.mode = "manual"
        /\ At("confirm")
        /\ UNCHANGED <<leaseStatus, record, monitor>>
  /\ UNCHANGED <<outside, journal, draft, startup, made, deaths, watches>>

(* isSnapshotApplied, at the end of acquire and in verifyActive.           *)
Confirm ==
  /\ doing.at \in {"confirm", "verify"}
  /\ \/ Fault /\ Fail
     \/ Works /\ settings # Applied(record) /\ Fail
     \/ /\ Works /\ settings = Applied(record)
        /\ leaseStatus' = "active" /\ Ends
        /\ UNCHANGED <<record, monitor>>
  /\ UNCHANGED <<outside, journal, draft, startup, made, deaths, watches>>

(* The monitor reads the settings, and looks again whether the lease is    *)
(* still its own.                                                          *)
Observe ==
  /\ doing.at = "observe"
  /\ \/ Fault /\ At("drifted")
     \/ Works /\ At(IF settings = Applied(record) THEN "applied" ELSE "drifted")
  /\ UNCHANGED <<outside, journal, leaseStatus, record, monitor, draft, startup, made, deaths,
                 watches>>

SettleOnce ==
  /\ doing.at \in {"applied", "drifted"}
  /\ IF StillOwns(doing) /\ doing.at = "drifted"
       THEN Fail
       ELSE Ends /\ UNCHANGED <<leaseStatus, record, monitor>>
  /\ UNCHANGED <<outside, journal, draft, startup, watches, counters>>

Settle ==
  /\ doing.at \in {"applied", "drifted"}
  /\ \/ ~StillOwns(doing) /\ Ends /\ UNCHANGED <<leaseStatus, record, monitor>>
     \/ /\ StillOwns(doing) /\ doing.at = "applied"
        /\ monitor' = record.id
        /\ calls' = Stale(calls) /\ doing' = Nothing
        /\ UNCHANGED <<leaseStatus, record>>
     \/ StillOwns(doing) /\ doing.at = "drifted" /\ Fail
  /\ UNCHANGED <<outside, journal, draft, startup, watches, counters>>
-----------------------------------------------------------------------------
(* What happens around the lease.                                          *)

(* The user or another program sets its own proxy: all values, or those of *)
(* the registry only.  What comes between the capture and the write of an  *)
(* acquisition is overwritten, and a value equal to Stone+'s own is taken  *)
(* for it: no claim is made about those.                                   *)
Chooses(p, m, b) ==
  /\ p \notin {settings.server, settings.blob}
  /\ \A r \in {journal, record, draft} \ {NoRecord} :
       p \notin {r.original.server, r.original.blob}
  /\ b \in {p, settings.blob}
  /\ settings' = [blob |-> b, server |-> p, mode |-> m]
  /\ choice' = [server |-> IF doing.at \in {"save", "applyBlob", "applyServer"}
                             THEN NoClaim ELSE p,
                all |-> IF \/ doing.at \in {"save", "applyBlob", "applyServer", "applyMode",
                                            "restoreMode"}
                           \/ b \in Endpoint
                          THEN NoClaim ELSE settings']
  /\ UNCHANGED <<journal, memory, startup, counters>>

(* The process dies, and its commands with it.                             *)
ProcessDies ==
  /\ Alive /\ deaths < MaxDeaths
  /\ deaths' = deaths + 1
  /\ startup' = "down"
  /\ leaseStatus' = "idle" /\ record' = NoRecord /\ draft' = NoRecord
  /\ monitor' = 0 /\ watches' = 0
  /\ calls' = <<>> /\ doing' = Nothing
  /\ UNCHANGED <<outside, journal, made, faults>>

(* The application starts: it recovers before anything uses the network,   *)
(* and the orchestrator recovers once more when it initializes.            *)
Starting ==
  /\ doing = Nothing /\ calls = <<>>
  /\ \/ startup = "down" /\ startup' = "first"
     \/ startup = "first" /\ startup' = "second"
  /\ calls' = <<Operation("recover", NoClaim, 0)>>
  /\ UNCHANGED <<outside, journal, leaseStatus, record, monitor, doing, draft, watches, counters>>

Started ==
  /\ startup = "second" /\ doing = Nothing /\ calls = <<>>
  /\ startup' = "done"
  /\ UNCHANGED <<outside, journal, memory, counters>>
-----------------------------------------------------------------------------
Begin == BeginAcquire \/ BeginRelease \/ BeginRecover \/ BeginVerify \/ BeginWatch

Restores ==
  Load \/ Compare \/ RestoreMode \/ RestoreBlob \/ RestoreServer \/ Announce \/ Check \/ Clear

Acquires ==
  Capture \/ Save \/ ApplyBlob \/ ApplyServer \/ ApplyMode \/ Notify \/ Confirm

Proceeds == Begin \/ Restores \/ Acquires \/ Observe \/ Settle

Calls ==
  \/ \E t \in Endpoint : CallAcquire(t) \/ \E id \in 1..MaxLeases : CallVerify(t, id)
  \/ CallRecover \/ CallRelease \/ StartMonitoring

LeaseNext ==
  \/ Proceeds \/ MonitorFires \/ Calls \/ Starting \/ Started \/ ProcessDies
  \/ \E p \in Foreign, m \in Mode : \E b \in {p, settings.blob} : Chooses(p, m, b)

LeaseSpec == LeaseInit /\ [][LeaseNext]_leaseVars

(* The event loop runs on, timers fire and commands end: they have their   *)
(* own time limits.  Nobody has to call, to start the application again or *)
(* to change the settings.                                                 *)
FairLeaseSpec ==
  /\ LeaseSpec
  /\ WF_leaseVars(Proceeds) /\ WF_leaseVars(MonitorFires)
  /\ WF_leaseVars(Alive /\ (Starting \/ Started))
-----------------------------------------------------------------------------
Marked == {settings.server, settings.blob} \cap Endpoint # {}

(* Whenever a part of the settings points at Stone+, in the middle of a    *)
(* command or after any death, the journal on disk names that endpoint and *)
(* settings to go back to that do not point at Stone+ themselves.          *)
TakeoverIsJournaled ==
  Marked =>
    /\ journal # NoRecord
    /\ {settings.server, settings.blob} \cap Endpoint \subseteq {journal.target}
    /\ {journal.original.server, journal.original.blob} \cap Endpoint = {}

(* The proxy that the user or another program chose last is in place, or   *)
(* Stone+ stands before it and the journal remembers it: no release,       *)
(* recovery, retry or monitor puts back an older choice.  And without a    *)
(* journal the settings are wholly those that were chosen.                 *)
ChoiceKept ==
  /\ choice.server # NoClaim =>
       \/ settings.server = choice.server
       \/ /\ settings.server \in Endpoint /\ journal # NoRecord
          /\ journal.original.server = choice.server
  /\ choice.all # NoClaim /\ journal = NoRecord => settings = choice.all

(* A takeover that the application finds when it starts is undone, or the  *)
(* lease reports the error that offers the retry, unless the process dies  *)
(* again.                                                                  *)
OrphanedTakeoverEnds ==
  startup = "first" /\ Marked ~> ~Marked \/ leaseStatus = "error" \/ ~Alive

(* When the settings leave a lease that is published, its monitor notices: *)
(* the lease does not stay active.                                         *)
Drifted == leaseStatus = "active" /\ watches > 0 /\ settings # Applied(record)
DriftIsNoticed == Drifted ~> ~Drifted
=================================================================================
