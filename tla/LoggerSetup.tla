---------------------------- MODULE LoggerSetup ----------------------------
(***************************************************************************)
(* The structured logger: Setup opens a file for every record and one for  *)
(* each level, makes a handler of them the process's default logger and    *)
(* closes the files of the configuration before.  It is called from        *)
(* several places, maybe at once; meanwhile requests log, through the      *)
(* default logger or through the one they were given when they started.    *)
(*                                                                         *)
(* Setup takes the lock twice: once to see whether there is anything to do *)
(* and which files are open, once to install the new ones.  The files are  *)
(* opened, the default logger is swapped and the old files are closed      *)
(* outside it.                                                             *)
(*                                                                         *)
(* What is abstracted.  A configuration is its level and directory (the    *)
(* format plays the same role); a record is its level; stdout, which never *)
(* fails, is left out.                                                     *)
(***************************************************************************)
EXTENDS Integers, Sequences, FiniteSets, Functions

CONSTANTS
  Callers,        \* the goroutines that call Setup
  Requests,       \* the goroutines that log
  orderedLevels,  \* the levels with a file of their own, in the order of the slice
  OtherLevels,    \* levels of records between those
  Dirs,           \* the directories SetDir is called with
  Dir,            \* the default directory
  AppFile,        \* app.log
  MaxSetups       \* bound on the reconfigurations

ASSUME LoggerSetupAssumption ==
  /\ orderedLevels \in Seq(Int) /\ OtherLevels \subseteq Int
  /\ AppFile \notin Range(orderedLevels) /\ MaxSetups \in Nat /\ Dir \in Dirs

VARIABLES
  handlers,   \* the handlers built so far: level, dir, files, those still open
  default,    \* slog's default logger: a handler; 0 is that of the boot
  openFiles,  \* the handler whose files the package keeps; 0: none
  current,    \* the installed level and directory
  initialised,
  dir,        \* SetDir's directory
  calls,      \* the calls of Setup in progress
  logs,       \* what each request is logging, through which logger, and how
              \* that ended: the files it is in, the handlers that missed it
  overlapped  \* history: two calls of Setup were in progress at once

vars == <<handlers, default, openFiles, current, initialised, dir, calls, logs, overlapped>>

Levels == Range(orderedLevels) \cup OtherLevels
FileNames == <<AppFile>> \o orderedLevels
NoFiles == {}
Idle == [pc |-> "idle", level |-> 0, dir |-> Dir, previous |-> 0,
         handler |-> 0]
Silent == [pc |-> "silent", handler |-> 0, level |-> 0, scoped |-> FALSE, into |-> {}, missed |-> {}]

(* The handler 0 writes to stderr. *)
Files(h) == IF h = 0 THEN NoFiles ELSE handlers[h].files
Open(h) == IF h = 0 THEN NoFiles ELSE handlers[h].open

(* Setup has not been called. *)
Init ==
  /\ handlers = <<>> /\ default = 0 /\ openFiles = 0
  /\ dir = Dir
  /\ current = [level |-> 0, dir |-> Dir]
  /\ initialised = FALSE
  /\ calls = [c \in Callers |-> Idle]
  /\ logs = [r \in Requests |-> Silent]
  /\ overlapped = FALSE

-----------------------------------------------------------------------------
(* Setup. *)

Busy(c) == calls[c].pc # "idle"

(* Setup(level): the directory is read, then the first critical section.    *)
(* A change is found or there is nothing to do.                             *)
Call(c, level) ==
  /\ ~Busy(c)
  /\ Len(handlers) + Cardinality({o \in Callers : calls[o].pc \in {"check", "build"}}) < MaxSetups
  /\ calls' = [calls EXCEPT ![c] = [Idle EXCEPT !.pc = "check", !.level = level, !.dir = dir]]
  /\ overlapped' = (overlapped \/ \E o \in Callers : Busy(o))
  /\ UNCHANGED <<handlers, default, openFiles, current, initialised, dir, logs>>

(* Mutant of Check: the files that are open are not remembered. *)
CheckForgets(c) ==
  /\ calls[c].pc = "check"
  /\ LET call == calls[c] IN
     calls' = [calls EXCEPT ![c] =
       IF initialised /\ current = [level |-> call.level, dir |-> call.dir] THEN Idle
       ELSE [call EXCEPT !.pc = "build"]]
  /\ UNCHANGED <<handlers, default, openFiles, current, initialised, dir, logs, overlapped>>

Check(c) ==
  /\ calls[c].pc = "check"
  /\ LET call == calls[c] IN
     calls' = [calls EXCEPT ![c] =
       IF initialised /\ current = [level |-> call.level, dir |-> call.dir] THEN Idle
       ELSE [call EXCEPT !.pc = "build", !.previous = openFiles]]
  /\ UNCHANGED <<handlers, default, openFiles, current, initialised, dir, logs, overlapped>>

(* Mutant of buildHandler: the files opened before the failure stay open. *)
buildHandlerLeaks(level, d, n) ==
  [level |-> level, dir |-> d,
   files |-> IF n = Len(FileNames) THEN Range(FileNames) ELSE NoFiles,
   open |-> {FileNames[i] : i \in 1 .. n}]

(* The files are opened one after the other: n of them could be.  When one  *)
(* cannot, those that were opened are closed and the logger is stdout's.    *)
buildHandler(level, d, n) ==
  LET files == IF n = Len(FileNames) THEN Range(FileNames) ELSE NoFiles
  IN [level |-> level, dir |-> d, files |-> files, open |-> files]

Build(c) ==
  /\ calls[c].pc = "build"
  /\ \E n \in 0 .. Len(FileNames) :
       handlers' = Append(handlers, buildHandler(calls[c].level, calls[c].dir, n))
  /\ calls' = [calls EXCEPT ![c].pc = "install", ![c].handler = Len(handlers')]
  /\ UNCHANGED <<default, openFiles, current, initialised, dir, logs, overlapped>>

(* The second critical section. *)
Install(c) ==
  /\ calls[c].pc = "install"
  /\ current' = [level |-> calls[c].level, dir |-> calls[c].dir]
  /\ openFiles' = calls[c].handler
  /\ initialised' = TRUE
  /\ calls' = [calls EXCEPT ![c].pc = "swap"]
  /\ UNCHANGED <<handlers, default, dir, logs, overlapped>>

SetDefault(c) ==
  /\ calls[c].pc = "swap"
  /\ default' = calls[c].handler
  /\ calls' = [calls EXCEPT ![c].pc = "close"]
  /\ UNCHANGED <<handlers, openFiles, current, initialised, dir, logs, overlapped>>

(* The files that were open at the check are closed one by one, app.log     *)
(* first; closing one again does nothing.                                   *)
Close(c) ==
  /\ calls[c].pc = "close"
  /\ LET p == calls[c].previous IN
     \/ /\ Open(p) = NoFiles
        /\ calls' = [calls EXCEPT ![c] = Idle]
        /\ UNCHANGED handlers
     \/ \E i \in DOMAIN FileNames :
          /\ FileNames[i] \in Open(p) /\ \A j \in 1 .. i - 1 : FileNames[j] \notin Open(p)
          /\ handlers' = [handlers EXCEPT ![p].open = @ \ {FileNames[i]}]
          /\ UNCHANGED calls
  /\ UNCHANGED <<default, openFiles, current, initialised, dir, logs, overlapped>>

(* Tests alone redirect the files, between calls of Setup. *)
SetDir(d) ==
  /\ d # dir /\ \A c \in Callers : ~Busy(c)
  /\ dir' = d
  /\ UNCHANGED <<handlers, default, openFiles, current, initialised, calls, logs, overlapped>>

-----------------------------------------------------------------------------
(* Logging. *)

(* WithRequestID: the request keeps the default logger of this moment.      *)
WithRequestID(r) ==
  /\ logs[r].pc = "silent" /\ ~logs[r].scoped
  /\ logs' = [logs EXCEPT ![r] = Silent, ![r].handler = default, ![r].scoped = TRUE]
  /\ UNCHANGED <<handlers, default, openFiles, current, initialised, dir, calls, overlapped>>

EndRequest(r) ==
  /\ logs[r].pc = "silent" /\ logs[r].scoped
  /\ logs' = [logs EXCEPT ![r] = Silent]
  /\ UNCHANGED <<handlers, default, openFiles, current, initialised, dir, calls, overlapped>>

(* FromContext: the request's logger, or the default one. *)
FromContext(r) == IF logs[r].scoped THEN logs[r].handler ELSE default

Enabled(h, level) == h # 0 /\ level >= handlers[h].level

(* The record goes to the file, through the handler: the write fails when   *)
(* the file is closed, and the error reaches nobody.                        *)
Write(log, file) ==
  LET h == log.handler IN
  IF file \in Open(h) THEN [log EXCEPT !.into = @ \cup {file}]
  ELSE IF file \notin Files(h) THEN log
  ELSE [log EXCEPT !.missed = @ \cup {IF h = default THEN "default" ELSE "stale"}]

HandleCombined(r, level) ==
  LET h == FromContext(r) IN
  /\ logs[r].pc = "silent"
  /\ Enabled(h, level)
  /\ logs' = [logs EXCEPT ![r] =
       Write([@ EXCEPT !.pc = "level", !.handler = h, !.level = level,
                       !.into = {}, !.missed = {}], AppFile)]
  /\ UNCHANGED <<handlers, default, openFiles, current, initialised, dir, calls, overlapped>>

(* Mutant of HandleLevel: the file of the lowest level. *)
HandleLevelBelow(r) ==
  /\ logs[r].pc = "level"
  /\ logs' = [logs EXCEPT ![r] =
       [Write(@, orderedLevels[1]) EXCEPT !.pc = "silent"]]
  /\ UNCHANGED <<handlers, default, openFiles, current, initialised, dir, calls, overlapped>>

(* After the combined log, the file of the record's level, if it has one.   *)
HandleLevel(r) ==
  /\ logs[r].pc = "level"
  /\ logs' = [logs EXCEPT ![r] = [Write(@, @.level) EXCEPT !.pc = "silent"]]
  /\ UNCHANGED <<handlers, default, openFiles, current, initialised, dir, calls, overlapped>>

Next ==
  \/ \E c \in Callers :
       \/ \E level \in Range(orderedLevels) : Call(c, level)
       \/ Check(c) \/ Build(c) \/ Install(c) \/ SetDefault(c) \/ Close(c)
  \/ \E d \in Dirs : SetDir(d)
  \/ \E r \in Requests :
       \/ WithRequestID(r) \/ EndRequest(r) \/ HandleLevel(r)
       \/ \E level \in Levels : HandleCombined(r, level)

Spec == Init /\ [][Next]_vars

-----------------------------------------------------------------------------
(* Properties. *)

Handler ==
  [level : Range(orderedLevels), dir : Dirs, files : {NoFiles, Range(FileNames)},
   open : SUBSET Range(FileNames)]

SetupState ==
  [pc : {"idle", "check", "build", "install", "swap", "close"},
   level : Int, dir : Dirs, previous : Nat, handler : Nat]

LogState ==
  [pc : {"silent", "level"}, handler : Nat, level : Int, scoped : BOOLEAN,
   into : SUBSET Range(FileNames), missed : SUBSET {"stale", "default"}]

TypeOK ==
  /\ handlers \in Seq(Handler)
  /\ \A h \in DOMAIN handlers : handlers[h].open \subseteq handlers[h].files
  /\ default \in 0 .. Len(handlers) /\ openFiles \in 0 .. Len(handlers)
  /\ current \in [level : Int, dir : Dirs] /\ dir \in Dirs
  /\ initialised \in BOOLEAN /\ overlapped \in BOOLEAN
  /\ calls \in [Callers -> SetupState]
  /\ logs \in [Requests -> LogState]
  /\ \A r \in Requests : logs[r].handler \in 0 .. Len(handlers)

Quiet == \A c \in Callers : ~Busy(c)

(* The files the package keeps are open: whoever closes them has replaced   *)
(* them before, even when calls of Setup overlap.                           *)
OwnerOpen == Open(openFiles) = Files(openFiles)

(* As long as no two calls of Setup overlap: when none is in progress, the  *)
(* default logger is the one of the configuration that is installed, its    *)
(* files are those the package keeps, and no other file is left open.  Two  *)
(* overlapping calls can leave a default logger of another configuration,   *)
(* or one that writes to closed files, and files nobody closes.             *)
Settled ==
  Quiet /\ ~overlapped /\ initialised =>
    /\ default = openFiles
    /\ handlers[default].level = current.level /\ handlers[default].dir = current.dir
    /\ \A h \in DOMAIN handlers : h # default => Open(h) = NoFiles

SetupSettles == OwnerOpen /\ Settled

(* A record is in no file but app.log and that of its level.                *)
FilesOfLevel == \A r \in Requests : logs[r].into \subseteq {AppFile, logs[r].level}

(* A record is in its level's file and not in app.log, or the other way     *)
(* around, only if a write missed a file that was closed or no file is for  *)
(* its level.                                                               *)
AppComplete ==
  \A r \in Requests :
    logs[r].pc = "silent" /\ Cardinality(logs[r].into) = 1 =>
      logs[r].missed # {} \/ logs[r].level \in OtherLevels

(* A record misses a file of its handler only when the request logs through *)
(* a logger that is the default no more, which it keeps across Setup; the   *)
(* default logger itself loses records only after overlapping calls.        *)
MissedExplained == \A r \in Requests : "default" \in logs[r].missed => overlapped

(* Where records end up, whenever Setup runs.                               *)
RecordsPlaced == FilesOfLevel /\ AppComplete /\ MissedExplained

-----------------------------------------------------------------------------
(* The inductive strengthening the proofs use. *)

(* A call builds a handler of the configuration it was made for.            *)
CallBuilds(k, built) ==
  /\ k.pc \in {"idle", "check"} => k.previous = 0
  /\ k.pc # "idle" => k.level \in Range(orderedLevels)
  /\ k.previous <= Len(built)
  /\ k.pc \in {"install", "swap", "close"} =>
       /\ k.handler \in DOMAIN built
       /\ built[k.handler].level = k.level /\ built[k.handler].dir = k.dir

CallsBuild == \A c \in Callers : CallBuilds(calls[c], handlers)

(* A handler's files are the package's once, from its installation to the   *)
(* next; what a call closes was given up before.                            *)
InstallsNew(c) ==
  LET h == calls[c].handler IN
  calls[c].pc = "install" =>
    /\ Open(h) = Files(h) /\ h # openFiles
    /\ \A d \in Callers :
         h # calls[d].previous /\ (d # c /\ calls[d].pc = "install" => h # calls[d].handler)

OwnedOnce ==
  /\ initialised <=> openFiles # 0
  /\ openFiles # 0 => /\ handlers[openFiles].level = current.level
                      /\ handlers[openFiles].dir = current.dir
  /\ \A c \in Callers :
       /\ InstallsNew(c)
       /\ calls[c].pc \in {"swap", "close"} =>
            calls[c].previous = 0 \/ calls[c].previous # openFiles

(* Without overlapping calls, who is responsible for the files that are open. *)
Handover ==
  ~overlapped =>
    /\ \A c, d \in Callers : Busy(c) /\ Busy(d) => c = d
    /\ \A c \in Callers :
         /\ calls[c].pc \in {"build", "install"} => calls[c].previous = openFiles
         /\ calls[c].pc = "swap" => calls[c].handler = openFiles
    /\ default = openFiles \/ \E c \in Callers : calls[c].pc = "swap"
    /\ Open(default) = Files(default)
    /\ \A h \in DOMAIN handlers : Open(h) # NoFiles =>
         \/ h = openFiles
         \/ \E c \in Callers :
              \/ calls[c].pc = "install" /\ h = calls[c].handler
              \/ calls[c].pc \in {"swap", "close"} /\ h = calls[c].previous

(* A record goes to the file of its level exactly when it went to app.log,  *)
(* unless a write failed.                                                   *)
BothFiles ==
  \A r \in Requests :
    LET k == logs[r] IN
    /\ k.pc = "level" =>
         /\ k.handler \in DOMAIN handlers /\ k.level \in Levels
         /\ k.into \subseteq {AppFile}
         /\ k.missed = {} => (AppFile \in k.into <=> AppFile \in Files(k.handler))
    /\ k.pc = "silent" =>
         /\ k.into \subseteq {AppFile, k.level}
         /\ k.missed = {} /\ k.level \notin OtherLevels =>
              k.into = {} \/ (k.into = {AppFile, k.level} /\ k.level \in Range(orderedLevels))

LoggerInv ==
  /\ TypeOK
  /\ CallsBuild /\ OwnedOnce /\ Handover
  /\ OwnerOpen
  /\ BothFiles /\ MissedExplained
=============================================================================
