--------------------------- MODULE LoggerSetupProofs ---------------------------
(***************************************************************************)
(* Proofs about LoggerSetup for any callers, requests, directories and     *)
(* list of levels.  LoggerInv is the inductive invariant: each of its      *)
(* parts has a lemma with one step per action.  Building a handler and     *)
(* closing a file, the two steps that change the handlers, have a lemma    *)
(* each that says what they leave alone.                                   *)
(***************************************************************************)
EXTENDS LoggerSetup, FiniteSetTheorems, TLAPS

\* The handlers are numbered from 1; handler 0 is none of them.
LEMMA HandlersType ==
  ASSUME TypeOK
  PROVE  /\ Len(handlers) \in Nat /\ DOMAIN handlers = 1 .. Len(handlers)
         /\ \A h \in DOMAIN handlers :
              /\ h # 0 /\ h \in Nat /\ handlers[h] \in Handler
              /\ Open(h) = handlers[h].open /\ Files(h) = handlers[h].files
         /\ Open(0) = NoFiles /\ Files(0) = NoFiles
  BY DEF TypeOK, Open, Files

\* A step of a call of Setup changes the state of that call alone.
LEMMA CallType ==
  ASSUME TypeOK, NEW c \in Callers, NEW k \in SetupState, calls' = [calls EXCEPT ![c] = k]
  PROVE  /\ calls' \in [Callers -> SetupState] /\ calls'[c] = k
         /\ \A d \in Callers : d # c => calls'[d] = calls[d]
  BY DEF TypeOK

LEMMA IdleType == Idle \in SetupState /\ Idle.pc = "idle" /\ Idle.previous = 0
  BY LoggerSetupAssumption DEF Idle, SetupState

\* A new handler has all its files open, or none, and the others are as before.
LEMMA BuildEffect ==
  ASSUME TypeOK, CallsBuild, NEW c \in Callers, Build(c)
  PROVE  /\ handlers' \in Seq(Handler) /\ Len(handlers') = Len(handlers) + 1
         /\ DOMAIN handlers' = DOMAIN handlers \cup {Len(handlers) + 1}
         /\ Len(handlers) + 1 \notin DOMAIN handlers
         /\ \A h \in DOMAIN handlers : handlers'[h] = handlers[h]
         /\ handlers'[Len(handlers) + 1].level = calls[c].level
         /\ handlers'[Len(handlers) + 1].dir = calls[c].dir
         /\ handlers'[Len(handlers) + 1].open = handlers'[Len(handlers) + 1].files
         /\ calls' \in [Callers -> SetupState]
         /\ calls'[c] = [calls[c] EXCEPT !.pc = "install", !.handler = Len(handlers) + 1]
         /\ \A d \in Callers : d # c => calls'[d] = calls[d]
  <1>1. PICK n \in 0 .. Len(FileNames) :
          handlers' = Append(handlers, buildHandler(calls[c].level, calls[c].dir, n))
    BY DEF Build
  <1> DEFINE new == buildHandler(calls[c].level, calls[c].dir, n)
  <1>2. /\ new \in Handler /\ new.level = calls[c].level /\ new.dir = calls[c].dir
        /\ new.open = new.files
    BY DEF Build, buildHandler, Handler, NoFiles, CallsBuild, CallBuilds, TypeOK, SetupState
  <1> HIDE DEF new
  <1>3. handlers' = Append(handlers, new) /\ handlers \in Seq(Handler)
    BY <1>1 DEF new, TypeOK
  <1>4. /\ handlers' \in Seq(Handler) /\ Len(handlers') = Len(handlers) + 1
        /\ Len(handlers) \in Nat
        /\ DOMAIN handlers = 1 .. Len(handlers) /\ DOMAIN handlers' = 1 .. Len(handlers) + 1
        /\ \A h \in DOMAIN handlers : handlers'[h] = handlers[h]
        /\ handlers'[Len(handlers) + 1] = new
    BY <1>2, <1>3
  <1>5. /\ calls' \in [Callers -> SetupState]
        /\ calls'[c] = [calls[c] EXCEPT !.pc = "install", !.handler = Len(handlers) + 1]
        /\ \A d \in Callers : d # c => calls'[d] = calls[d]
    <2> DEFINE k == [calls[c] EXCEPT !.pc = "install", !.handler = Len(handlers) + 1]
    <2>1. calls' = [calls EXCEPT ![c].pc = "install", ![c].handler = Len(handlers')]
      BY DEF Build
    <2>2. calls' = [calls EXCEPT ![c] = k]
      BY <1>4, <2>1 DEF TypeOK
    <2>3. k \in SetupState
      <3>1. calls[c] \in SetupState
        BY DEF TypeOK
      <3>2. Len(handlers) + 1 \in Nat
        BY <1>4
      <3> QED
        BY <3>1, <3>2 DEF SetupState
    <2> HIDE DEF k
    <2>4. calls' \in [Callers -> SetupState] /\ calls'[c] = k
            /\ \A d \in Callers : d # c => calls'[d] = calls[d]
      BY <2>2, <2>3, CallType
    <2> QED
      BY <2>4 DEF k
  <1> QED
    BY <1>2, <1>4, <1>5

\* Close ends the call once its files are closed, or closes one of them.
LEMMA CloseEffect ==
  ASSUME TypeOK, CallsBuild, NEW c \in Callers, Close(c)
  PROVE  \/ /\ Open(calls[c].previous) = NoFiles
            /\ calls' = [calls EXCEPT ![c] = Idle] /\ UNCHANGED handlers
         \/ /\ calls[c].previous \in DOMAIN handlers /\ UNCHANGED calls
            /\ handlers' \in Seq(Handler) /\ Len(handlers') = Len(handlers)
            /\ DOMAIN handlers' = DOMAIN handlers
            /\ \A h \in DOMAIN handlers : h # calls[c].previous => handlers'[h] = handlers[h]
            /\ \A h \in DOMAIN handlers :
                 /\ handlers'[h].level = handlers[h].level /\ handlers'[h].dir = handlers[h].dir
                 /\ handlers'[h].files = handlers[h].files
                 /\ handlers'[h].open \subseteq handlers[h].open
  <1> DEFINE p == calls[c].previous
  <1>1. CASE Open(p) = NoFiles /\ calls' = [calls EXCEPT ![c] = Idle] /\ UNCHANGED handlers
    BY <1>1
  <1>2. ASSUME NEW i \in DOMAIN FileNames, FileNames[i] \in Open(p), UNCHANGED calls,
               handlers' = [handlers EXCEPT ![p].open = @ \ {FileNames[i]}]
        PROVE  /\ p \in DOMAIN handlers
               /\ handlers' \in Seq(Handler) /\ Len(handlers') = Len(handlers)
               /\ DOMAIN handlers' = DOMAIN handlers
               /\ \A h \in DOMAIN handlers : h # p => handlers'[h] = handlers[h]
               /\ \A h \in DOMAIN handlers :
                    /\ handlers'[h].level = handlers[h].level
                    /\ handlers'[h].dir = handlers[h].dir
                    /\ handlers'[h].files = handlers[h].files
                    /\ handlers'[h].open \subseteq handlers[h].open
    <2>1. p # 0 /\ p \in Nat /\ p <= Len(handlers)
      BY <1>2 DEF Open, NoFiles, TypeOK, SetupState, CallsBuild, CallBuilds
    <2>2. p \in DOMAIN handlers
      BY <2>1, HandlersType
    <2> HIDE DEF p
    <2>3. handlers \in Seq(Handler) /\ \A h \in DOMAIN handlers : handlers[h] \in Handler
      BY DEF TypeOK
    <2> DEFINE shut == [handlers[p] EXCEPT !.open = @ \ {FileNames[i]}]
    <2>4. /\ shut \in Handler /\ shut.level = handlers[p].level /\ shut.dir = handlers[p].dir
          /\ shut.files = handlers[p].files /\ shut.open \subseteq handlers[p].open
      BY <2>2, <2>3 DEF Handler
    <2>5. handlers' = [handlers EXCEPT ![p] = shut]
      BY <1>2, <2>2, <2>3
    <2> HIDE DEF shut
    <2> QED
      BY <2>2, <2>3, <2>4, <2>5
  <1> QED
    BY <1>1, <1>2 DEF Close

\* The steps of Setup and those of the requests share no variable.
SetupStep(c) ==
  \/ \E level \in Range(orderedLevels) : Call(c, level)
  \/ Check(c) \/ Build(c) \/ Install(c) \/ SetDefault(c) \/ Close(c)

LogStep(r) ==
  \/ WithRequestID(r) \/ EndRequest(r) \/ HandleLevel(r)
  \/ \E level \in Levels : HandleCombined(r, level)

setupVars == <<handlers, default, openFiles, current, initialised, dir, calls, overlapped>>

LEMMA StepCases ==
  ASSUME [Next]_vars
  PROVE  \/ \E c \in Callers : SetupStep(c) /\ UNCHANGED <<dir, logs>>
         \/ \E d \in Dirs : SetDir(d)
         \/ \E r \in Requests : LogStep(r) /\ UNCHANGED setupVars
         \/ UNCHANGED vars
  BY DEF Next, SetupStep, LogStep, setupVars, Call, Check, Build, Install, SetDefault, Close,
         WithRequestID, EndRequest, HandleLevel, HandleCombined

\* What Setup reads first, and what it finds in the first critical section.
LEMMA CallEffect ==
  ASSUME TypeOK, NEW c \in Callers, NEW level \in Range(orderedLevels), Call(c, level)
  PROVE  /\ calls' \in [Callers -> SetupState]
         /\ calls'[c].pc = "check" /\ calls'[c].previous = 0 /\ calls'[c].level = level
         /\ \A d \in Callers : d # c => calls'[d] = calls[d]
  <1> DEFINE k == [Idle EXCEPT !.pc = "check", !.level = level, !.dir = dir]
  <1>1. level \in Int
    BY LoggerSetupAssumption DEF Range
  <1>2. k \in SetupState /\ k.pc = "check" /\ k.previous = 0 /\ k.level = level
    BY <1>1, LoggerSetupAssumption DEF Idle, SetupState, TypeOK
  <1>3. calls' = [calls EXCEPT ![c] = k]
    BY DEF Call
  <1> HIDE DEF k
  <1> QED
    BY <1>2, <1>3, CallType

LEMMA CheckEffect ==
  ASSUME TypeOK, NEW c \in Callers, Check(c)
  PROVE  /\ calls' \in [Callers -> SetupState]
         /\ \/ calls'[c] = Idle
            \/ calls'[c] = [calls[c] EXCEPT !.pc = "build", !.previous = openFiles]
         /\ \A d \in Callers : d # c => calls'[d] = calls[d]
  <1> DEFINE k == [calls[c] EXCEPT !.pc = "build", !.previous = openFiles]
  <1>1. k \in SetupState
    <2>1. calls[c] \in SetupState /\ openFiles \in Nat
      BY HandlersType DEF TypeOK
    <2> QED
      BY <2>1 DEF SetupState
  <1>2. calls' = [calls EXCEPT ![c] = Idle] \/ calls' = [calls EXCEPT ![c] = k]
    BY DEF Check
  <1> HIDE DEF k
  <1>3. /\ calls' \in [Callers -> SetupState]
        /\ calls'[c] = Idle \/ calls'[c] = k
        /\ \A d \in Callers : d # c => calls'[d] = calls[d]
    BY <1>1, <1>2, CallType, IdleType
  <1> QED
    BY <1>3 DEF k

\* Install and SetDefault change the phase of the call alone.
LEMMA PhaseEffect ==
  ASSUME TypeOK, NEW c \in Callers, NEW pc \in {"swap", "close"},
         calls' = [calls EXCEPT ![c].pc = pc]
  PROVE  /\ calls' \in [Callers -> SetupState]
         /\ calls'[c].pc = pc /\ calls'[c].level = calls[c].level
         /\ calls'[c].dir = calls[c].dir /\ calls'[c].handler = calls[c].handler
         /\ calls'[c].previous = calls[c].previous
         /\ \A d \in Callers : d # c => calls'[d] = calls[d]
  BY DEF TypeOK, SetupState

-----------------------------------------------------------------------------
(* The types, and what the calls build. *)

\* A write adds the file to those the record is in, or counts it as missed.
LEMMA WriteType ==
  ASSUME TypeOK, NEW k \in LogState, NEW file, k.handler \in 0 .. Len(handlers)
  PROVE  /\ Write(k, file) \in LogState
         /\ Write(k, file).handler = k.handler /\ Write(k, file).level = k.level
         /\ Write(k, file).pc = k.pc /\ Write(k, file).scoped = k.scoped
         /\ Write(k, file).into =
              IF file \in Open(k.handler) THEN k.into \cup {file} ELSE k.into
         /\ Write(k, file).missed =
              IF file \notin Open(k.handler) /\ file \in Files(k.handler)
                THEN k.missed \cup {IF k.handler = default THEN "default" ELSE "stale"}
                ELSE k.missed
  <1>1. Open(k.handler) \subseteq Range(FileNames)
    BY HandlersType DEF Handler, NoFiles
  <1>2. CASE file \in Open(k.handler)
    BY <1>1, <1>2 DEF Write, LogState
  <1>3. CASE file \notin Open(k.handler) /\ file \notin Files(k.handler)
    BY <1>3 DEF Write
  <1>4. CASE file \notin Open(k.handler) /\ file \in Files(k.handler)
    BY <1>4 DEF Write, LogState
  <1> QED
    BY <1>2, <1>3, <1>4

\* What the requests' steps make of their record.
LEMMA LogEffect ==
  ASSUME TypeOK, NEW r \in Requests, LogStep(r)
  PROVE  /\ logs' \in [Requests -> LogState]
         /\ \A q \in Requests : q # r => logs'[q] = logs[q]
         /\ \/ /\ logs'[r].pc = "silent" /\ logs'[r].handler \in 0 .. Len(handlers)
               /\ logs'[r].into = {} /\ logs'[r].missed = {}
            \/ \E k \in LogState :
                 /\ k.pc = "level" /\ k.handler \in DOMAIN handlers
                 /\ k.into = {} /\ k.missed = {} /\ k.level \in Levels
                 /\ logs'[r] = Write(k, AppFile)
            \/ /\ logs[r].pc = "level"
               /\ logs'[r] = [Write(logs[r], logs[r].level) EXCEPT !.pc = "silent"]
  <1>0. /\ logs \in [Requests -> LogState] /\ default \in 0 .. Len(handlers)
        /\ logs[r].handler \in 0 .. Len(handlers) /\ Len(handlers) \in Nat
    BY HandlersType DEF TypeOK
  <1>a. default \in Nat
    BY <1>0
  <1>1. Silent \in LogState /\ Silent.pc = "silent" /\ Silent.handler = 0
          /\ Silent.into = {} /\ Silent.missed = {}
    BY DEF Silent, LogState
  <1>2. CASE WithRequestID(r)
    <2> DEFINE k == [Silent EXCEPT !.handler = default, !.scoped = TRUE]
    <2>1. /\ k \in LogState /\ k.pc = "silent" /\ k.handler = default
          /\ k.into = {} /\ k.missed = {}
      BY <1>a, <1>1 DEF LogState, Silent
    <2>2. logs' = [logs EXCEPT ![r] = k]
      BY <1>0, <1>2 DEF WithRequestID
    <2> HIDE DEF k
    <2> QED
      BY <1>0, <2>1, <2>2
  <1>3. CASE EndRequest(r)
    BY <1>0, <1>1, <1>3 DEF EndRequest
  <1>4. ASSUME NEW level \in Levels, HandleCombined(r, level)
        PROVE  /\ logs' \in [Requests -> LogState]
               /\ \A q \in Requests : q # r => logs'[q] = logs[q]
               /\ \E k \in LogState :
                    /\ k.pc = "level" /\ k.handler \in DOMAIN handlers
                    /\ k.into = {} /\ k.missed = {} /\ k.level \in Levels
                    /\ logs'[r] = Write(k, AppFile)
    <2> DEFINE h == FromContext(r)
               k == [logs[r] EXCEPT !.pc = "level", !.handler = h, !.level = level,
                                    !.into = {}, !.missed = {}]
    <2>1. h \in DOMAIN handlers /\ h \in Nat /\ h \in 0 .. Len(handlers)
      BY <1>0, <1>4, HandlersType DEF HandleCombined, Enabled, FromContext
    <2>2. level \in Int
      <3>1. Range(orderedLevels) \subseteq Int
        BY LoggerSetupAssumption DEF Range
      <3> QED
        BY <3>1, LoggerSetupAssumption DEF Levels
    <2>3. logs' = [logs EXCEPT ![r] = Write(k, AppFile)]
      BY <1>0, <1>4 DEF HandleCombined
    <2> HIDE DEF h
    <2>4. /\ k \in LogState /\ k.pc = "level" /\ k.handler = h /\ k.level = level
          /\ k.into = {} /\ k.missed = {}
      BY <1>0, <2>1, <2>2 DEF LogState
    <2> HIDE DEF k
    <2>5. Write(k, AppFile) \in LogState
      BY <2>1, <2>4, WriteType
    <2> QED
      BY <1>0, <2>1, <2>3, <2>4, <2>5
  <1>5. CASE HandleLevel(r)
    <2>1. Write(logs[r], logs[r].level) \in LogState
      BY <1>0, WriteType
    <2>2. logs' = [logs EXCEPT ![r] = [Write(logs[r], logs[r].level) EXCEPT !.pc = "silent"]]
      BY <1>0, <1>5 DEF HandleLevel
    <2>3. [Write(logs[r], logs[r].level) EXCEPT !.pc = "silent"] \in LogState
      BY <2>1 DEF LogState
    <2> QED
      BY <1>0, <1>5, <2>2, <2>3 DEF HandleLevel
  <1> QED
    BY <1>2, <1>3, <1>4, <1>5 DEF LogStep

LEMMA TypeStep == LoggerInv /\ [Next]_vars => TypeOK'
  <1> SUFFICES ASSUME LoggerInv, [Next]_vars PROVE TypeOK'
    OBVIOUS
  <1>0. TypeOK /\ CallsBuild
    BY DEF LoggerInv
  <1>1. ASSUME NEW c \in Callers, SetupStep(c), UNCHANGED <<dir, logs>> PROVE TypeOK'
    <2>1. ASSUME NEW level \in Range(orderedLevels), Call(c, level) PROVE TypeOK'
      BY <1>0, <1>1, <2>1, CallEffect DEF Call, TypeOK
    <2>2. CASE Check(c)
      BY <1>0, <1>1, <2>2, CheckEffect DEF Check, TypeOK
    <2>3. CASE Build(c)
      <3>1. \A h \in DOMAIN handlers' : handlers'[h].open \subseteq handlers'[h].files
        <4>1. /\ DOMAIN handlers' = DOMAIN handlers \cup {Len(handlers) + 1}
              /\ \A h \in DOMAIN handlers : handlers'[h] = handlers[h]
              /\ handlers'[Len(handlers) + 1].open = handlers'[Len(handlers) + 1].files
          BY <1>0, <2>3, BuildEffect
        <4>2. \A h \in DOMAIN handlers : handlers[h].open \subseteq handlers[h].files
          BY <1>0 DEF TypeOK
        <4> QED
          BY <4>1, <4>2
      <3>2. 0 .. Len(handlers) \subseteq 0 .. Len(handlers')
        <4>1. Len(handlers') = Len(handlers) + 1 /\ Len(handlers) \in Nat
          BY <1>0, <2>3, BuildEffect, HandlersType
        <4> QED
          BY <4>1
      <3> QED
        BY <1>0, <1>1, <2>3, <3>1, <3>2, BuildEffect DEF Build, TypeOK
    <2>4. CASE Install(c)
      <3>1. calls[c].handler \in 0 .. Len(handlers) /\ calls[c] \in SetupState
        BY <1>0, <2>4, HandlersType DEF Install, CallsBuild, CallBuilds, TypeOK
      <3>2. calls[c].level \in Int /\ calls[c].dir \in Dirs
        BY <3>1 DEF SetupState
      <3> QED
        BY <1>0, <1>1, <2>4, <3>1, <3>2, PhaseEffect DEF Install, TypeOK
    <2>5. CASE SetDefault(c)
      <3>1. calls[c].handler \in 0 .. Len(handlers)
        BY <1>0, <2>5, HandlersType DEF SetDefault, CallsBuild, CallBuilds
      <3> QED
        BY <1>0, <1>1, <2>5, <3>1, PhaseEffect DEF SetDefault, TypeOK
    <2>6. CASE Close(c)
      <3>1. /\ handlers' \in Seq(Handler) /\ Len(handlers') = Len(handlers)
            /\ calls' \in [Callers -> SetupState]
        <4>1. ASSUME calls' = [calls EXCEPT ![c] = Idle], UNCHANGED handlers
              PROVE  /\ handlers' \in Seq(Handler) /\ Len(handlers') = Len(handlers)
                     /\ calls' \in [Callers -> SetupState]
          BY <1>0, <4>1, CallType, IdleType DEF TypeOK
        <4> QED
          BY <1>0, <2>6, <4>1, CloseEffect DEF TypeOK
      <3>2. \A h \in DOMAIN handlers' : handlers'[h].open \subseteq handlers'[h].files
        BY <1>0, <2>6, CloseEffect DEF TypeOK
      <3> QED
        BY <1>0, <1>1, <2>6, <3>1, <3>2 DEF Close, TypeOK
    <2> QED
      BY <1>1, <2>1, <2>2, <2>3, <2>4, <2>5, <2>6 DEF SetupStep
  <1>2. ASSUME NEW d \in Dirs, SetDir(d) PROVE TypeOK'
    BY <1>0, <1>2 DEF SetDir, TypeOK
  <1>3. ASSUME NEW r \in Requests, LogStep(r), UNCHANGED setupVars PROVE TypeOK'
    <2>1. logs'[r].handler \in 0 .. Len(handlers)
      <3>1. ASSUME NEW k \in LogState, k.handler \in DOMAIN handlers,
                   logs'[r] = Write(k, AppFile)
            PROVE  logs'[r].handler \in 0 .. Len(handlers)
        <4>1. k.handler \in 0 .. Len(handlers)
          BY <1>0, <3>1, HandlersType
        <4>2. Write(k, AppFile).handler = k.handler
          BY <1>0, <4>1, WriteType
        <4> QED
          BY <3>1, <4>1, <4>2
      <3>2. ASSUME logs'[r] = [Write(logs[r], logs[r].level) EXCEPT !.pc = "silent"]
            PROVE  logs'[r].handler \in 0 .. Len(handlers)
        <4>1. logs[r] \in LogState /\ logs[r].handler \in 0 .. Len(handlers)
          BY <1>0 DEF TypeOK
        <4>2. /\ Write(logs[r], logs[r].level) \in LogState
              /\ Write(logs[r], logs[r].level).handler = logs[r].handler
          BY <1>0, <4>1, WriteType
        <4> QED
          BY <3>2, <4>1, <4>2 DEF LogState
      <3> QED
        BY <1>0, <1>3, <3>1, <3>2, LogEffect
    <2> QED
      BY <1>0, <1>3, <2>1, LogEffect DEF TypeOK, setupVars
  <1>4. CASE UNCHANGED vars
    BY <1>0, <1>4 DEF vars, TypeOK
  <1> QED
    BY <1>1, <1>2, <1>3, <1>4, StepCases

LEMMA CallsBuildStep == LoggerInv /\ [Next]_vars => CallsBuild'
  <1> SUFFICES ASSUME LoggerInv, [Next]_vars PROVE CallsBuild'
    OBVIOUS
  <1>0. TypeOK /\ CallsBuild
    BY DEF LoggerInv
  <1>1. ASSUME NEW c \in Callers, SetupStep(c), UNCHANGED <<dir, logs>> PROVE CallsBuild'
    <2>0. CallBuilds(calls[c], handlers) /\ calls[c] \in SetupState
      BY <1>0 DEF CallsBuild, TypeOK
    <2>1. ASSUME NEW level \in Range(orderedLevels), Call(c, level) PROVE CallsBuild'
      <3>1. CallBuilds(calls'[c], handlers)
        BY <1>0, <2>1, CallEffect, HandlersType DEF CallBuilds
      <3> QED
        BY <1>0, <2>1, <3>1, CallEffect DEF Call, CallsBuild
    <2>2. CASE Check(c)
      <3>1. CallBuilds(Idle, handlers)
        BY <1>0, HandlersType DEF Idle, CallBuilds
      <3>2. CallBuilds([calls[c] EXCEPT !.pc = "build", !.previous = openFiles], handlers)
        <4>1. openFiles <= Len(handlers) /\ calls[c].level \in Range(orderedLevels)
          BY <1>0, <2>0, <2>2, HandlersType DEF Check, CallBuilds, TypeOK
        <4> QED
          BY <2>0, <4>1 DEF CallBuilds, SetupState
      <3> QED
        BY <1>0, <2>2, <3>1, <3>2, CheckEffect DEF Check, CallsBuild
    <2>3. CASE Build(c)
      <3> DEFINE n == Len(handlers) + 1
      <3>1. /\ Len(handlers') = n /\ n \in Nat /\ n \in DOMAIN handlers'
            /\ handlers'[n].level = calls[c].level /\ handlers'[n].dir = calls[c].dir
            /\ DOMAIN handlers \subseteq DOMAIN handlers'
            /\ \A h \in DOMAIN handlers : handlers'[h] = handlers[h]
        <4>1. n \in Nat
          BY <1>0, HandlersType
        <4>2. /\ Len(handlers') = n /\ DOMAIN handlers' = DOMAIN handlers \cup {n}
              /\ handlers'[n].level = calls[c].level /\ handlers'[n].dir = calls[c].dir
              /\ \A h \in DOMAIN handlers : handlers'[h] = handlers[h]
          BY <1>0, <2>3, BuildEffect
        <4> QED
          BY <4>1, <4>2
      <3>2. ASSUME NEW k \in SetupState, CallBuilds(k, handlers) PROVE CallBuilds(k, handlers')
        <4>1. k.previous <= Len(handlers')
          BY <1>0, <3>1, <3>2, HandlersType DEF CallBuilds, SetupState
        <4> QED
          BY <3>1, <3>2, <4>1 DEF CallBuilds
      <3> HIDE DEF n
      <3>3. CallBuilds([calls[c] EXCEPT !.pc = "install", !.handler = n], handlers')
        <4>1. CallBuilds(calls[c], handlers') /\ calls[c].pc = "build"
          BY <2>0, <2>3, <3>2 DEF Build
        <4> QED
          BY <2>0, <3>1, <4>1 DEF CallBuilds, SetupState
      <3>4. calls'[c] = [calls[c] EXCEPT !.pc = "install", !.handler = n]
        BY <1>0, <2>3, BuildEffect DEF n
      <3>5. \A d \in Callers : d # c => calls'[d] = calls[d] /\ CallBuilds(calls[d], handlers')
        BY <1>0, <2>3, <3>2, BuildEffect DEF CallsBuild, TypeOK
      <3> QED
        BY <3>3, <3>4, <3>5 DEF CallsBuild
    <2>4. CASE Install(c)
      BY <1>0, <2>4, PhaseEffect DEF Install, CallsBuild, CallBuilds
    <2>5. CASE SetDefault(c)
      BY <1>0, <2>5, PhaseEffect DEF SetDefault, CallsBuild, CallBuilds
    <2>6. CASE Close(c)
      <3>1. CASE calls' = [calls EXCEPT ![c] = Idle] /\ UNCHANGED handlers
        BY <1>0, <3>1, CallType, IdleType, HandlersType DEF CallsBuild, CallBuilds
      <3> QED
        BY <1>0, <2>6, <3>1, CloseEffect DEF CallsBuild, CallBuilds
    <2> QED
      BY <1>1, <2>1, <2>2, <2>3, <2>4, <2>5, <2>6 DEF SetupStep
  <1>2. ASSUME NEW d \in Dirs, SetDir(d) PROVE CallsBuild'
    BY <1>0, <1>2 DEF SetDir, CallsBuild
  <1>3. CASE UNCHANGED setupVars
    BY <1>0, <1>3 DEF setupVars, CallsBuild
  <1> QED
    BY <1>1, <1>2, <1>3, StepCases DEF vars, setupVars

-----------------------------------------------------------------------------
(* Whose files are open. *)

\* The handlers a step of Setup keeps: what it closes is not the package's.
LEMMA OwnedStep == LoggerInv /\ [Next]_vars => OwnedOnce' /\ OwnerOpen'
  <1> SUFFICES ASSUME LoggerInv, [Next]_vars PROVE OwnedOnce' /\ OwnerOpen'
    OBVIOUS
  <1>0. /\ TypeOK /\ CallsBuild /\ OwnedOnce /\ OwnerOpen
        /\ openFiles \in 0 .. Len(handlers) /\ Len(handlers) \in Nat
        /\ DOMAIN handlers = 1 .. Len(handlers)
    BY HandlersType DEF LoggerInv, TypeOK
  <1>a. \A d \in Callers : calls[d].previous <= Len(handlers) /\ calls[d].previous \in Nat
    BY <1>0 DEF CallsBuild, CallBuilds, TypeOK, SetupState
  <1>b. \A d \in Callers : calls[d].pc = "install" => calls[d].handler \in DOMAIN handlers
    BY <1>0 DEF CallsBuild, CallBuilds
  <1>1. ASSUME NEW c \in Callers, SetupStep(c), UNCHANGED <<dir, logs>>
        PROVE  OwnedOnce' /\ OwnerOpen'
    <2>1. ASSUME NEW level \in Range(orderedLevels), Call(c, level)
          PROVE  OwnedOnce' /\ OwnerOpen'
      <3>1. /\ calls'[c].pc = "check" /\ calls'[c].previous = 0
            /\ \A d \in Callers : d # c => calls'[d] = calls[d]
        BY <1>0, <2>1, CallEffect
      <3>2. UNCHANGED <<handlers, openFiles, initialised, current>>
        BY <2>1 DEF Call
      <3> QED
        BY <1>0, <1>b, <3>1, <3>2 DEF OwnedOnce, InstallsNew, OwnerOpen, Open, Files
    <2>2. CASE Check(c)
      <3>1. /\ calls'[c].pc \in {"idle", "build"}
            /\ calls'[c].previous = 0 \/ calls'[c].previous = openFiles
            /\ \A d \in Callers : d # c => calls'[d] = calls[d]
        <4>1. calls[c] \in SetupState
          BY <1>0 DEF TypeOK
        <4> DEFINE k == [calls[c] EXCEPT !.pc = "build", !.previous = openFiles]
        <4>2. k.pc = "build" /\ k.previous = openFiles
          BY <4>1 DEF SetupState
        <4>3. /\ calls'[c] = Idle \/ calls'[c] = k
              /\ \A d \in Callers : d # c => calls'[d] = calls[d]
          BY <1>0, <2>2, CheckEffect
        <4> HIDE DEF k
        <4> QED
          BY <4>2, <4>3, IdleType
      <3>2. UNCHANGED <<handlers, openFiles, initialised, current>>
        BY <2>2 DEF Check
      <3> QED
        BY <1>0, <1>b, <3>1, <3>2 DEF OwnedOnce, InstallsNew, OwnerOpen, Open, Files
    <2>3. CASE Build(c)
      <3> DEFINE n == Len(handlers) + 1
      <3>1. /\ n \notin 0 .. Len(handlers) /\ n # 0
            /\ \A d \in Callers : n # calls[d].previous
            /\ \A d \in Callers : calls[d].pc = "install" => n # calls[d].handler
            /\ n # openFiles
        BY <1>0, <1>a, <1>b
      <3>2. /\ \A h \in DOMAIN handlers : handlers'[h] = handlers[h]
            /\ handlers'[n].open = handlers'[n].files
            /\ calls'[c] = [calls[c] EXCEPT !.pc = "install", !.handler = n]
            /\ \A d \in Callers : d # c => calls'[d] = calls[d]
        BY <1>0, <2>3, BuildEffect
      <3> HIDE DEF n
      <3>3. /\ calls'[c].pc = "install" /\ calls'[c].handler = n
            /\ calls'[c].previous = calls[c].previous
        BY <1>0, <3>2 DEF TypeOK, SetupState
      <3>4. UNCHANGED <<openFiles, initialised, current>>
        BY <2>3 DEF Build
      <3>6. OwnerOpen'
        BY <1>0, <3>4, <3>2 DEF OwnerOpen, Open, Files
      <3>7. OwnedOnce'
        <4>1. /\ initialised' <=> openFiles' # 0
              /\ openFiles' # 0 => /\ handlers'[openFiles'].level = current'.level
                                   /\ handlers'[openFiles'].dir = current'.dir
          BY <1>0, <3>2, <3>4 DEF OwnedOnce, InstallsNew
        <4>2. InstallsNew(c)'
          <5>1. handlers'[n].open = handlers'[n].files /\ n # openFiles'
            BY <3>1, <3>2, <3>4
          <5>2. \A d \in Callers :
                  /\ n # calls'[d].previous
                  /\ d # c /\ calls'[d].pc = "install" => n # calls'[d].handler
            BY <3>1, <3>2, <3>3
          <5> QED
            BY <3>1, <3>3, <5>1, <5>2 DEF InstallsNew, Open, Files
        <4>4. ASSUME NEW e \in Callers, e # c PROVE InstallsNew(e)'
          <5>1. CASE calls[e].pc = "install"
            <6> DEFINE h == calls[e].handler
            <6>1. calls'[e] = calls[e] /\ h \in DOMAIN handlers /\ h # n
              BY <1>b, <3>1, <3>2, <4>4, <5>1
            <6>2. /\ handlers[h].open = handlers[h].files /\ h # openFiles
                  /\ \A d \in Callers : /\ h # calls[d].previous
                                        /\ d # e /\ calls[d].pc = "install" => h # calls[d].handler
              BY <1>0, <5>1, <6>1 DEF OwnedOnce, InstallsNew, Open, Files
            <6>3. handlers'[h] = handlers[h] /\ openFiles' = openFiles
              BY <3>2, <3>4, <6>1
            <6>4. ASSUME NEW d \in Callers
                  PROVE  /\ h # calls'[d].previous
                         /\ d # e /\ calls'[d].pc = "install" => h # calls'[d].handler
              <7> HIDE DEF h
              <7>1. CASE d = c
                BY <3>3, <6>1, <6>2, <7>1
              <7>2. CASE d # c
                <8>1. calls'[d] = calls[d]
                  BY <3>2, <7>2
                <8> QED
                  BY <6>2, <8>1
              <7> QED
                BY <7>1, <7>2
            <6> QED
              BY <1>0, <6>1, <6>2, <6>3, <6>4 DEF InstallsNew, Open, Files
          <5> QED
            BY <3>2, <4>4, <5>1 DEF InstallsNew
        <4>3. ASSUME NEW e \in Callers, calls'[e].pc \in {"swap", "close"}
              PROVE  calls'[e].previous = 0 \/ calls'[e].previous # openFiles'
          BY <1>0, <3>2, <3>3, <3>4, <4>3 DEF OwnedOnce, InstallsNew
        <4> QED
          BY <4>1, <4>2, <4>3, <4>4 DEF OwnedOnce
      <3> QED
        BY <3>6, <3>7
    <2>4. CASE Install(c)
      <3>1. /\ calls'[c].pc = "swap" /\ calls'[c].previous = calls[c].previous
            /\ calls'[c].handler = calls[c].handler
            /\ \A d \in Callers : d # c => calls'[d] = calls[d]
        BY <1>0, <2>4, PhaseEffect DEF Install
      <3>2. /\ calls[c].pc = "install" /\ openFiles' = calls[c].handler /\ initialised' = TRUE
            /\ current' = [level |-> calls[c].level, dir |-> calls[c].dir]
            /\ UNCHANGED handlers
        BY <2>4 DEF Install
      <3>3. /\ calls[c].handler \in DOMAIN handlers
            /\ handlers[calls[c].handler].level = calls[c].level
            /\ handlers[calls[c].handler].dir = calls[c].dir
        BY <1>0, <3>2 DEF CallsBuild, CallBuilds
      <3>4. OwnerOpen'
        BY <1>0, <3>2 DEF OwnedOnce, InstallsNew, OwnerOpen, Open, Files
      <3>5. OwnedOnce'
        BY <1>0, <3>1, <3>2, <3>3 DEF OwnedOnce, InstallsNew, Open, Files
      <3> QED
        BY <3>4, <3>5
    <2>5. CASE SetDefault(c)
      BY <1>0, <2>5, PhaseEffect DEF SetDefault, OwnedOnce, InstallsNew, OwnerOpen, Open, Files
    <2>6. CASE Close(c)
      <3>1. CASE calls' = [calls EXCEPT ![c] = Idle] /\ UNCHANGED handlers
        <4>1. /\ calls'[c].pc = "idle" /\ calls'[c].previous = 0
              /\ \A d \in Callers : d # c => calls'[d] = calls[d]
          BY <1>0, <3>1, CallType, IdleType
        <4>2. UNCHANGED <<handlers, openFiles, initialised, current>>
          BY <2>6, <3>1 DEF Close
        <4> QED
          BY <1>0, <1>b, <4>1, <4>2 DEF OwnedOnce, InstallsNew, OwnerOpen, Open, Files
      <3>2. CASE UNCHANGED calls
        <4>1. /\ calls[c].previous = 0 \/ calls[c].previous # openFiles
              /\ UNCHANGED <<openFiles, initialised, current>>
          BY <1>0, <2>6 DEF Close, OwnedOnce, InstallsNew
        <4>2. \/ UNCHANGED handlers
              \/ /\ calls[c].previous \in DOMAIN handlers
                 /\ \A h \in DOMAIN handlers : h # calls[c].previous => handlers'[h] = handlers[h]
          BY <1>0, <2>6, CloseEffect
        <4>3. \A h \in DOMAIN handlers : h # calls[c].previous => handlers'[h] = handlers[h]
          BY <4>2
        <4>4. openFiles # 0 => handlers'[openFiles] = handlers[openFiles]
          BY <1>0, <4>1, <4>2
        <4>5. OwnerOpen'
          BY <1>0, <4>1, <4>4 DEF OwnerOpen, Open, Files
        <4>6. ASSUME NEW e \in Callers, calls[e].pc = "install"
              PROVE  /\ handlers'[calls[e].handler] = handlers[calls[e].handler]
                     /\ calls[e].handler # 0
          BY <1>0, <1>b, <4>3, <4>6 DEF OwnedOnce, InstallsNew
        <4>7. OwnedOnce'
          BY <1>0, <3>2, <4>1, <4>4, <4>6 DEF OwnedOnce, InstallsNew, Open, Files
        <4> QED
          BY <4>5, <4>7
      <3> QED
        BY <1>0, <2>6, <3>1, <3>2, CloseEffect
    <2> QED
      BY <1>1, <2>1, <2>2, <2>3, <2>4, <2>5, <2>6 DEF SetupStep
  <1>2. ASSUME NEW d \in Dirs, SetDir(d) PROVE OwnedOnce' /\ OwnerOpen'
    BY <1>0, <1>2 DEF SetDir, OwnedOnce, InstallsNew, OwnerOpen, Open, Files
  <1>3. CASE UNCHANGED setupVars
    BY <1>0, <1>3 DEF setupVars, OwnedOnce, InstallsNew, OwnerOpen, Open, Files
  <1> QED
    BY <1>1, <1>2, <1>3, StepCases DEF vars, setupVars

\* Without overlapping calls, only the call in progress has files to give up.
LEMMA HandoverStep == LoggerInv /\ [Next]_vars => Handover'
  <1> SUFFICES ASSUME LoggerInv, [Next]_vars, ~overlapped' PROVE Handover'
    BY DEF Handover
  <1>0. /\ TypeOK /\ CallsBuild /\ OwnedOnce /\ OwnerOpen
        /\ openFiles \in 0 .. Len(handlers) /\ default \in 0 .. Len(handlers)
        /\ Len(handlers) \in Nat /\ DOMAIN handlers = 1 .. Len(handlers)
    BY HandlersType DEF LoggerInv, TypeOK
  <1> DEFINE Accounted(h) ==
               \/ h = openFiles
               \/ \E e \in Callers :
                    \/ calls[e].pc = "install" /\ h = calls[e].handler
                    \/ calls[e].pc \in {"swap", "close"} /\ h = calls[e].previous
             Parts ==
               /\ \A d, e \in Callers : Busy(d) /\ Busy(e) => d = e
               /\ \A e \in Callers :
                    /\ calls[e].pc \in {"build", "install"} => calls[e].previous = openFiles
                    /\ calls[e].pc = "swap" => calls[e].handler = openFiles
               /\ default = openFiles \/ \E e \in Callers : calls[e].pc = "swap"
               /\ Open(default) = Files(default)
               /\ \A h \in DOMAIN handlers : Open(h) # NoFiles => Accounted(h)
  <1>a. Handover <=> (~overlapped => Parts)
    BY DEF Handover
  <1>1. ASSUME NEW c \in Callers, SetupStep(c), UNCHANGED <<dir, logs>> PROVE Parts'
    <2>0. ~overlapped /\ Parts
      <3>1. ~overlapped
        BY <1>1 DEF SetupStep, Call, Check, Build, Install, SetDefault, Close
      <3> QED
        BY <1>a, <3>1 DEF LoggerInv
    <2> HIDE DEF Parts
    <2>a. ASSUME Busy(c) PROVE \A e \in Callers : e # c => calls[e].pc = "idle"
      BY <2>0, <2>a DEF Parts, Busy
    <2>b. ASSUME NEW k, calls'[c] = k, \A e \in Callers : e # c => calls'[e] = calls[e],
                 \A e \in Callers : e # c => calls[e].pc = "idle",
                 k.pc \in {"build", "install"} => k.previous = openFiles',
                 k.pc = "swap" => k.handler = openFiles',
                 default' = openFiles' \/ k.pc = "swap",
                 Open(default)' = Files(default)',
                 \A h \in DOMAIN handlers' : handlers'[h].open # NoFiles =>
                   \/ h = openFiles'
                   \/ k.pc = "install" /\ h = k.handler
                   \/ k.pc \in {"swap", "close"} /\ h = k.previous
          PROVE  Parts'
      <3>1. \A e \in Callers : calls'[e].pc # "idle" => e = c
        BY <2>b
      <3>2. \A d, e \in Callers : Busy(d)' /\ Busy(e)' => d = e
        BY <3>1 DEF Busy
      <3>3. ASSUME NEW h \in DOMAIN handlers', Open(h)' # NoFiles PROVE Accounted(h)'
        <4>1. handlers'[h].open # NoFiles
          BY <3>3 DEF Open
        <4> QED
          BY <2>b, <4>1
      <3> QED
        BY <2>b, <3>1, <3>2, <3>3 DEF Parts
    <2>c. ASSUME \A e \in Callers : e # c => calls[e].pc = "idle"
          PROVE  /\ default = openFiles \/ calls[c].pc = "swap"
                 /\ \A h \in DOMAIN handlers : handlers[h].open # NoFiles =>
                      \/ h = openFiles
                      \/ calls[c].pc = "install" /\ h = calls[c].handler
                      \/ calls[c].pc \in {"swap", "close"} /\ h = calls[c].previous
      BY <1>0, <2>0, <2>c, HandlersType DEF Parts
    <2>d. /\ Open(default) = Files(default)
          /\ calls[c].pc \in {"build", "install"} => calls[c].previous = openFiles
          /\ calls[c].pc = "swap" => calls[c].handler = openFiles
      BY <2>0 DEF Parts
    <2>1. ASSUME NEW level \in Range(orderedLevels), Call(c, level) PROVE Parts'
      <3>1. /\ calls'[c].pc = "check" /\ \A e \in Callers : e # c => calls'[e] = calls[e]
        BY <1>0, <2>1, CallEffect
      <3>2. \A e \in Callers : calls[e].pc = "idle"
        BY <2>1 DEF Call, Busy
      <3>3. UNCHANGED <<handlers, default, openFiles>>
        BY <2>1 DEF Call
      <3> QED
        BY <2>b, <2>c, <2>d, <3>1, <3>2, <3>3 DEF Open, Files
    <2>2. CASE Check(c)
      <3>1. /\ \/ calls'[c].pc = "idle"
               \/ calls'[c].pc = "build" /\ calls'[c].previous = openFiles
            /\ \A e \in Callers : e # c => calls'[e] = calls[e]
        <4>1. calls[c] \in SetupState
          BY <1>0 DEF TypeOK
        <4> DEFINE k == [calls[c] EXCEPT !.pc = "build", !.previous = openFiles]
        <4>2. k.pc = "build" /\ k.previous = openFiles
          BY <4>1 DEF SetupState
        <4>3. /\ calls'[c] = Idle \/ calls'[c] = k
              /\ \A e \in Callers : e # c => calls'[e] = calls[e]
          BY <1>0, <2>2, CheckEffect
        <4> HIDE DEF k
        <4> QED
          BY <4>2, <4>3, IdleType
      <3>2. calls[c].pc = "check" /\ UNCHANGED <<handlers, default, openFiles>>
        BY <2>2 DEF Check
      <3>3. \A e \in Callers : e # c => calls[e].pc = "idle"
        BY <2>a, <3>2 DEF Busy
      <3> QED
        BY <2>b, <2>c, <2>d, <3>1, <3>2, <3>3 DEF Open, Files
    <2>3. CASE Build(c)
      <3> DEFINE n == Len(handlers) + 1
      <3>1. /\ n # default
            /\ DOMAIN handlers' = DOMAIN handlers \cup {n}
            /\ \A h \in DOMAIN handlers : handlers'[h] = handlers[h]
            /\ calls'[c] = [calls[c] EXCEPT !.pc = "install", !.handler = n]
            /\ \A e \in Callers : e # c => calls'[e] = calls[e]
        <4>1. n # default
          BY <1>0
        <4> QED
          BY <1>0, <2>3, <4>1, BuildEffect
      <3> HIDE DEF n
      <3>2. calls'[c].pc = "install" /\ calls'[c].handler = n
              /\ calls'[c].previous = calls[c].previous
        BY <1>0, <3>1 DEF TypeOK, SetupState
      <3>3. calls[c].pc = "build" /\ UNCHANGED <<default, openFiles>>
        BY <2>3 DEF Build
      <3>4. \A e \in Callers : e # c => calls[e].pc = "idle"
        BY <2>a, <3>3 DEF Busy
      <3>5. Open(default)' = Files(default)'
        BY <1>0, <2>d, <3>1, <3>3 DEF Open, Files
      <3>6. \A h \in DOMAIN handlers' : handlers'[h].open # NoFiles =>
              h = openFiles' \/ h = calls'[c].handler
        BY <2>c, <3>1, <3>2, <3>3, <3>4
      <3> QED
        BY <2>b, <2>c, <2>d, <3>1, <3>2, <3>3, <3>4, <3>5, <3>6
    <2>4. CASE Install(c)
      <3>1. /\ calls'[c].pc = "swap" /\ calls'[c].handler = calls[c].handler
            /\ calls'[c].previous = calls[c].previous
            /\ \A e \in Callers : e # c => calls'[e] = calls[e]
        BY <1>0, <2>4, PhaseEffect DEF Install
      <3>2. /\ calls[c].pc = "install" /\ openFiles' = calls[c].handler
            /\ UNCHANGED <<handlers, default>>
        BY <2>4 DEF Install
      <3>3. \A e \in Callers : e # c => calls[e].pc = "idle"
        BY <2>a, <3>2 DEF Busy
      <3> QED
        BY <2>b, <2>c, <2>d, <3>1, <3>2, <3>3 DEF Open, Files
    <2>5. CASE SetDefault(c)
      <3>1. /\ calls'[c].pc = "close" /\ calls'[c].previous = calls[c].previous
            /\ \A e \in Callers : e # c => calls'[e] = calls[e]
        BY <1>0, <2>5, PhaseEffect DEF SetDefault
      <3>2. /\ calls[c].pc = "swap" /\ default' = calls[c].handler
            /\ UNCHANGED <<handlers, openFiles>>
        BY <2>5 DEF SetDefault
      <3>3. \A e \in Callers : e # c => calls[e].pc = "idle"
        BY <2>a, <3>2 DEF Busy
      <3>4. default' = openFiles
        BY <2>d, <3>2
      <3>5. Open(default)' = Files(default)'
        BY <1>0, <3>2, <3>4 DEF OwnerOpen, Open, Files
      <3> QED
        BY <2>b, <2>c, <2>d, <3>1, <3>2, <3>3, <3>4, <3>5
    <2>6. CASE Close(c)
      <3>1. calls[c].pc = "close" /\ UNCHANGED <<default, openFiles>>
        BY <2>6 DEF Close
      <3>2. \A e \in Callers : e # c => calls[e].pc = "idle"
        BY <2>a, <3>1 DEF Busy
      <3>3. default = openFiles /\ (calls[c].previous = 0 \/ calls[c].previous # openFiles)
        BY <1>0, <2>c, <3>1, <3>2 DEF OwnedOnce
      <3>4. CASE /\ Open(calls[c].previous) = NoFiles
                 /\ calls' = [calls EXCEPT ![c] = Idle] /\ UNCHANGED handlers
        <4>1. calls'[c].pc = "idle" /\ \A e \in Callers : e # c => calls'[e] = calls[e]
          BY <1>0, <3>4, CallType, IdleType
        <4>2. \A h \in DOMAIN handlers : handlers[h].open # NoFiles => h = openFiles
          BY <1>0, <2>c, <3>1, <3>2, <3>4, HandlersType
        <4> QED
          BY <2>b, <2>d, <3>1, <3>2, <3>3, <3>4, <4>1, <4>2 DEF Open, Files
      <3>5. CASE /\ calls[c].previous \in DOMAIN handlers /\ UNCHANGED calls
                 /\ DOMAIN handlers' = DOMAIN handlers
                 /\ \A h \in DOMAIN handlers : h # calls[c].previous => handlers'[h] = handlers[h]
                 /\ \A h \in DOMAIN handlers : handlers'[h].open \subseteq handlers[h].open
        <4>1. Open(default)' = Files(default)'
          BY <1>0, <2>d, <3>1, <3>3, <3>5 DEF Open, Files
        <4>2. \A h \in DOMAIN handlers' : handlers'[h].open # NoFiles =>
                h = openFiles' \/ h = calls[c].previous
          BY <2>c, <3>1, <3>2, <3>5 DEF NoFiles
        <4> QED
          BY <2>b, <3>1, <3>2, <3>3, <3>5, <4>1, <4>2
      <3> QED
        BY <1>0, <2>6, <3>4, <3>5, CloseEffect
    <2> QED
      BY <1>1, <2>1, <2>2, <2>3, <2>4, <2>5, <2>6 DEF SetupStep
  <1>2. CASE UNCHANGED <<handlers, default, openFiles, calls, overlapped>>
    <2>1. ~overlapped /\ Handover
      BY <1>2 DEF LoggerInv
    <2> QED
      BY <1>2, <2>1 DEF Handover, Busy, Open, Files
  <1> QED
    <2>1. Parts' => Handover'
      BY DEF Handover
    <2> HIDE DEF Parts
    <2>2. ASSUME NEW d \in Dirs, SetDir(d) PROVE Handover'
      BY <1>2, <2>2 DEF SetDir
    <2>3. UNCHANGED vars \/ UNCHANGED setupVars => Handover'
      BY <1>2 DEF vars, setupVars
    <2> QED
      BY <1>1, <2>1, <2>2, <2>3, StepCases

-----------------------------------------------------------------------------
(* Where records go. *)

\* app.log and the file of each level are among a handler's files, or none is.
LEMMA FilesTogether ==
  ASSUME TypeOK, NEW h \in DOMAIN handlers, NEW level \in Range(orderedLevels)
  PROVE  AppFile \in Files(h) <=> level \in Files(h)
  <1>1. AppFile \in Range(FileNames)
    <2>1. 1 \in DOMAIN FileNames /\ FileNames[1] = AppFile
      BY LoggerSetupAssumption DEF FileNames
    <2> QED
      BY <2>1 DEF Range
  <1>2. level \in Range(FileNames)
    <2>1. PICK i \in DOMAIN orderedLevels : level = orderedLevels[i]
      BY DEF Range
    <2>2. i + 1 \in DOMAIN FileNames /\ FileNames[i + 1] = level
      BY <2>1, LoggerSetupAssumption DEF FileNames
    <2> QED
      BY <2>2 DEF Range
  <1>3. handlers[h].files \in {NoFiles, Range(FileNames)} /\ Files(h) = handlers[h].files
    BY HandlersType DEF Handler
  <1> QED
    BY <1>1, <1>2, <1>3 DEF NoFiles

\* The handlers keep their files.
LEMMA FilesKept ==
  ASSUME LoggerInv, NEW c \in Callers, SetupStep(c)
  PROVE  /\ DOMAIN handlers \subseteq DOMAIN handlers'
         /\ \A h \in DOMAIN handlers : handlers'[h].files = handlers[h].files
  <1>0. TypeOK /\ CallsBuild
    BY DEF LoggerInv
  <1>1. CASE Build(c)
    BY <1>0, <1>1, BuildEffect
  <1>2. CASE Close(c)
    BY <1>0, <1>2, CloseEffect
  <1>3. CASE UNCHANGED handlers
    BY <1>3
  <1> QED
    BY <1>1, <1>2, <1>3 DEF SetupStep, Call, Check, Install, SetDefault

\* A record goes to the file of its level exactly when it went to app.log,
\* unless a write failed.
LEMMA BothFilesStep == LoggerInv /\ [Next]_vars => BothFiles'
  <1> SUFFICES ASSUME LoggerInv, [Next]_vars PROVE BothFiles'
    OBVIOUS
  <1>0. TypeOK /\ BothFiles
    BY DEF LoggerInv
  <1>1. ASSUME NEW c \in Callers, SetupStep(c), UNCHANGED <<dir, logs>> PROVE BothFiles'
    <2>1. ASSUME NEW r \in Requests, logs[r].pc = "level"
          PROVE  /\ logs[r].handler \in DOMAIN handlers'
                 /\ handlers'[logs[r].handler].files = handlers[logs[r].handler].files
      BY <1>0, <1>1, <2>1, FilesKept DEF BothFiles
    <2> QED
      BY <1>0, <1>1, <2>1 DEF BothFiles, Files
  <1>2. ASSUME NEW r \in Requests, LogStep(r), UNCHANGED setupVars PROVE BothFiles'
    <2>0. \A q \in Requests : q # r => logs'[q] = logs[q]
      BY <1>0, <1>2, LogEffect
    <2>1. /\ UNCHANGED handlers /\ \A h : Files(h)' = Files(h) /\ Open(h)' = Open(h)
      BY <1>2 DEF setupVars, Files, Open
    <2>2. CASE logs'[r].pc = "silent" /\ logs'[r].into = {} /\ logs'[r].missed = {}
      BY <1>0, <2>0, <2>1, <2>2 DEF BothFiles, Files
    <2>3. ASSUME NEW k \in LogState, k.pc = "level", k.handler \in DOMAIN handlers,
                 k.into = {}, k.missed = {}, k.level \in Levels, logs'[r] = Write(k, AppFile)
          PROVE  BothFiles'
      <3>1. k.handler \in 0 .. Len(handlers)
        BY <1>0, <2>3, HandlersType
      <3>2. /\ logs'[r].handler = k.handler /\ logs'[r].level = k.level
            /\ logs'[r].pc = k.pc
            /\ logs'[r].into = IF AppFile \in Open(k.handler) THEN k.into \cup {AppFile}
                                                              ELSE k.into
            /\ logs'[r].missed =
                 IF AppFile \notin Open(k.handler) /\ AppFile \in Files(k.handler)
                   THEN k.missed \cup {IF k.handler = default THEN "default" ELSE "stale"}
                   ELSE k.missed
        <4> DEFINE w == Write(k, AppFile)
        <4>1. /\ w.handler = k.handler /\ w.level = k.level /\ w.pc = k.pc
              /\ w.into = IF AppFile \in Open(k.handler) THEN k.into \cup {AppFile} ELSE k.into
              /\ w.missed =
                   IF AppFile \notin Open(k.handler) /\ AppFile \in Files(k.handler)
                     THEN k.missed \cup {IF k.handler = default THEN "default" ELSE "stale"}
                     ELSE k.missed
          BY <1>0, <3>1, WriteType
        <4>2. logs'[r] = w
          BY <2>3
        <4> HIDE DEF w
        <4> QED
          BY <4>1, <4>2
      <3>3. Open(k.handler) \subseteq Files(k.handler)
        BY <1>0, <2>3, HandlersType DEF TypeOK
      <3> QED
        BY <1>0, <2>0, <2>1, <2>3, <3>2, <3>3 DEF BothFiles, Files
    <2>4. CASE /\ logs[r].pc = "level"
               /\ logs'[r] = [Write(logs[r], logs[r].level) EXCEPT !.pc = "silent"]
      <3> DEFINE k == logs[r]
                 w == Write(k, k.level)
      <3>1. k \in LogState /\ k.handler \in 0 .. Len(handlers)
        BY <1>0 DEF TypeOK
      <3>2. /\ w \in LogState /\ w.handler = k.handler /\ w.level = k.level
            /\ w.into = IF k.level \in Open(k.handler) THEN k.into \cup {k.level} ELSE k.into
            /\ w.missed =
                 IF k.level \notin Open(k.handler) /\ k.level \in Files(k.handler)
                   THEN k.missed \cup {IF k.handler = default THEN "default" ELSE "stale"}
                   ELSE k.missed
        BY <1>0, <3>1, WriteType
      <3>3. /\ k.handler \in DOMAIN handlers /\ k.level \in Levels /\ k.into \subseteq {AppFile}
            /\ k.missed = {} => (AppFile \in k.into <=> AppFile \in Files(k.handler))
        BY <1>0, <2>4 DEF BothFiles
      <3>4. k.level \notin OtherLevels =>
              /\ k.level \in Range(orderedLevels)
              /\ AppFile \in Files(k.handler) <=> k.level \in Files(k.handler)
        BY <1>0, <3>3, FilesTogether DEF Levels
      <3>5. Open(k.handler) \subseteq Files(k.handler)
        BY <1>0, <3>3, HandlersType DEF TypeOK
      <3> HIDE DEF w, k
      <3>6. /\ logs'[r].pc = "silent" /\ logs'[r].level = k.level
            /\ logs'[r].into = w.into /\ logs'[r].missed = w.missed
        BY <2>4, <3>2 DEF w, k, LogState
      <3>7. w.into \subseteq {AppFile, k.level}
        BY <3>2, <3>3
      <3>8. w.missed = {} /\ k.level \notin OtherLevels =>
              w.into = {} \/ (w.into = {AppFile, k.level} /\ k.level \in Range(orderedLevels))
        BY <3>2, <3>3, <3>4, <3>5
      <3> QED
        BY <1>0, <2>0, <2>1, <3>6, <3>7, <3>8 DEF BothFiles, Files
    <2> QED
      BY <1>0, <1>2, <2>2, <2>3, <2>4, LogEffect
  <1>3. CASE UNCHANGED <<handlers, logs>>
    BY <1>0, <1>3 DEF BothFiles, Files
  <1> QED
    BY <1>1, <1>2, <1>3, StepCases DEF vars, SetDir

\* The default logger has its files open as long as no two calls overlap.
LEMMA MissedStep == LoggerInv /\ [Next]_vars => MissedExplained'
  <1> SUFFICES ASSUME LoggerInv, [Next]_vars PROVE MissedExplained'
    OBVIOUS
  <1>0. TypeOK /\ MissedExplained
    BY DEF LoggerInv
  <1>1. ASSUME NEW c \in Callers, SetupStep(c), UNCHANGED <<dir, logs>> PROVE MissedExplained'
    <2>1. overlapped => overlapped'
      BY <1>1 DEF SetupStep, Call, Check, Build, Install, SetDefault, Close
    <2> QED
      BY <1>0, <1>1, <2>1 DEF MissedExplained
  <1>2. ASSUME NEW r \in Requests, LogStep(r), UNCHANGED setupVars PROVE MissedExplained'
    <2>0. overlapped' = overlapped
      BY <1>2 DEF setupVars
    <2>1. ASSUME NEW k \in LogState, NEW file, k.handler \in 0 .. Len(handlers),
                 "default" \in k.missed => overlapped
          PROVE  "default" \in Write(k, file).missed => overlapped
      <3>1. ~overlapped => Open(default) = Files(default)
        BY DEF LoggerInv, Handover
      <3>2. Write(k, file).missed =
              IF file \notin Open(k.handler) /\ file \in Files(k.handler)
                THEN k.missed \cup {IF k.handler = default THEN "default" ELSE "stale"}
                ELSE k.missed
        BY <1>0, <2>1, WriteType
      <3> QED
        BY <2>1, <3>1, <3>2
    <2>2. "default" \in logs'[r].missed => overlapped
      <3>1. ASSUME NEW k \in LogState, k.handler \in DOMAIN handlers, k.missed = {},
                   logs'[r] = Write(k, AppFile)
            PROVE  "default" \in logs'[r].missed => overlapped
        <4>1. k.handler \in 0 .. Len(handlers)
          BY <1>0, <3>1, HandlersType
        <4> QED
          BY <2>1, <3>1, <4>1
      <3>2. ASSUME logs'[r] = [Write(logs[r], logs[r].level) EXCEPT !.pc = "silent"]
            PROVE  "default" \in logs'[r].missed => overlapped
        <4>1. /\ logs[r] \in LogState /\ logs[r].handler \in 0 .. Len(handlers)
              /\ "default" \in logs[r].missed => overlapped
          BY <1>0 DEF TypeOK, MissedExplained
        <4>2. Write(logs[r], logs[r].level) \in LogState
          BY <1>0, <4>1, WriteType
        <4>3. "default" \in Write(logs[r], logs[r].level).missed => overlapped
          BY <2>1, <4>1
        <4> QED
          BY <3>2, <4>2, <4>3 DEF LogState
      <3> QED
        BY <1>0, <1>2, <3>1, <3>2, LogEffect
    <2> QED
      BY <1>0, <1>2, <2>0, <2>2, LogEffect DEF MissedExplained
  <1>3. CASE UNCHANGED <<logs, overlapped>>
    BY <1>0, <1>3 DEF MissedExplained
  <1> QED
    BY <1>1, <1>2, <1>3, StepCases DEF vars, SetDir

-----------------------------------------------------------------------------
(* The theorems. *)

LEMMA InitInv == Init => LoggerInv
  <1> SUFFICES ASSUME Init PROVE LoggerInv
    OBVIOUS
  <1>1. /\ handlers = <<>> /\ default = 0 /\ openFiles = 0 /\ dir = Dir
        /\ current = [level |-> 0, dir |-> Dir] /\ initialised = FALSE /\ overlapped = FALSE
        /\ calls = [c \in Callers |-> Idle] /\ logs = [r \in Requests |-> Silent]
    BY DEF Init
  <1>2. Len(handlers) = 0 /\ DOMAIN handlers = {} /\ handlers \in Seq(Handler)
    BY <1>1
  <1>3. Silent \in LogState /\ Silent.pc = "silent" /\ Silent.handler = 0
          /\ Silent.into = {} /\ Silent.missed = {}
    BY DEF Silent, LogState
  <1>4. TypeOK
    <2>1. /\ handlers \in Seq(Handler) /\ \A h \in DOMAIN handlers : FALSE
          /\ default \in 0 .. Len(handlers) /\ openFiles \in 0 .. Len(handlers)
      BY <1>1, <1>2
    <2>2. current \in [level : Int, dir : Dirs] /\ dir \in Dirs
      BY <1>1, LoggerSetupAssumption
    <2>3. calls \in [Callers -> SetupState]
      BY <1>1, IdleType
    <2>4. logs \in [Requests -> LogState] /\ \A r \in Requests : logs[r].handler \in 0 .. Len(handlers)
      BY <1>1, <1>2, <1>3
    <2> QED
      BY <1>1, <2>1, <2>2, <2>3, <2>4 DEF TypeOK
  <1>5. CallsBuild /\ OwnedOnce /\ OwnerOpen /\ Handover
    BY <1>1, <1>2, IdleType
    DEF CallsBuild, CallBuilds, OwnedOnce, InstallsNew, OwnerOpen, Handover, Busy, Open, Files
  <1>6. BothFiles /\ MissedExplained
    BY <1>1, <1>3 DEF BothFiles, MissedExplained
  <1> QED
    BY <1>4, <1>5, <1>6 DEF LoggerInv

\* Every reachable state satisfies the inductive invariant.
THEOREM LoggerInvariant == Spec => []LoggerInv
  <1>1. LoggerInv /\ [Next]_vars => LoggerInv'
    BY TypeStep, CallsBuildStep, OwnedStep, HandoverStep, BothFilesStep, MissedStep
    DEF LoggerInv
  <1> QED
    BY InitInv, <1>1, PTL DEF Spec

\* The handlers, the calls of Setup and the records keep their types.
THEOREM TypeCorrect == Spec => []TypeOK
  BY LoggerInvariant, PTL DEF LoggerInv

\* The files the package keeps are open, and with no call in progress the
\* default logger is the configured one and no other file is left open, unless
\* calls overlapped.
THEOREM SetupAlwaysSettles == Spec => []SetupSettles
  <1>1. LoggerInv => SetupSettles
    <2> SUFFICES ASSUME LoggerInv PROVE Settled
      BY DEF LoggerInv, SetupSettles
    <2> SUFFICES ASSUME Quiet, ~overlapped, initialised
                 PROVE  /\ default = openFiles
                        /\ handlers[default].level = current.level
                        /\ handlers[default].dir = current.dir
                        /\ \A h \in DOMAIN handlers : h # default => Open(h) = NoFiles
      BY DEF Settled
    <2>1. \A c \in Callers : calls[c].pc = "idle"
      BY DEF Quiet, Busy
    <2> QED
      BY <2>1 DEF LoggerInv, OwnedOnce, Handover
  <1> QED
    BY LoggerInvariant, <1>1, PTL

\* A record is in app.log and in its level's file, or the reason why not is
\* known; it is in no other file.
THEOREM RecordsAlwaysPlaced == Spec => []RecordsPlaced
  <1>1. LoggerInv => RecordsPlaced
    <2> SUFFICES ASSUME LoggerInv PROVE FilesOfLevel /\ AppComplete
      BY DEF LoggerInv, RecordsPlaced
    <2>0. TypeOK /\ BothFiles
      BY DEF LoggerInv
    <2>1. FilesOfLevel
      BY <2>0 DEF FilesOfLevel, BothFiles, TypeOK, LogState
    <2>2. ASSUME NEW r \in Requests, logs[r].pc = "silent", Cardinality(logs[r].into) = 1,
                 logs[r].missed = {}, logs[r].level \notin OtherLevels
          PROVE  FALSE
      <3>1. \/ logs[r].into = {}
            \/ /\ logs[r].into = {AppFile, logs[r].level}
               /\ logs[r].level \in Range(orderedLevels)
        BY <2>0, <2>2 DEF BothFiles
      <3>2. AppFile # logs[r].level \/ logs[r].into = {}
        BY <3>1, LoggerSetupAssumption
      <3>3. Cardinality({}) = 0
        BY FS_EmptySet
      <3>4. ASSUME NEW a, NEW b, a # b PROVE Cardinality({a, b}) = 2
        <4>1. IsFiniteSet({a}) /\ Cardinality({a}) = 1
          BY FS_Singleton
        <4>2. Cardinality({a} \cup {b}) = Cardinality({a}) + 1
          BY <3>4, <4>1, FS_AddElement
        <4>3. {a} \cup {b} = {a, b}
          OBVIOUS
        <4> QED
          BY <4>1, <4>2, <4>3
      <3> QED
        <4>1. CASE logs[r].into = {}
          BY <2>2, <3>3, <4>1
        <4>2. CASE logs[r].into = {AppFile, logs[r].level} /\ AppFile # logs[r].level
          <5>1. Cardinality({AppFile, logs[r].level}) = 2
            BY <3>4, <4>2
          <5> QED
            BY <2>2, <4>2, <5>1
        <4> QED
          BY <3>1, <3>2, <4>1, <4>2
    <2>3. AppComplete
      BY <2>2 DEF AppComplete
    <2> QED
      BY <2>1, <2>3
  <1> QED
    BY LoggerInvariant, <1>1, PTL

=============================================================================
