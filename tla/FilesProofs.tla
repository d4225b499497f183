---------------------------- MODULE FilesProofs ----------------------------
(***************************************************************************)
(* Proofs about the two components that produce files: FileStorage, for    *)
(* any set of uploads, any size of a file and any lifetimes, whatever      *)
(* faults and kills occur; and TableExport, for any structs, options,      *)
(* heights and headers, and any sequence of calls on a document.  The two  *)
(* share no state: a file that is exported is handed to the caller.        *)
(*                                                                         *)
(* StorageInv is the inductive invariant of the storage: each of its parts *)
(* has a lemma with one step per action.  A step changes one upload and    *)
(* one key at most, which GotoType and StoreType state once.               *)
(*                                                                         *)
(* ExportInv is that of the exports.  What was drawn is never redrawn, so  *)
(* a call is described by what it adds to the canvas (Grows, Adds); each   *)
(* operation of the renderer has a lemma that says so, and one that says   *)
(* that it leaves the canvas sound.                                        *)
(***************************************************************************)
EXTENDS FileStorage, TableExport, FiniteSetTheorems, TLAPS

-----------------------------------------------------------------------------
(* The storage. *)

\* Every upload has a key, and no two have the same.
LEMMA KeysAreUploads == Keys = Uploads
  BY DEF Keys, objectKey

\* A move to another phase changes nothing but that phase of that upload.
LEMMA GotoType ==
  ASSUME TypeOK, NEW u \in Uploads, Goto(u, "create") \/ Goto(u, "copy") \/
           Goto(u, "commit") \/ Goto(u, "answer") \/ Goto(u, "broken") \/ Goto(u, "stored") \/ Goto(u, "failed")
  PROVE  /\ up' \in [Uploads -> UploadState]
         /\ up'[u].written = up[u].written
         /\ \A v \in Uploads : v # u => up'[v] = up[v]
  BY DEF TypeOK, UploadState, Goto

\* Storing chunks under a key changes that key alone.
LEMMA PutType ==
  ASSUME TypeOK, NEW k \in Uploads, NEW n \in 0 .. Size, store' = Put(k, n)
  PROVE  /\ DOMAIN store' \subseteq Keys /\ store' \in [DOMAIN store' -> 0 .. Size]
         /\ k \in DOMAIN store' /\ store'[k] = n
         /\ \A x : x # k => (x \in DOMAIN store' <=> x \in DOMAIN store)
         /\ \A x \in DOMAIN store : x # k => store'[x] = store[x]
  BY KeysAreUploads DEF TypeOK, Put

\* A deletion takes that key alone away.
LEMMA WithoutType ==
  ASSUME TypeOK, NEW k \in Uploads, store' = Without(k)
  PROVE  /\ DOMAIN store' \subseteq Keys /\ store' \in [DOMAIN store' -> 0 .. Size]
         /\ k \notin DOMAIN store'
         /\ \A x : x # k => (x \in DOMAIN store' <=> x \in DOMAIN store)
         /\ \A x \in DOMAIN store : x # k => store'[x] = store[x]
  BY DEF TypeOK, Without

\* In every case the store stays well formed.
LEMMA StoreType ==
  ASSUME TypeOK, NEW k \in Uploads, NEW n \in 0 .. Size,
         store' = Put(k, n) \/ store' = Without(k) \/ store' = store
  PROVE  /\ DOMAIN store' \subseteq Keys /\ store' \in [DOMAIN store' -> 0 .. Size]
         /\ \A x : x # k => (x \in DOMAIN store' <=> x \in DOMAIN store)
         /\ \A x \in DOMAIN store : x # k => store'[x] = store[x]
  <1>1. CASE store' = Put(k, n)
    BY <1>1, PutType
  <1>2. CASE store' = Without(k)
    BY <1>2, WithoutType
  <1>3. CASE store' = store
    BY <1>3 DEF TypeOK
  <1> QED
    BY <1>1, <1>2, <1>3

\* A lifetime that is granted is positive and at most MaxExpiry.
LEMMA ExpiryBounded ==
  ASSUME NEW asked \in Asked
  PROVE  Expiry(asked) \in 1 .. MaxExpiry
  BY FileStorageAssumption DEF Expiry

-----------------------------------------------------------------------------
(* The types.                                                              *)

LEMMA TypeStep == StorageInv /\ [Next]_vars => TypeOK'
  <1> SUFFICES ASSUME StorageInv, [Next]_vars PROVE TypeOK'
    OBVIOUS
  <1>0. TypeOK /\ Stages /\ ToldStored
    BY DEF StorageInv
  <1> USE FileStorageAssumption, KeysAreUploads
  <1>1. ASSUME NEW u \in Uploads, Upload(u) PROVE TypeOK'
    <2>1. up' \in [Uploads -> UploadState]
      BY <1>0, <1>1, GotoType DEF Upload, Fault
    <2> QED
      BY <1>0, <1>1, <2>1 DEF Upload, Fault, TypeOK
  <1>2. ASSUME NEW u \in Uploads, Create(u) PROVE TypeOK'
    <2>1. up' \in [Uploads -> UploadState]
      BY <1>0, <1>2, GotoType DEF Create, Fault
    <2>2. store' = Put(u, 0) \/ store' = store
      BY <1>2 DEF Create, Fault, objectKey
    <2>3. DOMAIN store' \subseteq Keys /\ store' \in [DOMAIN store' -> 0 .. Size]
      BY <1>0, <2>2, StoreType
    <2> QED
      BY <1>0, <1>2, <2>1, <2>3 DEF Create, Fault, TypeOK
  <1>3. ASSUME NEW u \in Uploads, CopyChunk(u) PROVE TypeOK'
    <2>1. up' \in [Uploads -> UploadState] /\ up[u].written + 1 \in 0 .. Size
      BY <1>0, <1>3 DEF CopyChunk, TypeOK, UploadState
    <2>2. store' = Put(u, up[u].written + 1) \/ store' = store
      BY <1>3 DEF CopyChunk, objectKey
    <2>3. DOMAIN store' \subseteq Keys /\ store' \in [DOMAIN store' -> 0 .. Size]
      BY <1>0, <2>1, <2>2, StoreType
    <2> QED
      BY <1>0, <1>3, <2>1, <2>3 DEF CopyChunk, TypeOK, history
  <1>4. ASSUME NEW u \in Uploads, CopyFails(u) PROVE TypeOK'
    <2>1. up' \in [Uploads -> UploadState] /\ up[u].written \in 0 .. Size
      BY <1>0, <1>4, GotoType DEF CopyFails, Fault, TypeOK, UploadState
    <2>2. store' = Put(u, up[u].written) \/ store' = store
      BY <1>4 DEF CopyFails, objectKey
    <2>3. DOMAIN store' \subseteq Keys /\ store' \in [DOMAIN store' -> 0 .. Size]
      BY <1>0, <2>1, <2>2, StoreType
    <2> QED
      BY <1>0, <1>4, <2>1, <2>3 DEF CopyFails, Fault, TypeOK
  <1>5. ASSUME NEW u \in Uploads, CopyEnds(u) PROVE TypeOK'
    <2>1. up' \in [Uploads -> UploadState]
      BY <1>0, <1>5, GotoType DEF CopyEnds, Created
    <2> QED
      BY <1>0, <1>5, <2>1 DEF CopyEnds, Created, TypeOK, objectKey
  <1>6. ASSUME NEW u \in Uploads, Commit(u) PROVE TypeOK'
    <2>1. up' \in [Uploads -> UploadState]
      BY <1>0, <1>6, GotoType DEF Commit, Fault
    <2>2. store' = Put(u, Size) \/ store' = store
      BY <1>6 DEF Commit, objectKey
    <2>3. DOMAIN store' \subseteq Keys /\ store' \in [DOMAIN store' -> 0 .. Size]
      BY <1>0, <2>2, StoreType
    <2> QED
      BY <1>0, <1>6, <2>1, <2>3 DEF Commit, Fault, TypeOK
  <1>7. ASSUME NEW k \in Keys, Delete(k) PROVE TypeOK'
    <2>1. store' = Without(k) \/ store' = store
      BY <1>7 DEF Delete
    <2>2. DOMAIN store' \subseteq Keys /\ store' \in [DOMAIN store' -> 0 .. Size]
      BY <1>0, <2>1, StoreType
    <2> QED
      BY <1>0, <1>7, <2>2 DEF Delete, TypeOK
  <1>8. ASSUME NEW k \in Keys, PresignedURL(k) PROVE TypeOK'
    <2>1. PICK asked \in Asked : links' = links \cup
            {[key |-> k, at |-> now,
              until |-> IF backend = "local" THEN Forever ELSE now + Expiry(asked)]}
      BY <1>8 DEF PresignedURL
    <2>2. Expiry(asked) \in Nat /\ now \in 0 .. MaxTime /\ Forever \in Nat
      BY <1>0, ExpiryBounded DEF TypeOK, Forever
    <2>3. links' \subseteq [key : Keys, at : 0 .. MaxTime, until : Nat]
      BY <1>0, <2>1, <2>2 DEF TypeOK
    <2> QED
      BY <1>0, <1>8, <2>3 DEF PresignedURL, TypeOK, history
  <1>9. ASSUME DeleteFolder PROVE TypeOK'
    BY <1>0, <1>9 DEF DeleteFolder, TypeOK
  <1>10. ASSUME Tick PROVE TypeOK'
    BY <1>0, <1>10 DEF Tick, TypeOK, history
  <1>11. ASSUME Crash PROVE TypeOK'
    <2>1. up' \in [Uploads -> UploadState]
      BY <1>0, <1>11 DEF Crash, TypeOK, UploadState
    <2> QED
      BY <1>0, <1>11, <2>1 DEF Crash, TypeOK, history
  <1>12. ASSUME NEW u \in Uploads, Answer(u) PROVE TypeOK'
    <2>1. up' \in [Uploads -> UploadState]
      BY <1>0, <1>12, GotoType DEF Answer, Created, Fault
    <2> QED
      BY <1>0, <1>12, <2>1 DEF Answer, Created, Fault, TypeOK, objectKey
  <1>13. CASE UNCHANGED vars
    BY <1>0, <1>13 DEF TypeOK, vars
  <1> QED
    BY <1>1, <1>2, <1>3, <1>4, <1>5, <1>6, <1>7, <1>8, <1>9, <1>10, <1>11, <1>12, <1>13
    DEF Next

-----------------------------------------------------------------------------
(* What the phases say.                                                    *)

\* A key is told when its upload ends well, and neither is ever taken back.
LEMMA ToldStep == StorageInv /\ [Next]_vars => ToldStored'
  <1> SUFFICES ASSUME StorageInv, [Next]_vars PROVE ToldStored'
    OBVIOUS
  <1>0. TypeOK /\ ToldStored
    BY DEF StorageInv
  <1>1. ASSUME NEW u \in Uploads, Upload(u) PROVE ToldStored'
    BY <1>0, <1>1 DEF Upload, Fault, Goto, TypeOK, UploadState, ToldStored, objectKey
  <1>2. ASSUME NEW u \in Uploads, Create(u) PROVE ToldStored'
    BY <1>0, <1>2 DEF Create, Fault, Goto, TypeOK, UploadState, ToldStored, objectKey
  <1>3. ASSUME NEW u \in Uploads, CopyChunk(u) PROVE ToldStored'
    BY <1>0, <1>3 DEF CopyChunk, TypeOK, UploadState, ToldStored, objectKey, history
  <1>4. ASSUME NEW u \in Uploads, CopyFails(u) PROVE ToldStored'
    BY <1>0, <1>4 DEF CopyFails, Fault, Goto, TypeOK, UploadState, ToldStored, objectKey
  <1>5. ASSUME NEW u \in Uploads, CopyEnds(u) PROVE ToldStored'
    BY <1>0, <1>5 DEF CopyEnds, Created, Goto, TypeOK, UploadState, ToldStored, objectKey
  <1>6. ASSUME NEW u \in Uploads, Commit(u) PROVE ToldStored'
    BY <1>0, <1>6 DEF Commit, Fault, Goto, TypeOK, UploadState, ToldStored, objectKey
  <1>7. ASSUME NEW k \in Keys, Delete(k) PROVE ToldStored'
    BY <1>0, <1>7 DEF Delete, ToldStored, objectKey
  <1>8. ASSUME NEW k \in Keys, PresignedURL(k) PROVE ToldStored'
    BY <1>0, <1>8 DEF PresignedURL, ToldStored, objectKey, history
  <1>9. CASE DeleteFolder
    BY <1>0, <1>9 DEF DeleteFolder, ToldStored, objectKey
  <1>10. CASE Tick
    BY <1>0, <1>10 DEF Tick, ToldStored, objectKey, history
  <1>11. CASE Crash
    BY <1>0, <1>11 DEF Crash, TypeOK, UploadState, ToldStored, objectKey, history
  <1>12. ASSUME NEW u \in Uploads, Answer(u) PROVE ToldStored'
    BY <1>0, <1>12 DEF Answer, Created, Fault, Goto, TypeOK, UploadState, ToldStored, objectKey
  <1>13. CASE UNCHANGED vars
    BY <1>0, <1>13 DEF vars, ToldStored, objectKey
  <1> QED
    BY <1>1, <1>2, <1>3, <1>4, <1>5, <1>6, <1>7, <1>8, <1>9, <1>10, <1>11, <1>12, <1>13
    DEF Next

\* Only a local upload creates a file, and its folder is there unless somebody
\* deleted it meanwhile; only S3 and GCS commit.
LEMMA StagesStep == StorageInv /\ [Next]_vars => Stages'
  <1> SUFFICES ASSUME StorageInv, [Next]_vars PROVE Stages'
    OBVIOUS
  <1>0. TypeOK /\ Stages
    BY DEF StorageInv
  <1>1. ASSUME NEW u \in Uploads, Upload(u) PROVE Stages'
    BY <1>0, <1>1 DEF Upload, Fault, Goto, TypeOK, UploadState, Stages
  <1>2. ASSUME NEW u \in Uploads, Create(u) PROVE Stages'
    BY <1>0, <1>2 DEF Create, Fault, Goto, TypeOK, UploadState, Stages
  <1>3. ASSUME NEW u \in Uploads, CopyChunk(u) PROVE Stages'
    BY <1>0, <1>3 DEF CopyChunk, TypeOK, UploadState, Stages, history
  <1>4. ASSUME NEW u \in Uploads, CopyFails(u) PROVE Stages'
    BY <1>0, <1>4 DEF CopyFails, Fault, Goto, TypeOK, UploadState, Stages
  <1>5. ASSUME NEW u \in Uploads, CopyEnds(u) PROVE Stages'
    BY <1>0, <1>5 DEF CopyEnds, Created, Goto, TypeOK, UploadState, Stages
  <1>6. ASSUME NEW u \in Uploads, Commit(u) PROVE Stages'
    BY <1>0, <1>6 DEF Commit, Fault, Goto, TypeOK, UploadState, Stages
  <1>7. ASSUME NEW k \in Keys, Delete(k) PROVE Stages'
    BY <1>0, <1>7 DEF Delete, Stages
  <1>8. ASSUME NEW k \in Keys, PresignedURL(k) PROVE Stages'
    BY <1>0, <1>8 DEF PresignedURL, Stages, history
  <1>9. CASE DeleteFolder
    BY <1>0, <1>9 DEF DeleteFolder, Stages
  <1>10. CASE Tick
    BY <1>0, <1>10 DEF Tick, Stages, history
  <1>11. CASE Crash
    BY <1>0, <1>11 DEF Crash, TypeOK, UploadState, Stages, history
  <1>12. ASSUME NEW u \in Uploads, Answer(u) PROVE Stages'
    BY <1>0, <1>12 DEF Answer, Created, Fault, Goto, TypeOK, UploadState, Stages
  <1>13. CASE UNCHANGED vars
    BY <1>0, <1>13 DEF vars, Stages
  <1> QED
    BY <1>1, <1>2, <1>3, <1>4, <1>5, <1>6, <1>7, <1>8, <1>9, <1>10, <1>11, <1>12, <1>13
    DEF Next

\* A local file that is being copied is there and holds what was copied: only
\* keys that were told are deleted, and other uploads have other keys.
LEMMA LocalStep == StorageInv /\ [Next]_vars => LocalGrows'
  <1> SUFFICES ASSUME StorageInv, [Next]_vars PROVE LocalGrows'
    OBVIOUS
  <1>0. TypeOK /\ Stages /\ ToldStored /\ LocalGrows /\ LeftoversExplained
    BY DEF StorageInv
  <1> USE FileStorageAssumption, KeysAreUploads
  <1>1. ASSUME NEW u \in Uploads, Upload(u) PROVE LocalGrows'
    BY <1>0, <1>1 DEF Upload, Fault, Goto, TypeOK, UploadState, LocalGrows, objectKey
  <1>2. ASSUME NEW u \in Uploads, Create(u) PROVE LocalGrows'
    <2> SUFFICES ASSUME NEW v \in Uploads, (backend = "local")', up'[v].pc = "copy"
                 PROVE  v \in DOMAIN store' /\ store'[v] = up'[v].written
      BY DEF LocalGrows, objectKey
    <2>1. CASE v = u
      <3>1. store' = Put(u, 0) /\ up'[u].written = 0
        BY <1>0, <1>2, <2>1 DEF Create, Fault, Goto, TypeOK, UploadState, Stages, objectKey
      <3> QED
        BY <1>0, <2>1, <3>1, PutType, 0 \in 0 .. Size
    <2>2. CASE v # u
      <3>1. up'[v] = up[v] /\ v \in DOMAIN store /\ store[v] = up[v].written
        BY <1>0, <1>2, <2>2 DEF Create, Fault, Goto, TypeOK, UploadState, LocalGrows, objectKey
      <3>2. store' = Put(u, 0) \/ store' = store
        BY <1>2 DEF Create, objectKey
      <3> QED
        BY <1>0, <2>2, <3>1, <3>2, StoreType
    <2> QED
      BY <2>1, <2>2
  <1>3. ASSUME NEW u \in Uploads, CopyChunk(u) PROVE LocalGrows'
    <2>1. up[u].written \in Nat /\ up[u].written + 1 \in 0 .. Size
      BY <1>0, <1>3 DEF CopyChunk, TypeOK, UploadState
    <2>2. /\ up'[u].pc = "copy" /\ up'[u].written = up[u].written + 1
          /\ \A v \in Uploads : v # u => up'[v] = up[v]
      BY <1>0, <1>3 DEF CopyChunk, TypeOK, UploadState
    <2> SUFFICES ASSUME NEW v \in Uploads, (backend = "local")', up'[v].pc = "copy"
                 PROVE  v \in DOMAIN store' /\ store'[v] = up'[v].written
      BY DEF LocalGrows, objectKey
    <2>3. up[v].pc = "copy" /\ v \in DOMAIN store /\ store[v] = up[v].written
      BY <1>0, <1>3, <2>2 DEF CopyChunk, LocalGrows, objectKey
    <2>4. store' = Put(u, up[u].written + 1)
      BY <1>0, <1>3 DEF CopyChunk, LocalGrows, objectKey
    <2> QED
      BY <1>0, <2>1, <2>2, <2>3, <2>4, PutType, StoreType
  <1>4. ASSUME NEW u \in Uploads, CopyFails(u) PROVE LocalGrows'
    BY <1>0, <1>4 DEF CopyFails, Fault, Goto, TypeOK, UploadState, LocalGrows, objectKey
  <1>5. ASSUME NEW u \in Uploads, CopyEnds(u) PROVE LocalGrows'
    BY <1>0, <1>5 DEF CopyEnds, Created, Goto, TypeOK, UploadState, LocalGrows, objectKey
  <1>6. ASSUME NEW u \in Uploads, Commit(u) PROVE LocalGrows'
    BY <1>0, <1>6 DEF Commit, Fault, Goto, TypeOK, UploadState, LocalGrows, Stages
  <1>7. ASSUME NEW k \in Keys, Delete(k) PROVE LocalGrows'
    <2> SUFFICES ASSUME NEW v \in Uploads, (backend = "local")', up'[v].pc = "copy"
                 PROVE  v \in DOMAIN store' /\ store'[v] = up'[v].written
      BY DEF LocalGrows, objectKey
    <2>1. up'[v] = up[v] /\ v \in DOMAIN store /\ store[v] = up[v].written /\ v # k
      BY <1>0, <1>7 DEF Delete, LocalGrows, ToldStored, objectKey
    <2>2. store' = Without(k) \/ store' = store
      BY <1>7 DEF Delete
    <2> QED
      BY <1>0, <2>1, <2>2, StoreType
  <1>8. ASSUME NEW k \in Keys, PresignedURL(k) PROVE LocalGrows'
    BY <1>0, <1>8 DEF PresignedURL, LocalGrows, history
  <1>9. CASE DeleteFolder
    BY <1>0, <1>9 DEF DeleteFolder, LocalGrows
  <1>10. CASE Tick
    BY <1>0, <1>10 DEF Tick, LocalGrows, history
  <1>11. CASE Crash
    BY <1>0, <1>11 DEF Crash, TypeOK, UploadState, LocalGrows, history
  <1>12. ASSUME NEW u \in Uploads, Answer(u) PROVE LocalGrows'
    BY <1>0, <1>12 DEF Answer, Created, Fault, Goto, TypeOK, UploadState, LocalGrows
  <1>13. CASE UNCHANGED vars
    BY <1>0, <1>13 DEF vars, LocalGrows
  <1> QED
    BY <1>1, <1>2, <1>3, <1>4, <1>5, <1>6, <1>7, <1>8, <1>9, <1>10, <1>11, <1>12, <1>13
    DEF Next

\* Links are given out for Expiry(asked) and never changed.
LEMMA LinkStep == StorageInv /\ [Next]_vars => LinkTerms'
  <1> SUFFICES ASSUME StorageInv, [Next]_vars PROVE LinkTerms'
    OBVIOUS
  <1>0. TypeOK /\ LinkTerms
    BY DEF StorageInv
  <1>1. ASSUME NEW k \in Keys, PresignedURL(k) PROVE LinkTerms'
    <2>1. PICK asked \in Asked : links' = links \cup
            {[key |-> k, at |-> now,
              until |-> IF backend = "local" THEN Forever ELSE now + Expiry(asked)]}
      BY <1>1 DEF PresignedURL
    <2>2. Expiry(asked) \in 1 .. MaxExpiry /\ now \in Nat
      BY <1>0, ExpiryBounded, FileStorageAssumption DEF TypeOK
    <2>3. now + Expiry(asked) # Forever /\ now + Expiry(asked) <= now + MaxExpiry
      BY <2>2, FileStorageAssumption DEF Forever
    <2> QED
      BY <1>0, <1>1, <2>1, <2>3 DEF PresignedURL, LinkTerms
  <1>2. CASE UNCHANGED <<backend, links>>
    BY <1>0, <1>2 DEF LinkTerms
  <1> QED
    BY <1>1, <1>2 DEF Next, vars, Upload, Create, CopyChunk, CopyFails, CopyEnds, Commit,
                      Answer, Delete, DeleteFolder, Tick, Crash

\* The steps that leave the objects and what clients know of them alone.
LEMMA QuietSteps ==
  ASSUME [Next]_vars
  PROVE  \/ UNCHANGED <<store, told, unsure, deleted>>
         \/ \E u \in Uploads : \/ Create(u) \/ CopyChunk(u) \/ CopyFails(u)
                               \/ CopyEnds(u) \/ Commit(u) \/ Answer(u)
         \/ \E k \in Keys : Delete(k)
  BY DEF Next, vars, Upload, PresignedURL, DeleteFolder, Tick, Crash, history

\* An upload under way writes its own object only, whose key nobody was told.
LEMMA UploadWrites ==
  ASSUME StorageInv, NEW u \in Uploads,
         Create(u) \/ CopyChunk(u) \/ CopyFails(u) \/ CopyEnds(u) \/ Commit(u) \/ Answer(u)
  PROVE  /\ u \notin told /\ UNCHANGED <<unsure, deleted, backend>>
         /\ told' \in {told, told \cup {u}}
         /\ DOMAIN store' \subseteq Keys
         /\ \A x : x # u => (x \in DOMAIN store' <=> x \in DOMAIN store)
         /\ \A x \in DOMAIN store : x # u => store'[x] = store[x]
         /\ up[u].pc \in {"create", "copy", "commit", "answer", "broken"}
         /\ \A v \in Uploads : v # u => up'[v] = up[v]
  <1>0. TypeOK /\ ToldStored
    BY DEF StorageInv
  <1>1. up[u].written \in 0 .. Size /\ 0 \in 0 .. Size /\ Size \in 0 .. Size
    BY <1>0, FileStorageAssumption DEF TypeOK, UploadState
  <1>2. PICK n \in 0 .. Size : store' = Put(u, n) \/ store' = store
    <2>1. CASE CopyChunk(u)
      <3>1. up[u].written + 1 \in 0 .. Size
        BY <1>1, <2>1, FileStorageAssumption DEF CopyChunk
      <3> QED
        BY <2>1, <3>1 DEF CopyChunk, objectKey
    <2>2. CASE Create(u) \/ CopyFails(u) \/ CopyEnds(u) \/ Commit(u) \/ Answer(u)
      BY <1>1, <2>2 DEF Create, CopyFails, CopyEnds, Commit, Answer, objectKey
    <2> QED
      BY <2>1, <2>2
  <1>3. u \notin told /\ up[u].pc \in {"create", "copy", "commit", "answer", "broken"}
    BY <1>0 DEF Create, CopyChunk, CopyFails, CopyEnds, Commit, Answer, ToldStored,
                   objectKey
  <1>4. \A v \in Uploads : v # u => up'[v] = up[v]
    BY <1>0 DEF Create, CopyChunk, CopyFails, CopyEnds, Commit, Answer, Fault, Created, Goto,
                TypeOK
  <1>5. UNCHANGED <<unsure, deleted, backend>> /\ told' \in {told, told \cup {u}}
    BY DEF Create, CopyChunk, CopyFails, CopyEnds, Commit, Answer, Fault, Created, objectKey,
           history
  <1> QED
    BY <1>0, <1>2, <1>3, <1>4, <1>5, StoreType

-----------------------------------------------------------------------------
(* What clients were answered, and what is left behind.                    *)

\* What was committed stays whole until it is answered: only keys that were told are
\* deleted, and other uploads have other keys.
LEMMA WholeStep == StorageInv /\ [Next]_vars => CommittedWhole'
  <1> SUFFICES ASSUME StorageInv, [Next]_vars, NEW v \in Uploads, up'[v].pc = "answer"
               PROVE  v \in DOMAIN store' /\ store'[v] = Size
    BY DEF CommittedWhole, objectKey
  <1>0. TypeOK /\ ToldStored
    BY DEF StorageInv
  <1>1. up[v].pc = "answer" => v \in DOMAIN store /\ store[v] = Size /\ v \notin told
    BY DEF StorageInv, CommittedWhole, ToldStored, objectKey
  <1>2. ASSUME NEW u \in Uploads, \/ Create(u) \/ CopyChunk(u) \/ CopyFails(u)
                                  \/ CopyEnds(u) \/ Commit(u) \/ Answer(u)
        PROVE  v \in DOMAIN store' /\ store'[v] = Size
    <2>1. CASE v # u
      BY <1>1, <1>2, <2>1, UploadWrites
    <2>2. CASE v = u
      <3>1. Commit(u)
        BY <1>0, <1>2, <2>2 DEF Create, CopyChunk, CopyFails, CopyEnds, Answer, Created, Fault,
                                Goto, TypeOK, UploadState, Stages
      <3>2. ~Fault(u)
        BY <1>0, <2>2 DEF Fault, Goto, TypeOK, UploadState
      <3>3. store' = Put(u, Size) /\ Size \in 0 .. Size
        BY <3>1, <3>2, FileStorageAssumption DEF Commit, objectKey
      <3> QED
        BY <1>0, <2>2, <3>3, PutType
    <2> QED
      BY <2>1, <2>2
  <1>3. ASSUME NEW k \in Keys, Delete(k) PROVE v \in DOMAIN store' /\ store'[v] = Size
    <2>1. up' = up /\ k # v /\ (store' = Without(k) \/ store' = store)
      BY <1>1, <1>3 DEF Delete
    <2> QED
      BY <1>0, <1>1, <2>1, WithoutType, KeysAreUploads
  <1>4. CASE \E u \in Uploads : Upload(u)
    <2>1. store' = store /\ up[v].pc = "answer"
      BY <1>0, <1>4 DEF Upload, Fault, Goto, TypeOK, UploadState
    <2> QED
      BY <1>1, <2>1
  <1>5. CASE Crash
    <2>1. store' = store /\ up[v].pc = "answer"
      BY <1>0, <1>5 DEF Crash, TypeOK, UploadState
    <2> QED
      BY <1>1, <2>1
  <1>6. CASE UNCHANGED <<store, up>>
    BY <1>1, <1>6
  <1> QED
    BY <1>2, <1>3, <1>4, <1>5, <1>6 DEF Next, vars, PresignedURL, DeleteFolder, Tick

\* A key is told when its object is whole; from then on only a deletion of that
\* key touches the object.
LEMMA KnownStep == StorageInv /\ [Next]_vars => KnownReadable'
  <1> SUFFICES ASSUME StorageInv, [Next]_vars, NEW k \in told' \ unsure'
               PROVE  k \in DOMAIN store' /\ store'[k] = Size
    BY FileStorageAssumption DEF KnownReadable, Download
  <1>0. TypeOK /\ ToldStored /\ LocalGrows /\ CommittedWhole /\ Stages
    BY DEF StorageInv
  <1>1. \A x \in told \ unsure : x \in DOMAIN store /\ store[x] = Size
    BY FileStorageAssumption DEF StorageInv, AnswersHold, KnownReadable, Download
  <1>2. CASE UNCHANGED <<store, told, unsure, deleted>>
    BY <1>1, <1>2
  <1>3. ASSUME NEW u \in Uploads, Create(u) \/ CopyChunk(u) \/ CopyFails(u) \/ Commit(u)
        PROVE  k \in DOMAIN store' /\ store'[k] = Size
    <2>1. told' = told
      BY <1>3 DEF Create, CopyChunk, CopyFails, Commit, history
    <2> QED
      BY <1>1, <1>3, <2>1, UploadWrites
  <1>4. ASSUME NEW u \in Uploads, CopyEnds(u)
        PROVE  k \in DOMAIN store' /\ store'[k] = Size
    <2>1. CASE k = u
      <3>1. backend = "local" /\ store' = store
        BY <1>4, <2>1, UploadWrites DEF CopyEnds
      <3> QED
        BY <1>0, <1>4, <2>1, <3>1 DEF CopyEnds, LocalGrows, objectKey
    <2>2. CASE k # u
      BY <1>1, <1>4, <2>2, UploadWrites
    <2> QED
      BY <2>1, <2>2
  <1>5. ASSUME NEW u \in Uploads, Answer(u)
        PROVE  k \in DOMAIN store' /\ store'[k] = Size
    <2>1. CASE k = u
      BY <1>0, <1>1, <1>5, <2>1, UploadWrites DEF Answer, CommittedWhole, objectKey
    <2>2. CASE k # u
      BY <1>1, <1>5, <2>2, UploadWrites
    <2> QED
      BY <2>1, <2>2
  <1>6. ASSUME NEW d \in Keys, Delete(d)
        PROVE  k \in DOMAIN store' /\ store'[k] = Size
    <2>1. k # d /\ k \in told \ unsure /\ d \in Uploads
      BY <1>6, KeysAreUploads DEF Delete
    <2>2. store' = Without(d) \/ store' = store
      BY <1>6 DEF Delete
    <2> QED
      BY <1>0, <1>1, <2>1, <2>2, WithoutType
  <1> QED
    BY <1>2, <1>3, <1>4, <1>5, <1>6, QuietSteps

\* A deleted key was told, so that its upload is over and stores nothing more.
LEMMA DeletedStep == StorageInv /\ [Next]_vars => DeletedStaysDeleted'
  <1> SUFFICES ASSUME StorageInv, [Next]_vars, NEW k \in deleted'
               PROVE  k \notin DOMAIN store'
    BY DEF DeletedStaysDeleted, Opens
  <1>0. TypeOK /\ (\A x \in deleted : x \in told /\ x \notin DOMAIN store)
    BY DEF StorageInv, AnswersHold, DeletedStaysDeleted, TypeOK
  <1>1. CASE UNCHANGED <<store, told, unsure, deleted>>
    BY <1>0, <1>1
  <1>2. ASSUME NEW u \in Uploads, \/ Create(u) \/ CopyChunk(u) \/ CopyFails(u)
                                  \/ CopyEnds(u) \/ Commit(u) \/ Answer(u)
        PROVE  k \notin DOMAIN store'
    BY <1>0, <1>2, UploadWrites
  <1>3. ASSUME NEW d \in Keys, Delete(d) PROVE k \notin DOMAIN store'
    <2>1. \/ deleted' = deleted \cup {d} /\ store' = Without(d)
          \/ deleted' = deleted /\ store' \in {store, Without(d)}
      BY <1>3 DEF Delete
    <2>2. d \in Uploads
      BY KeysAreUploads
    <2> QED
      BY <1>0, <2>1, <2>2, WithoutType
  <1> QED
    BY <1>1, <1>2, <1>3, QuietSteps

\* What a link was signed for bounds when it opens.
LEMMA LinksEndFromTerms == TypeOK /\ LinkTerms => LinksEnd
  <1> SUFFICES ASSUME TypeOK, LinkTerms, NEW l \in links, Opens(l), backend # "local"
               PROVE  now < l.at + MaxExpiry
    BY DEF LinksEnd
  <1>1. l.until # Forever /\ l.until <= l.at + MaxExpiry
    BY DEF LinkTerms
  <1>2. l.at \in Nat /\ l.until \in Nat /\ now \in Nat /\ MaxExpiry \in Nat
    BY FileStorageAssumption DEF TypeOK
  <1> QED
    BY <1>1, <1>2 DEF Opens

\* A step of an upload leaves an object only where the phase it comes to, or
\* the failure it ends with, explains it.
LEMMA OrphanStep == StorageInv /\ [Next]_vars => OrphansExplained'
  <1> DEFINE Explained(v) ==
        \/ backend = "local" /\ up[v].pc \in {"copy", "failed", "killed"}
        \/ /\ backend \in {"s3", "gcs"}
           /\ up[v].pc \in {"answer", "broken", "failed", "killed"}
           /\ store[v] = Size \/ (backend = "gcs" /\ v \in faulted)
  <1> SUFFICES ASSUME StorageInv, [Next]_vars,
                      NEW v \in Uploads, v \in DOMAIN store', v \notin told'
               PROVE  Explained(v)'
    BY DEF OrphansExplained, objectKey
  <1>0. TypeOK /\ Stages
    BY DEF StorageInv
  <1>1. v \in DOMAIN store /\ v \notin told => Explained(v)
    BY DEF StorageInv, LeftoversExplained, OrphansExplained, objectKey
  <1>2. faulted \subseteq faulted'
    BY DEF Next, vars, Upload, Create, CopyChunk, CopyFails, CopyEnds, Commit, Answer, Fault,
           Delete, PresignedURL, DeleteFolder, Tick, Crash, history
  <1>3. ASSUME NEW u \in Uploads, Upload(u) PROVE Explained(v)'
    <2>1. UNCHANGED <<store, told, backend>>
      BY <1>3 DEF Upload
    <2>2. up[u].pc = "idle" /\ (v # u => up'[v] = up[v])
      BY <1>0, <1>3 DEF Upload, Fault, Goto, TypeOK
    <2> QED
      BY <1>1, <1>2, <2>1, <2>2
  <1>4. ASSUME NEW u \in Uploads, \/ Create(u) \/ CopyChunk(u) \/ CopyFails(u)
                                  \/ CopyEnds(u) \/ Commit(u) \/ Answer(u)
        PROVE  Explained(v)'
    <2>1. CASE v # u
      BY <1>1, <1>4, <1>2, <2>1, UploadWrites
    <2>2. CASE v = u
      <3> USE <2>2
      <3>1. ASSUME Create(u) PROVE Explained(v)'
        BY <1>0, <1>1, <3>1 DEF Create, Fault, Goto, Stages, TypeOK, UploadState
      <3>2. ASSUME CopyChunk(u) PROVE Explained(v)'
        BY <1>0, <1>1, <3>2 DEF CopyChunk, TypeOK, UploadState, history
      <3>3. ASSUME CopyFails(u) PROVE Explained(v)'
        BY <1>0, <1>1, <3>3 DEF CopyFails, Fault, Goto, TypeOK, UploadState
      <3>4. ASSUME CopyEnds(u) PROVE Explained(v)'
        BY <1>0, <1>1, <3>4 DEF CopyEnds, Created, Goto, objectKey, TypeOK, UploadState
      <3>5. ASSUME Commit(u) PROVE Explained(v)'
        <4>1. backend \in {"s3", "gcs"} /\ backend' = backend /\ u \notin told
          BY <1>0, <3>5 DEF Commit, Stages
        <4>2. CASE store' = Put(u, Size) /\ Goto(u, "answer")
          <5>1. store'[u] = Size /\ up'[u].pc = "answer"
            BY <1>0, <4>2, PutType, FileStorageAssumption DEF Goto, TypeOK
          <5> QED
            BY <4>1, <5>1
        <4>3. CASE store' = store
          BY <1>1, <3>5, <4>1, <4>3 DEF Commit
        <4> QED
          BY <3>5, <4>2, <4>3 DEF Commit, objectKey
      <3>6. ASSUME Answer(u) PROVE Explained(v)'
        BY <1>0, <1>1, <3>6 DEF Answer, Created, Fault, Goto, objectKey, TypeOK, UploadState
      <3> QED
        BY <1>4, <3>1, <3>2, <3>3, <3>4, <3>5, <3>6
    <2> QED
      BY <2>1, <2>2
  <1>5. ASSUME NEW k \in Keys, Delete(k) PROVE Explained(v)'
    <2>1. UNCHANGED <<up, told, backend>> /\ (store' = Without(k) \/ store' = store)
      BY <1>5 DEF Delete
    <2>2. v \in DOMAIN store /\ store'[v] = store[v]
      BY <1>0, <2>1, WithoutType, KeysAreUploads
    <2> QED
      BY <1>1, <1>2, <2>1, <2>2
  <1>6. CASE Crash
    BY <1>0, <1>1, <1>6 DEF Crash, TypeOK, UploadState, history
  <1>7. CASE UNCHANGED <<store, up, told, backend>>
    BY <1>1, <1>7, <1>2
  <1> QED
    BY <1>3, <1>4, <1>5, <1>6, <1>7
    DEF Next, vars, PresignedURL, DeleteFolder, Tick, history

\* An upload fails without a fault only where storage is disabled or its folder
\* was taken away, before it stored anything; nobody else stores under its key.
LEMMA FailureStep == StorageInv /\ [Next]_vars => FailureExplained'
  <1> DEFINE Explained(v) ==
        up[v].pc = "failed" /\ v \notin faulted =>
          (backend = "disabled" \/ v \in raced) /\ v \notin DOMAIN store
  <1> SUFFICES ASSUME StorageInv, [Next]_vars, NEW v \in Uploads
               PROVE  Explained(v)'
    BY DEF FailureExplained, objectKey
  <1>0. TypeOK /\ Stages /\ ToldStored /\ OrphansExplained
    BY DEF StorageInv, LeftoversExplained
  <1>1. Explained(v)
    BY DEF StorageInv, LeftoversExplained, FailureExplained, objectKey
  <1>3. \A u \in Uploads : up[u].pc \in {"idle", "create"} => u \notin DOMAIN store
    BY <1>0 DEF OrphansExplained, ToldStored, objectKey
  <1>4. ASSUME NEW u \in Uploads, Upload(u) PROVE Explained(v)'
    BY <1>0, <1>1, <1>3, <1>4 DEF Upload, Fault, Goto, TypeOK, UploadState
  <1>5. ASSUME NEW u \in Uploads, \/ Create(u) \/ CopyChunk(u) \/ CopyFails(u)
                                  \/ CopyEnds(u) \/ Commit(u) \/ Answer(u)
        PROVE  Explained(v)'
    <2>1. CASE v # u
      <3>1. raced' = raced /\ (v \in faulted' <=> v \in faulted)
        BY <1>5, <2>1 DEF Create, CopyChunk, CopyFails, CopyEnds, Commit, Answer, Fault, Created,
                               history
      <3> QED
        BY <1>1, <1>5, <2>1, <3>1, UploadWrites
    <2>2. CASE v = u
      <3> USE <2>2
      <3>1. ASSUME Create(u) PROVE Explained(v)'
        BY <1>0, <1>3, <3>1 DEF Create, Fault, Goto, Stages, TypeOK, UploadState
      <3>2. ASSUME CopyChunk(u) PROVE Explained(v)'
        BY <1>0, <3>2 DEF CopyChunk, TypeOK, UploadState
      <3>3. ASSUME CopyFails(u) \/ CopyEnds(u) \/ Commit(u) \/ Answer(u) PROVE Explained(v)'
        BY <1>0, <3>3 DEF CopyFails, CopyEnds, Commit, Answer, Created, Fault, Goto, TypeOK,
                          UploadState
      <3> QED
        BY <1>5, <3>1, <3>2, <3>3
    <2> QED
      BY <2>1, <2>2
  <1>6. ASSUME NEW k \in Keys, Delete(k) PROVE Explained(v)'
    <2>1. UNCHANGED <<up, backend, faulted, raced>>
      BY <1>6 DEF Delete
    <2>2. v \notin DOMAIN store => v \notin DOMAIN store'
      BY <1>0, <1>6, WithoutType, KeysAreUploads DEF Delete
    <2> QED
      BY <1>1, <2>1, <2>2
  <1>7. CASE DeleteFolder
    BY <1>1, <1>7 DEF DeleteFolder
  <1>2. CASE Crash
    BY <1>0, <1>1, <1>2 DEF Crash, TypeOK, UploadState, history
  <1>8. CASE UNCHANGED <<store, up, backend, faulted, raced>>
    BY <1>1, <1>8
  <1> QED
    BY <1>4, <1>5, <1>6, <1>7, <1>2, <1>8 DEF Next, vars, PresignedURL, Tick, history

-----------------------------------------------------------------------------
(* The theorems.                                                           *)

LEMMA InitInv == Init => StorageInv
  <1> SUFFICES ASSUME Init PROVE StorageInv
    OBVIOUS
  <1>0. /\ folder = FALSE /\ store = [k \in {} |-> 0]
        /\ up = [u \in Uploads |-> [pc |-> "idle", written |-> 0]]
        /\ links = {} /\ now = 0 /\ crashes = 0
        /\ told = {} /\ unsure = {} /\ deleted = {} /\ faulted = {} /\ raced = {}
    BY DEF Init
  <1>1. TypeOK
    <2>1. backend \in {"local", "s3", "gcs", "disabled"}
      BY DEF Init, New, NewProvider
    <2>2. DOMAIN store = {} /\ store \in [DOMAIN store -> 0 .. Size]
      BY <1>0
    <2>3. up \in [Uploads -> UploadState]
      BY <1>0, FileStorageAssumption DEF UploadState
    <2>4. now \in 0 .. MaxTime /\ crashes \in 0 .. MaxCrashes
      BY <1>0, FileStorageAssumption
    <2> QED
      BY <1>0, <2>1, <2>2, <2>3, <2>4 DEF TypeOK
  <1>2. ToldStored /\ Stages /\ LocalGrows /\ CommittedWhole /\ LinkTerms
    BY <1>0 DEF ToldStored, Stages, LocalGrows, CommittedWhole, LinkTerms
  <1>3. KnownReadable /\ DeletedStaysDeleted /\ LinksEnd
    BY <1>0 DEF KnownReadable, DeletedStaysDeleted, LinksEnd
  <1>4. OrphansExplained /\ FailureExplained
    BY <1>0 DEF OrphansExplained, FailureExplained
  <1> QED
    BY <1>1, <1>2, <1>3, <1>4 DEF StorageInv, AnswersHold, LeftoversExplained

\* StorageInv holds whatever uploads, deletions, links, faults and kills occur
\* in whatever order.
THEOREM StorageInvariant == Spec => []StorageInv
  <1>1. StorageInv /\ [Next]_vars => StorageInv'
    <2> SUFFICES ASSUME StorageInv, [Next]_vars PROVE StorageInv'
      OBVIOUS
    <2>1. TypeOK' /\ LinkTerms'
      BY TypeStep, LinkStep
    <2>2. LinksEnd'
      BY <2>1, LinksEndFromTerms, PTL
    <2> QED
      BY <2>1, <2>2, ToldStep, StagesStep, LocalStep, WholeStep, KnownStep, DeletedStep, OrphanStep,
         FailureStep
      DEF StorageInv, AnswersHold, LeftoversExplained
  <1> QED
    BY <1>1, InitInv, PTL DEF Spec

\* The variables keep their types.
THEOREM TypeCorrect == Spec => []TypeOK
  <1>1. StorageInv => TypeOK
    BY DEF StorageInv
  <1> QED
    BY <1>1, StorageInvariant, PTL

\* What Upload, Delete and PresignedURL answered holds: a key that was told is
\* readable and whole until somebody asks for its deletion, a deleted object
\* does not come back, and a signed link ends.
THEOREM AnswersAlwaysHold == Spec => []AnswersHold
  <1>1. StorageInv => AnswersHold
    BY DEF StorageInv
  <1> QED
    BY <1>1, StorageInvariant, PTL

\* Every object nobody was told of, and every failed upload, has a known cause.
THEOREM LeftoversAlwaysExplained == Spec => []LeftoversExplained
  <1>1. StorageInv => LeftoversExplained
    BY DEF StorageInv
  <1> QED
    BY <1>1, StorageInvariant, PTL

-----------------------------------------------------------------------------
(* The exports: what an operation does to a canvas. *)

\* The canvas is sound, and the footer was registered on one of its pages.
Ready(c, k) == Sound(c, k) /\ footer \in 0 .. Pages(c)

\* d is c and what call k has drawn on it, none of it rows.
Grows(c, d, k) ==
  /\ c \in Canvas /\ d \in Canvas
  /\ Len(c.items) <= Len(d.items) /\ Pages(c) <= Pages(d)
  /\ \A i \in 1 .. Len(c.items) : d.items[i] = c.items[i]
  /\ \A i \in Len(c.items) + 1 .. Len(d.items) :
       d.items[i].item.call = k /\ d.items[i].item.what # "row"

\* d is c and the drawing x, below what is on its page.
Adds(c, d, x) ==
  /\ c \in Canvas /\ d \in Canvas /\ x \in Drawing
  /\ d.items = Append(c.items, x)
  /\ Pages(c) <= Pages(d) /\ x.page = Pages(d)
  /\ Pages(c) = Pages(d) => c.y <= x.top
  /\ x.top + x.height <= d.y

-----------------------------------------------------------------------------
(* The constants. *)

\* The constants that are numbers or sets of numbers.
LEMMA LayoutFacts ==
  /\ RowHeights \subseteq Nat /\ Spaces \subseteq Nat /\ BottomMargins \subseteq Nat
  /\ PageHeight \in Nat /\ MaxRows \in Nat /\ MaxCalls \in Nat
  BY TableExportAssumption

\* The lines of a brand header lie within its block.
LEMMA Brands ==
  ASSUME NEW b \in BrandHeaders \cup {NoBrand}
  PROVE  /\ b \in [left : Nat, right : Nat, logo : Logos, repeat : BOOLEAN, divider : BOOLEAN]
         /\ Block(b) \in Nat /\ 5 * b.left <= Block(b) /\ 5 * b.right <= Block(b)
<1>1. b \in [left : Nat, right : Nat, logo : Logos, repeat : BOOLEAN, divider : BOOLEAN]
  <2>1. CASE b = NoBrand
    BY <2>1 DEF NoBrand, Logos
  <2>2. CASE b \in BrandHeaders
    BY <2>2, TableExportAssumption
  <2> QED BY <2>1, <2>2
<1>2. b.left \in Nat /\ b.right \in Nat
  BY <1>1
<1> QED
  BY <1>1, <1>2 DEF Block

\* Below what a page repeats there is room for a row above the trigger, whatever
\* the margin; unless it was raised far, drawRows breaks the page before gofpdf.
LEMMA Margins ==
  ASSUME bottom \in BottomMargins \cup {marginBottom}
  PROVE  /\ bottom \in Nat /\ Trigger \in Int /\ Limit \in Int
         /\ bottom <= marginBottom + 2 => Limit <= Trigger
         /\ \A b \in BrandHeaders \cup {NoBrand}, h \in RowHeights :
              marginTop + Block(b) + 4 + 9 + h <= Trigger
<1>1. bottom \in Nat /\ PageHeight \in Nat
  BY LayoutFacts DEF marginBottom
<1>2. NoBrand \in BrandHeaders \cup {NoBrand}
  OBVIOUS
<1>3. \A b \in BrandHeaders \cup {NoBrand}, h \in RowHeights :
        bottom + 6 <= PageHeight /\ RowFits(b, h, bottom)
  BY TableExportAssumption
<1>4. \A b \in BrandHeaders \cup {NoBrand}, h \in RowHeights :
              marginTop + Block(b) + 4 + 9 + h <= Trigger
  BY <1>3 DEF RowFits, Trigger
<1>5. \A b \in BrandHeaders \cup {NoBrand}, h \in RowHeights : Block(b) \in Nat /\ h \in Nat
  BY Brands, LayoutFacts
<1> QED
  BY <1>1, <1>2, <1>3, <1>4 DEF Trigger, Limit, marginBottom

-----------------------------------------------------------------------------
(* Pages. *)

\* The fields of a canvas.
LEMMA CanvasFields ==
  ASSUME NEW c \in Canvas
  PROVE  /\ c.items \in Seq(Drawing) /\ c.footers \in Seq(Nat) /\ c.y \in Nat
         /\ c.bold \in BOOLEAN /\ c.images \subseteq Logos /\ Pages(c) \in Nat
         /\ Len(c.items) \in Nat /\ DOMAIN c.items = 1 .. Len(c.items)
         /\ \A i \in 1 .. Len(c.items) : c.items[i] \in Drawing
         /\ c.footers # <<>> => Pages(c) >= 1
  BY DEF Canvas, Pages

\* The fields of a drawing.
LEMMA DrawingFields ==
  ASSUME NEW x \in Drawing
  PROVE  /\ x.item.call \in Nat /\ x.page \in Nat /\ x.top \in Nat /\ x.height \in Nat
         /\ x.bold \in BOOLEAN /\ x.item.row \in Nat
  BY DEF Drawing

\* Pages are added; nothing is drawn on them.
LEMMA AddPagesEffect ==
  ASSUME NEW c \in Canvas, c.footers # <<>>, footer \in 0 .. Pages(c), NEW n \in Nat,
         NEW d, d = AddPages(c, n)
  PROVE  /\ d \in Canvas /\ d.footers # <<>>
         /\ d.items = c.items /\ d.bold = c.bold /\ d.images = c.images
         /\ Pages(d) = Pages(c) + n
         /\ n = 0 => d = c
         /\ n > 0 => d.y = marginTop
<1>1. CASE n = 0
  BY <1>1, CanvasFields DEF AddPages
<1>2. CASE n > 0
  <2> DEFINE f == [p \in 1 .. Pages(c) + n |->
                    IF p < Pages(c) THEN c.footers[p] ELSE IF p < Pages(c) + n THEN footer ELSE 0]
  <2>1. d = [c EXCEPT !.footers = f, !.y = marginTop]
    BY <1>2 DEF AddPages
  <2>2. Pages(c) \in Nat /\ Pages(c) >= 1 /\ Pages(c) + n \in Nat /\ footer \in Nat
    BY CanvasFields
  <2>3. \A p \in 1 .. Pages(c) + n : f[p] \in Nat
    BY <2>2, CanvasFields DEF Canvas, Pages
  <2>4. f \in Seq(Nat) /\ Len(f) = Pages(c) + n
    BY <2>2, <2>3
  <2> HIDE DEF f
  <2>6. /\ d.footers = f /\ d.y = marginTop /\ d.items = c.items /\ d.bold = c.bold
        /\ d.images = c.images
    BY <2>1 DEF Canvas
  <2>7. d \in Canvas
    <3>1. f \in Seq(Nat) /\ marginTop \in Nat
      BY <2>4 DEF marginTop
    <3> HIDE <2>4
    <3> QED
      BY <2>1, <3>1 DEF Canvas
  <2>8. Pages(d) = Pages(c) + n /\ d.footers # <<>>
    BY <2>2, <2>4, <2>6 DEF Pages
  <2> QED
    BY <1>2, <2>6, <2>7, <2>8
<1> QED
  BY <1>1, <1>2

-----------------------------------------------------------------------------
(* What the operations of gofpdf do to what was drawn. *)

\* Later calls leave what was drawn well laid out.
LEMMA ReadyLater ==
  ASSUME NEW c, NEW k \in Nat, NEW m \in Nat, k <= m, Ready(c, k)
  PROVE  Ready(c, m)
<1>1. Laid(c, m)
  <2>1. Laid(c, k) /\ c \in Canvas
    BY DEF Ready, Sound
  <2> QED
    BY <2>1, CanvasFields, DrawingFields DEF Laid
<1> QED
  BY <1>1 DEF Ready, Sound

\* A canvas with the same drawings and pages, the cursor no higher.
LEMMA KeepsSound ==
  ASSUME NEW c, NEW k \in Nat, Ready(c, k), NEW d \in Canvas, d.items = c.items,
         d.footers = c.footers, d.y >= c.y, d.images = c.images, NEW m
  PROVE  Ready(d, k) /\ Grows(c, d, m) /\ TableCalls(d) \subseteq TableCalls(c)
<1>1. c \in Canvas /\ c.y >= marginTop /\ c.footers # <<>>
  BY DEF Ready, Sound
<1>2. Pages(d) = Pages(c) /\ Pages(c) \in Nat
  BY <1>1, CanvasFields DEF Pages
<1>3. Laid(d, k)
  <2>1. Laid(c, k)
    BY DEF Ready, Sound
  <2> QED
    BY <1>1, <1>2, <2>1, CanvasFields, DrawingFields DEF Laid
<1>4. Stacked(d) /\ BoldExplained(d) /\ ImagesAsked(d)
  BY <1>2 DEF Ready, Sound, Stacked, BoldExplained, ImagesAsked, Heads, At
<1>5. \A i \in DOMAIN d.items : LogoShown(d, i)
  BY DEF Ready, Sound, LogoShown
<1>6. d.y >= marginTop
  BY <1>1, CanvasFields DEF marginTop
<1>7. Grows(c, d, m)
  BY <1>1, <1>2, CanvasFields DEF Grows
<1>8. TableCalls(d) \subseteq TableCalls(c)
  BY DEF TableCalls
<1> QED
  BY <1>1, <1>2, <1>3, <1>4, <1>5, <1>6, <1>7, <1>8 DEF Ready, Sound

\* A change of font draws nothing.
LEMMA BoldEffect ==
  ASSUME NEW c, NEW k \in Nat, Ready(c, k), NEW b \in BOOLEAN, NEW d, d = Bold(c, b), NEW m
  PROVE  /\ Ready(d, k) /\ Grows(c, d, m) /\ TableCalls(d) \subseteq TableCalls(c)
         /\ d.items = c.items /\ d.footers = c.footers /\ d.y = c.y /\ d.bold = b
<1>1. c \in Canvas
  BY DEF Ready, Sound
<1>2. d \in Canvas /\ d.items = c.items /\ d.footers = c.footers /\ d.y = c.y /\ d.bold = b
        /\ d.images = c.images
  BY <1>1 DEF Bold, Canvas
<1>3. d.y >= c.y
  BY <1>1, <1>2, CanvasFields
<1> QED
  BY <1>1, <1>2, <1>3, KeepsSound

\* Moving the cursor down draws nothing.
LEMMA DownEffect ==
  ASSUME NEW c, NEW k \in Nat, Ready(c, k), NEW h \in Nat, NEW d, d = Down(c, h), NEW m
  PROVE  /\ Ready(d, k) /\ Grows(c, d, m) /\ TableCalls(d) \subseteq TableCalls(c)
         /\ d.items = c.items /\ d.footers = c.footers /\ d.y = c.y + h /\ d.bold = c.bold
<1>1. c \in Canvas
  BY DEF Ready, Sound
<1>2. d \in Canvas /\ d.items = c.items /\ d.footers = c.footers /\ d.y = c.y + h
        /\ d.bold = c.bold /\ d.images = c.images
  <2>1. c.y + h \in Nat
    BY <1>1, CanvasFields
  <2> DEFINE y == c.y + h
  <2>2. d = [c EXCEPT !.y = y] /\ y \in Nat
    BY <2>1 DEF Down
  <2> HIDE DEF y
  <2>3. d \in Canvas /\ d.items = c.items /\ d.footers = c.footers /\ d.y = y
        /\ d.bold = c.bold /\ d.images = c.images
    BY <1>1, <2>2 DEF Canvas
  <2> QED BY <2>3 DEF y
<1>3. d.y >= c.y
  BY <1>1, <1>2, CanvasFields
<1> QED
  BY <1>1, <1>2, <1>3, KeepsSound, CanvasFields

\* What a call draws in two steps it draws in one.
LEMMA GrowsTwice ==
  ASSUME NEW c, NEW d, NEW e, NEW k, Grows(c, d, k), Grows(d, e, k)
  PROVE  Grows(c, e, k)
<1>1. /\ c \in Canvas /\ d \in Canvas /\ e \in Canvas
      /\ Len(c.items) <= Len(d.items) /\ Len(d.items) <= Len(e.items)
      /\ Pages(c) <= Pages(d) /\ Pages(d) <= Pages(e)
  BY DEF Grows
<1>2. /\ Len(c.items) \in Nat /\ Len(d.items) \in Nat /\ Len(e.items) \in Nat
      /\ Pages(c) \in Nat /\ Pages(d) \in Nat /\ Pages(e) \in Nat
  BY <1>1, CanvasFields
<1>3. \A i \in 1 .. Len(c.items) : e.items[i] = c.items[i]
  BY <1>1, <1>2 DEF Grows
<1>4. \A i \in Len(c.items) + 1 .. Len(e.items) :
        e.items[i].item.call = k /\ e.items[i].item.what # "row"
  <2> TAKE i \in Len(c.items) + 1 .. Len(e.items)
  <2>1. CASE i \in Len(c.items) + 1 .. Len(d.items)
    <3>1. e.items[i] = d.items[i]
      BY <1>1, <1>2, <2>1 DEF Grows
    <3> QED BY <2>1, <3>1 DEF Grows
  <2>2. CASE i \in Len(d.items) + 1 .. Len(e.items)
    BY <2>2 DEF Grows
  <2> QED BY <1>1, <1>2, <2>1, <2>2
<1> QED
  BY <1>1, <1>2, <1>3, <1>4 DEF Grows

\* A new drawing comes last.
LEMMA AddsItems ==
  ASSUME NEW c, NEW d, NEW x, Adds(c, d, x)
  PROVE  /\ Len(c.items) \in Nat /\ Len(d.items) = Len(c.items) + 1
         /\ DOMAIN c.items = 1 .. Len(c.items) /\ DOMAIN d.items = 1 .. Len(c.items) + 1
         /\ \A i \in 1 .. Len(c.items) : d.items[i] = c.items[i]
         /\ d.items[Len(c.items) + 1] = x
<1>1. c.items \in Seq(Drawing) /\ x \in Drawing /\ d.items = Append(c.items, x)
  BY CanvasFields DEF Adds
<1> QED
  BY <1>1

\* What is drawn below the rest of its page leaves everything well laid out.
LEMMA AddsSound ==
  ASSUME NEW c, NEW k \in Nat, Ready(c, k), NEW d, NEW x, Adds(c, d, x),
         d.y >= marginTop, NoLogo \notin d.images, d.footers # <<>>,
         d.images \subseteq c.images \cup {x.item.asked}, x.item.call \in 0 .. k,
         \/ x.item.shown = x.item.asked
         \/ SameSource(x.item.shown, x.item.asked) /\ x.item.shown \in c.images,
         x.item.what = "row" =>
           /\ x.top + x.height <= Trigger
           /\ x.bold => \E i, j \in Heads(c, x.item.call) : i < j
  PROVE  Ready(d, k)
<1> DEFINE n == Len(c.items)
<1>1. /\ c \in Canvas /\ d \in Canvas /\ x \in Drawing /\ Laid(c, k) /\ Stacked(c)
      /\ BoldExplained(c) /\ footer \in 0 .. Pages(c) /\ ImagesAsked(c)
      /\ \A i \in DOMAIN c.items : LogoShown(c, i)
  BY DEF Adds, Ready, Sound
<1>2. /\ n \in Nat /\ Len(d.items) = n + 1
      /\ DOMAIN c.items = 1 .. n /\ DOMAIN d.items = 1 .. n + 1
      /\ \A i \in 1 .. n : d.items[i] = c.items[i]
      /\ d.items[n + 1] = x
  BY AddsItems
<1>3. /\ Pages(c) \in Nat /\ Pages(d) \in Nat /\ Pages(c) <= Pages(d) /\ x.page = Pages(d)
      /\ Pages(c) = Pages(d) => c.y <= x.top
      /\ x.top + x.height <= d.y
      /\ x.top \in Nat /\ x.height \in Nat /\ c.y \in Nat /\ d.y \in Nat
  BY <1>1, CanvasFields, DrawingFields DEF Adds
<1> HIDE DEF n
<1>4. \A i \in 1 .. n : /\ c.items[i].page \in Nat /\ c.items[i].page <= Pages(c)
                        /\ c.items[i].top \in Nat /\ c.items[i].height \in Nat
                        /\ c.items[i].item.call <= k
                        /\ c.items[i].page = Pages(c) =>
                             c.items[i].top + c.items[i].height <= c.y
  BY <1>1, <1>2, CanvasFields, DrawingFields DEF Laid, n
<1>5. Laid(d, k)
  <2> SUFFICES ASSUME NEW i \in 1 .. n + 1
               PROVE  /\ d.items[i].page <= Pages(d) /\ d.items[i].item.call <= k
                      /\ d.items[i].page = Pages(d) =>
                           d.items[i].top + d.items[i].height <= d.y
    BY <1>2 DEF Laid
  <2>1. CASE i = n + 1
    BY <1>2, <1>3, <2>1
  <2>2. CASE i \in 1 .. n
    <3>1. d.items[i] = c.items[i]
      BY <1>2, <2>2
    <3>2. /\ c.items[i].page <= Pages(c) /\ c.items[i].page \in Nat
          /\ c.items[i].item.call <= k
          /\ c.items[i].top \in Nat /\ c.items[i].height \in Nat
      BY <1>4, <2>2
    <3>3. ASSUME c.items[i].page = Pages(d)
          PROVE  c.items[i].top + c.items[i].height <= d.y
      <4>1. c.items[i].page = Pages(c) /\ c.y <= x.top
        BY <1>3, <3>2, <3>3
      <4>2. c.items[i].top + c.items[i].height <= c.y
        BY <1>4, <2>2, <4>1
      <4>3. c.y <= d.y
        BY <1>3, <4>1
      <4>4. c.items[i].top + c.items[i].height \in Nat
        BY <3>2, SMTT(30)
      <4> QED BY <1>3, <4>2, <4>3, <4>4
    <3> QED BY <1>3, <3>1, <3>2, <3>3
  <2> QED BY <1>2, <2>1, <2>2
<1>6. Stacked(d)
  <2> SUFFICES ASSUME NEW i \in 1 .. n + 1
               PROVE  /\ \A j \in 1 .. i - 1 : d.items[i].page = d.items[j].page =>
                           d.items[i].top >= d.items[j].top + d.items[j].height
                      /\ d.items[i].item.what = "row" =>
                           d.items[i].top + d.items[i].height <= Trigger
    BY <1>2 DEF Stacked
  <2>1. CASE i = n + 1
    <3>1. i - 1 = n /\ d.items[i] = x
      BY <1>2, <2>1
    <3>2. ASSUME NEW j \in 1 .. n, x.page = c.items[j].page
          PROVE  x.top >= c.items[j].top + c.items[j].height
      <4>1. Pages(c) = Pages(d) /\ c.items[j].page = Pages(c)
        BY <1>3, <1>4, <3>2
      <4>2. c.items[j].top + c.items[j].height <= c.y /\ c.items[j].top \in Nat
            /\ c.items[j].height \in Nat
        BY <1>4, <4>1
      <4>3. c.y <= x.top /\ c.y \in Nat /\ x.top \in Nat
        BY <1>3, <4>1
      <4> QED BY <4>2, <4>3
    <3> QED BY <1>2, <3>1, <3>2
  <2>2. CASE i \in 1 .. n
    <3>1. \A j \in 1 .. i - 1 : j \in 1 .. n /\ d.items[j] = c.items[j]
      BY <1>2, <2>2
    <3> QED BY <1>1, <1>2, <2>2, <3>1 DEF Stacked
  <2> QED BY <1>2, <2>1, <2>2
<1>7. BoldExplained(d)
  <2>1. \A call : \A i \in Heads(c, call) : i \in Heads(d, call) /\ i \in 1 .. n
    BY <1>2 DEF Heads, At
  <2> SUFFICES ASSUME NEW i \in 1 .. n + 1, d.items[i].item.what = "row", d.items[i].bold
               PROVE  \E j, m \in Heads(d, d.items[i].item.call) : j < m /\ m < i
    BY <1>2 DEF BoldExplained
  <2>2. CASE i = n + 1
    <3>1. PICK j, m \in Heads(c, x.item.call) : j < m
      BY <1>2, <2>2
    <3>2. j \in Heads(d, x.item.call) /\ m \in Heads(d, x.item.call) /\ m \in 1 .. n
      BY <2>1
    <3> QED BY <1>2, <2>2, <3>1, <3>2
  <2>3. CASE i \in 1 .. n
    <3>1. PICK j, m \in Heads(c, c.items[i].item.call) : j < m /\ m < i
      BY <1>1, <1>2, <2>3 DEF BoldExplained
    <3> QED BY <1>2, <2>1, <2>3, <3>1
  <2> QED BY <1>2, <2>2, <2>3
<1>8. \A i \in DOMAIN d.items : LogoShown(d, i)
  <2> SUFFICES ASSUME NEW i \in 1 .. n + 1 PROVE LogoShown(d, i)
    BY <1>2
  <2>1. CASE i \in 1 .. n
    <3>1. LogoShown(c, i) /\ d.items[i] = c.items[i]
      BY <1>1, <1>2, <2>1
    <3>2. \A j \in 1 .. i - 1 : d.items[j] = c.items[j]
      BY <1>2, <2>1
    <3> QED BY <3>1, <3>2 DEF LogoShown
  <2>2. CASE i = n + 1
    <3>1. d.items[i] = x /\ i - 1 = n
      BY <1>2, <2>2
    <3>2. x.item.shown \in c.images => \E j \in 1 .. n : c.items[j].item.asked = x.item.shown
      BY <1>1, <1>2 DEF ImagesAsked
    <3>3. \A j \in 1 .. n : d.items[j] = c.items[j]
      BY <1>2
    <3> QED BY <3>1, <3>2, <3>3 DEF LogoShown
  <2> QED BY <1>2, <2>1, <2>2
<1>9. footer \in 0 .. Pages(d)
  BY <1>1, <1>3
<1>10. ImagesAsked(d)
  <2> SUFFICES ASSUME NEW l \in d.images
               PROVE  \E j \in 1 .. n + 1 : d.items[j].item.asked = l
    BY <1>2 DEF ImagesAsked
  <2>1. CASE l = x.item.asked
    BY <1>2, <2>1, n + 1 \in 1 .. n + 1
  <2>2. CASE l \in c.images
    <3>1. PICK j \in 1 .. n : c.items[j].item.asked = l
      BY <1>1, <1>2, <2>2 DEF ImagesAsked
    <3> QED BY <1>2, <3>1
  <2> QED BY <2>1, <2>2
<1> QED
  BY <1>1, <1>5, <1>6, <1>7, <1>8, <1>9, <1>10 DEF Ready, Sound

\* What is drawn, before it has a place.
Items == [what : {"header", "row", "text", "brand"}, call : Nat, row : Nat,
          asked : Logos, shown : Logos]

\* A drawing is placed on the last page, in the font that is set.
LEMMA PlaceEffect ==
  ASSUME NEW c \in Canvas, NEW item \in Items, NEW top \in Nat, NEW height \in Nat,
         NEW d, d = Place(c, item, top, height),
         NEW x, x = d.items[Len(c.items) + 1]
  PROVE  /\ x \in Drawing /\ d \in Canvas /\ d.items = Append(c.items, x)
         /\ x.item = item /\ x.page = Pages(c) /\ x.top = top /\ x.height = height
         /\ x.bold = c.bold
         /\ d.footers = c.footers /\ d.y = c.y /\ d.bold = c.bold /\ d.images = c.images
<1> DEFINE z == [item |-> item, page |-> Pages(c), top |-> top, height |-> height,
                 bold |-> c.bold]
<1>1. z \in Drawing
  BY CanvasFields DEF Drawing, Items
<1>0. z.item = item /\ z.page = Pages(c) /\ z.top = top /\ z.height = height /\ z.bold = c.bold
  OBVIOUS
<1>2. d = [c EXCEPT !.items = Append(@, z)]
  BY DEF Place
<1> HIDE DEF z
<1> DEFINE s == Append(c.items, z)
<1>3. s \in Seq(Drawing) /\ d = [c EXCEPT !.items = s]
  BY <1>1, <1>2, CanvasFields
<1> HIDE DEF s
<1>4. /\ d \in Canvas /\ d.items = s
      /\ d.footers = c.footers /\ d.y = c.y /\ d.bold = c.bold /\ d.images = c.images
  BY <1>3 DEF Canvas
<1>5. s[Len(c.items) + 1] = z
  BY <1>1, CanvasFields DEF s
<1>6. x = z
  BY <1>4, <1>5
<1> QED
  BY <1>0, <1>1, <1>4, <1>6 DEF s

\* A line of cells is drawn at the cursor, or at the top of the next page.
LEMMA DrawEffect ==
  ASSUME bottom \in BottomMargins \cup {marginBottom},
         NEW c, NEW k \in Nat, Ready(c, k), NEW item \in Items, NEW h \in Nat,
         NEW d, d = Draw(c, item, h), NEW x, x = d.items[Len(c.items) + 1]
  PROVE  /\ Adds(c, d, x) /\ x.item = item /\ x.bold = c.bold /\ x.height = h
         /\ d.bold = c.bold /\ d.images = c.images /\ d.footers # <<>>
         /\ d.y >= marginTop
         /\ c.y + h <= Trigger => Pages(d) = Pages(c) /\ x.top = c.y /\ d.y = c.y + h
         /\ c.y + h > Trigger => x.top = marginTop
<1> DEFINE e == IF c.y + h > Trigger THEN AddPage(c) ELSE c
<1>1. c \in Canvas /\ c.footers # <<>> /\ footer \in 0 .. Pages(c) /\ c.y >= marginTop
  BY DEF Ready, Sound
<1>2. Trigger \in Int /\ c.y \in Nat /\ c.y + h \in Nat /\ Pages(c) \in Nat
  BY <1>1, Margins, CanvasFields
<1>3. /\ e \in Canvas /\ e.footers # <<>> /\ e.items = c.items /\ e.bold = c.bold
      /\ e.images = c.images /\ e.y >= marginTop
      /\ Pages(c) <= Pages(e)
      /\ c.y + h <= Trigger => e = c
      /\ c.y + h > Trigger => e.y = marginTop /\ Pages(e) = Pages(c) + 1
  <2>1. CASE c.y + h > Trigger
    <3>1. PICK a : a = AddPages(c, 1)
      OBVIOUS
    <3>2. e = a
      BY <2>1, <3>1 DEF AddPage
    <3> HIDE DEF e
    <3>3. /\ a \in Canvas /\ a.footers # <<>> /\ a.items = c.items /\ a.bold = c.bold
          /\ a.images = c.images /\ a.y = marginTop
          /\ Pages(a) = Pages(c) + 1
      BY <1>1, <3>1, AddPagesEffect
    <3> QED
      BY <1>2, <2>1, <3>2, <3>3 DEF marginTop
  <2>2. CASE c.y + h <= Trigger
    <3>1. e = c
      BY <1>2, <2>2
    <3> HIDE DEF e
    <3>2. Pages(c) <= Pages(c) /\ ~ c.y + h > Trigger
      BY <1>2, <2>2
    <3> QED
      BY <1>1, <3>1, <3>2
  <2> QED BY <1>2, <2>1, <2>2
<1>4. PICK p : p = Place(e, item, e.y, h)
  OBVIOUS
<1>5. d = [p EXCEPT !.y = e.y + h]
  BY <1>4 DEF Draw
<1> HIDE DEF e
<1>6. e.y \in Nat /\ e.y + h \in Nat /\ Pages(e) \in Nat
  BY <1>3, CanvasFields
<1>7. PICK z : z = p.items[Len(e.items) + 1]
  OBVIOUS
<1>9. /\ z \in Drawing /\ p \in Canvas /\ p.items = Append(e.items, z)
      /\ z.item = item /\ z.page = Pages(e) /\ z.top = e.y /\ z.height = h /\ z.bold = e.bold
      /\ p.footers = e.footers /\ p.y = e.y /\ p.bold = e.bold /\ p.images = e.images
  <2>1. e \in Canvas /\ e.y \in Nat
    BY <1>3, <1>6
  <2>2. /\ z \in Drawing /\ p \in Canvas /\ p.items = Append(e.items, z)
        /\ z.item = item /\ z.page = Pages(e) /\ z.top = e.y /\ z.height = h
        /\ p.footers = e.footers /\ p.y = e.y /\ p.images = e.images
    BY <1>4, <1>7, <2>1, PlaceEffect
  <2>3. z.bold = e.bold /\ p.bold = e.bold
    BY <1>4, <1>7, <2>1, PlaceEffect
  <2> QED BY <2>2, <2>3
<1>10. PICK y : y = e.y + h
  OBVIOUS
<1>11. d = [p EXCEPT !.y = y] /\ y \in Nat
  BY <1>5, <1>6, <1>10
<1>12. /\ d \in Canvas /\ d.items = Append(c.items, z) /\ d.footers = e.footers
       /\ d.y = y /\ d.bold = c.bold /\ d.images = c.images
  BY <1>3, <1>9, <1>11 DEF Canvas
<1>13. x = z
  BY <1>1, <1>9, <1>12, CanvasFields
<1>14. Pages(d) = Pages(e)
  BY <1>12 DEF Pages
<1>15. Adds(c, d, z)
  <2>1. Pages(c) = Pages(d) => c.y <= z.top
    BY <1>2, <1>3, <1>9, <1>14
  <2>2. z.top + z.height <= d.y
    BY <1>6, <1>9, <1>10, <1>12
  <2> QED
    BY <1>1, <1>3, <1>9, <1>12, <1>14, <2>1, <2>2 DEF Adds
<1>16. d.footers # <<>>
  BY <1>3, <1>12
<1>17. d.y >= marginTop
  BY <1>3, <1>6, <1>10, <1>12 DEF marginTop
<1> QED
  BY <1>3, <1>9, <1>10, <1>12, <1>13, <1>14, <1>15, <1>16, <1>17

\* One more drawing that is no row; no table begins but by a header.
LEMMA AddsGrows ==
  ASSUME NEW c, NEW d, NEW x, Adds(c, d, x), x.item.what # "row"
  PROVE  /\ Grows(c, d, x.item.call)
         /\ x.item.what # "header" => TableCalls(d) \subseteq TableCalls(c)
<1>1. c \in Canvas /\ d \in Canvas /\ Pages(c) <= Pages(d)
  BY DEF Adds
<1>2. \A i \in Len(c.items) + 1 .. Len(d.items) : d.items[i] = x
  BY AddsItems
<1>3. Len(c.items) <= Len(d.items) /\ \A i \in 1 .. Len(c.items) : d.items[i] = c.items[i]
  BY AddsItems
<1>4. x.item.what # "header" => TableCalls(d) \subseteq TableCalls(c)
  <2> DEFINE n == Len(c.items)
  <2>1. /\ n \in Nat /\ DOMAIN c.items = 1 .. n /\ DOMAIN d.items = 1 .. n + 1
        /\ \A i \in 1 .. n : d.items[i] = c.items[i]
        /\ d.items[n + 1] = x
    BY AddsItems
  <2> HIDE DEF n
  <2> QED BY <2>1 DEF TableCalls
<1> QED
  BY <1>1, <1>2, <1>3, <1>4 DEF Grows

\* A drawing that is not a row can be added at any time.
LEMMA DrawReady ==
  ASSUME bottom \in BottomMargins \cup {marginBottom},
         NEW c, NEW k \in Nat, Ready(c, k), NEW item \in Items, NEW h \in Nat,
         item.what # "row", item.call \in 0 .. k, item.shown = item.asked,
         NEW d, d = Draw(c, item, h)
  PROVE  /\ Ready(d, k) /\ Grows(c, d, item.call) /\ d.bold = c.bold
         /\ item.what # "header" => TableCalls(d) \subseteq TableCalls(c)
         /\ Len(d.items) = Len(c.items) + 1
         /\ d.items[Len(c.items) + 1].item = item
         /\ d.items[Len(c.items) + 1].page = Pages(d)
         /\ c.y + h <= Trigger => Pages(d) = Pages(c) /\ d.y = c.y + h
<1>1. PICK x : x = d.items[Len(c.items) + 1]
  OBVIOUS
<1>2. /\ Adds(c, d, x) /\ x.item = item /\ d.images = c.images /\ d.footers # <<>>
      /\ d.y >= marginTop
      /\ c.y + h <= Trigger => Pages(d) = Pages(c) /\ d.y = c.y + h
  BY <1>1, DrawEffect
<1>3. d.bold = c.bold
  BY DrawEffect
<1>4. NoLogo \notin d.images
  BY <1>2 DEF Ready, Sound, ImagesAsked
<1>5. Ready(d, k)
  BY <1>2, <1>4, AddsSound
<1>6. /\ Grows(c, d, item.call)
      /\ item.what # "header" => TableCalls(d) \subseteq TableCalls(c)
  BY <1>2, AddsGrows
<1>7. Len(d.items) = Len(c.items) + 1 /\ x.page = Pages(d)
  BY <1>2, AddsItems DEF Adds
<1> QED
  BY <1>1, <1>2, <1>3, <1>5, <1>6, <1>7

\* A header, a text and a row show no logo.
LEMMA ItemType ==
  ASSUME NEW call \in Nat, NEW row \in Nat, NEW what \in {"header", "row", "text", "brand"},
         NEW item, item = Item(what, call, row)
  PROVE  /\ item \in Items /\ item.what = what /\ item.call = call /\ item.row = row
         /\ item.shown = item.asked
<1>1. NoLogo \in Logos
  BY DEF Logos
<1> QED
  BY <1>1 DEF Item, Items

\* The header of a table is on the page the cursor is on after it.
LEMMA HeaderEffect ==
  ASSUME bottom \in BottomMargins \cup {marginBottom},
         NEW c, NEW k \in Nat, Ready(c, k), NEW call \in 0 .. k,
         NEW d, d = drawHeader(c, call)
  PROVE  /\ Ready(d, k) /\ Grows(c, d, call)
         /\ Len(d.items) = Len(c.items) + 1
         /\ d.items[Len(c.items) + 1].item.what = "header"
         /\ d.items[Len(c.items) + 1].item.call = call
         /\ d.items[Len(c.items) + 1].page = Pages(d)
         /\ c.y + 9 <= Trigger => Pages(d) = Pages(c) /\ d.y = c.y + 9
<1>1. PICK e : e = Bold(c, TRUE)
  OBVIOUS
<1>2. /\ Ready(e, k) /\ Grows(c, e, call) /\ e.items = c.items /\ e.footers = c.footers
      /\ e.y = c.y
  BY <1>1, BoldEffect
<1>3. PICK item : item = Item("header", call, 0)
  OBVIOUS
<1>4. item \in Items /\ item.what = "header" /\ item.call = call /\ item.shown = item.asked
  BY <1>3, ItemType
<1>5. d = Draw(e, item, 9)
  BY <1>1, <1>3 DEF drawHeader
<1>6. /\ Ready(d, k) /\ Grows(e, d, call)
      /\ Len(d.items) = Len(e.items) + 1
      /\ d.items[Len(e.items) + 1].item = item
      /\ d.items[Len(e.items) + 1].page = Pages(d)
      /\ e.y + 9 <= Trigger => Pages(d) = Pages(e) /\ d.y = e.y + 9
  BY <1>2, <1>4, <1>5, DrawReady, SMTT(30)
<1>7. Grows(c, d, call)
  BY <1>2, <1>6, GrowsTwice
<1> QED
  BY <1>2, <1>4, <1>6, <1>7 DEF Pages

\* A line of text.
LEMMA TextEffect ==
  ASSUME bottom \in BottomMargins \cup {marginBottom},
         NEW c, NEW k \in Nat, Ready(c, k), NEW call \in 0 .. k, NEW h \in Nat,
         NEW b \in BOOLEAN, NEW d, d = Draw(Bold(c, b), Text(call), h)
  PROVE  Ready(d, k) /\ Grows(c, d, call) /\ TableCalls(d) \subseteq TableCalls(c)
<1>1. PICK e : e = Bold(c, b)
  OBVIOUS
<1>2. Ready(e, k) /\ Grows(c, e, call) /\ TableCalls(e) \subseteq TableCalls(c)
  BY <1>1, BoldEffect
<1>3. PICK item : item = Item("text", call, 0)
  OBVIOUS
<1>0. call \in Nat /\ 0 \in Nat
  OBVIOUS
<1>4. item \in Items /\ item.what = "text" /\ item.call = call /\ item.shown = item.asked
  BY <1>0, <1>3, ItemType
<1>5. d = Draw(e, item, h)
  BY <1>1, <1>3 DEF Text
<1>6. Ready(d, k) /\ Grows(e, d, call) /\ TableCalls(d) \subseteq TableCalls(e)
  BY <1>2, <1>4, <1>5, DrawReady
<1> QED
  BY <1>2, <1>6, GrowsTwice

\* A title block: two lines of text.
LEMMA TitleEffect ==
  ASSUME bottom \in BottomMargins \cup {marginBottom},
         NEW c, NEW k \in Nat, Ready(c, k), NEW call \in 0 .. k,
         NEW d, d = drawTitleBlock(c, call)
  PROVE  Ready(d, k) /\ Grows(c, d, call) /\ TableCalls(d) \subseteq TableCalls(c)
<1>1. PICK e : e = Draw(Bold(c, TRUE), Text(call), 10)
  OBVIOUS
<1>2. PICK f : f = Draw(Bold(e, FALSE), Text(call), 6)
  OBVIOUS
<1>3. Ready(e, k) /\ Grows(c, e, call) /\ TableCalls(e) \subseteq TableCalls(c)
  BY <1>1, TextEffect
<1>4. Ready(f, k) /\ Grows(e, f, call) /\ TableCalls(f) \subseteq TableCalls(e)
  <2>1. Ready(e, k)
    BY <1>3
  <2> QED BY <1>2, <2>1, TextEffect
<1>5. d = Down(f, 2)
  BY <1>1, <1>2 DEF drawTitleBlock
<1>6. Ready(d, k) /\ Grows(f, d, call) /\ TableCalls(d) \subseteq TableCalls(f)
  BY <1>4, <1>5, DownEffect
<1> QED
  BY <1>3, <1>4, <1>6, GrowsTwice

\* Registering a logo draws nothing; afterwards an image has its key, and none but
\* the logo's own is new.
LEMMA RegisterEffect ==
  ASSUME NEW c \in Canvas, NoLogo \notin c.images, NEW l \in Logos, NEW d, d = registerLogo(c, l)
  PROVE  /\ d \in Canvas /\ d.items = c.items /\ d.footers = c.footers /\ d.y = c.y
         /\ d.bold = c.bold /\ d.images \subseteq c.images \cup {l} /\ NoLogo \notin d.images
         /\ l # NoLogo => \E i \in d.images : logoKey(i) = logoKey(l)
<1>1. CASE Known(c, l)
  BY <1>1 DEF registerLogo, Known
<1>2. CASE ~ Known(c, l)
  <2> DEFINE s == c.images \cup {l}
  <2>1. s \subseteq Logos /\ NoLogo \notin s /\ l \in s
    BY <1>2, CanvasFields DEF Known
  <2>2. d = [c EXCEPT !.images = s]
    BY <1>2 DEF registerLogo
  <2>3. s \subseteq c.images \cup {l}
    OBVIOUS
  <2> HIDE DEF s
  <2>4. /\ d \in Canvas /\ d.items = c.items /\ d.footers = c.footers /\ d.y = c.y
        /\ d.bold = c.bold /\ d.images = s
    BY <2>1, <2>2 DEF Canvas
  <2> QED
    BY <2>1, <2>3, <2>4
<1> QED
  BY <1>1, <1>2

\* Logos with one key come from one source.
LEMMA KeySource ==
  ASSUME NEW l, NEW m, l # NoLogo, m # NoLogo, logoKey(l) = logoKey(m)
  PROVE  SameSource(l, m)
<1>1. CASE l.path # 0 /\ m.path # 0
  BY <1>1 DEF logoKey, SameSource
<1>2. CASE l.path = 0 /\ m.path = 0
  BY <1>2 DEF logoKey, SameSource
<1>3. CASE l.path = 0 /\ m.path # 0
  BY <1>3 DEF logoKey
<1>4. CASE l.path # 0 /\ m.path = 0
  BY <1>4 DEF logoKey
<1> QED
  BY <1>1, <1>2, <1>3, <1>4

\* The number of lines that lie below the trigger.
LEMMA LinesBelow ==
  ASSUME NEW y \in Nat, NEW n \in Nat, Trigger \in Int,
         NEW m, m = Cardinality({i \in 1 .. n : y + 5 * i > Trigger})
  PROVE  m \in Nat /\ (y + 5 * n <= Trigger => m = 0)
<1>1. IsFiniteSet(1 .. n)
  BY FS_Interval
<1>2. IsFiniteSet({i \in 1 .. n : y + 5 * i > Trigger})
  BY <1>1, FS_Subset
<1>3. y + 5 * n <= Trigger => {i \in 1 .. n : y + 5 * i > Trigger} = {}
  OBVIOUS
<1> QED
  BY <1>2, <1>3, FS_CardinalityType, FS_EmptySet

\* A brand header: one drawing that shows its logo or one of the same source that was
\* registered before; the cursor ends below it.
LEMMA BrandEffect ==
  ASSUME bottom \in BottomMargins \cup {marginBottom},
         NEW c, NEW k \in Nat, Ready(c, k), NEW call \in 0 .. k,
         NEW b \in BrandHeaders \cup {NoBrand}, NEW d, d = drawBrandHeader(c, b, call)
  PROVE  /\ Ready(d, k) /\ Grows(c, d, call) /\ TableCalls(d) \subseteq TableCalls(c)
         /\ Len(d.items) = Len(c.items) + 1
         /\ d.items[Len(c.items) + 1].item.what = "brand"
         /\ d.items[Len(c.items) + 1].item.call = call
         /\ c.y + Block(b) <= Trigger => d.y <= c.y + Block(b) + 4
<1> DEFINE low(n) == Cardinality({i \in 1 .. n : c.y + 5 * i > Trigger})
<1>1. /\ b.left \in Nat /\ b.right \in Nat /\ b.logo \in Logos /\ b.divider \in BOOLEAN
      /\ Block(b) \in Nat /\ 5 * b.left <= Block(b) /\ 5 * b.right <= Block(b)
  BY Brands
<1>2. c \in Canvas /\ c.y \in Nat /\ Trigger \in Int /\ c.y >= marginTop
  BY CanvasFields, Margins DEF Ready, Sound
<1>3. PICK n : n = low(b.left) + low(b.right)
  OBVIOUS
<1>4. n \in Nat
  <2>1. low(b.left) \in Nat /\ low(b.right) \in Nat
    BY <1>1, <1>2, LinesBelow
  <2> QED BY <1>3, <2>1
<1>5. PICK r : r = registerLogo(c, b.logo)
  OBVIOUS
<1>6. /\ r \in Canvas /\ r.items = c.items /\ r.footers = c.footers /\ r.y = c.y
      /\ r.images \subseteq c.images \cup {b.logo} /\ NoLogo \notin r.images
      /\ b.logo # NoLogo => \E i \in r.images : logoKey(i) = logoKey(b.logo)
  <2>1. NoLogo \notin c.images
    BY DEF Ready, Sound, ImagesAsked
  <2> QED BY <1>1, <1>2, <1>5, <2>1, RegisterEffect
<1>7. PICK a : a = AddPages(r, n)
  OBVIOUS
<1>8. /\ a \in Canvas /\ a.footers # <<>> /\ a.items = r.items /\ a.images = r.images
      /\ Pages(a) = Pages(r) + n
  <2>1. r.footers # <<>> /\ footer \in 0 .. Pages(r)
    BY <1>6 DEF Ready, Sound, Pages
  <2> QED BY <1>4, <1>6, <1>7, <2>1, AddPagesEffect
<1>9. NoLogo \notin a.images /\ a.images \subseteq Logos /\ a.images \subseteq c.images \cup {b.logo}
  BY <1>6, <1>8, CanvasFields
<1> DEFINE chosen == IF b.logo = NoLogo THEN NoLogo
                     ELSE CHOOSE m \in a.images : logoKey(m) = logoKey(b.logo)
<1>10. PICK l : l = chosen
  OBVIOUS
<1>11. l \in Logos /\ (l = b.logo \/ (SameSource(l, b.logo) /\ l \in c.images))
  <2>1. CASE b.logo = NoLogo
    <3>1. l = NoLogo
      BY <1>10, <2>1
    <3>2. l = b.logo
      BY <2>1, <3>1
    <3> HIDE DEF chosen
    <3> QED BY <1>1, <3>2
  <2>2. CASE b.logo # NoLogo
    <3>1. l = CHOOSE m \in a.images : logoKey(m) = logoKey(b.logo)
      BY <1>10, <2>2
    <3>2. \E m \in a.images : logoKey(m) = logoKey(b.logo)
      BY <1>6, <1>8, <2>2
    <3>3. l \in a.images /\ logoKey(l) = logoKey(b.logo)
      BY <3>1, <3>2
    <3>4. l \in Logos /\ l # NoLogo /\ (l = b.logo \/ l \in c.images)
      BY <1>9, <3>3
    <3> HIDE DEF chosen
    <3> QED BY <2>2, <3>3, <3>4, KeySource
  <2> QED BY <2>1, <2>2
<1> DEFINE Brand == [Item("brand", call, 0) EXCEPT !.asked = b.logo, !.shown = l]
<1>12. PICK item : item = Brand
  OBVIOUS
<1>13. /\ item \in Items /\ item.what = "brand" /\ item.call = call
       /\ item.asked = b.logo /\ item.shown = l
  <2>1. item = [what |-> "brand", call |-> call, row |-> 0, asked |-> b.logo, shown |-> l]
    BY <1>12 DEF Item
  <2> QED BY <1>1, <1>11, <2>1 DEF Items
<1>14. PICK p : p = Place(a, item, c.y, Block(b))
  OBVIOUS
<1>15. PICK x : x = p.items[Len(a.items) + 1]
  OBVIOUS
<1>16. /\ x \in Drawing /\ p \in Canvas /\ p.items = Append(a.items, x)
       /\ x.item = item /\ x.page = Pages(a) /\ x.top = c.y /\ x.height = Block(b)
       /\ p.footers = a.footers /\ p.images = a.images
  <2>1. a \in Canvas /\ item \in Items /\ c.y \in Nat /\ Block(b) \in Nat
    BY <1>1, <1>2, <1>8, <1>13
  <2> HIDE DEF chosen, Brand, low
  <2> QED BY <1>14, <1>15, <2>1, PlaceEffect
<1>17. PICK y : y = c.y + Block(b) + 2 + (IF b.divider THEN 2 ELSE 0)
  OBVIOUS
<1>18. y \in Nat /\ c.y + Block(b) <= y /\ y <= c.y + Block(b) + 4
  BY <1>1, <1>2, <1>17
<1> DEFINE font == CASE b.right > 0 -> b.right = 1
                     [] b.right = 0 /\ b.left > 0 -> b.left = 1
                     [] OTHER -> p.bold
<1>19. d = [p EXCEPT !.y = y, !.bold = font]
  BY <1>3, <1>5, <1>7, <1>10, <1>12, <1>14, <1>17 DEF drawBrandHeader
<1>20. font \in BOOLEAN
  BY <1>1, <1>16 DEF Canvas
<1> HIDE DEF font, low, chosen, Brand
<1>21. PICK e : e = [p EXCEPT !.bold = font]
  OBVIOUS
<1>22. e \in Canvas /\ e.items = p.items /\ e.footers = p.footers /\ e.images = p.images
  BY <1>16, <1>20, <1>21 DEF Canvas
<1>23. d = [e EXCEPT !.y = y]
  BY <1>16, <1>19, <1>21 DEF Canvas
<1>24. /\ d \in Canvas /\ d.items = p.items /\ d.footers = p.footers /\ d.images = p.images
       /\ d.y = y
  BY <1>18, <1>22, <1>23 DEF Canvas
<1>25. Pages(d) = Pages(a) /\ Pages(r) = Pages(c) /\ Pages(c) \in Nat
  BY <1>2, <1>6, <1>16, <1>24, CanvasFields DEF Pages
<1>26. Adds(c, d, x)
  <2>1. x.top + x.height <= d.y
    BY <1>16, <1>18, <1>24
  <2> QED
    BY <1>2, <1>4, <1>6, <1>8, <1>16, <1>24, <1>25, <2>1 DEF Adds
<1>27. /\ d.footers # <<>> /\ NoLogo \notin d.images
       /\ d.images \subseteq c.images \cup {x.item.asked}
  BY <1>8, <1>9, <1>13, <1>16, <1>24
<1>28. d.y >= marginTop
  BY <1>1, <1>2, <1>18, <1>24 DEF marginTop
<1>29. /\ x.item.call \in 0 .. k /\ x.item.what = "brand" /\ x.item.call = call
       /\ \/ x.item.shown = x.item.asked
          \/ SameSource(x.item.shown, x.item.asked) /\ x.item.shown \in c.images
  BY <1>11, <1>13, <1>16
<1>30. Ready(d, k)
  BY <1>26, <1>27, <1>28, <1>29, AddsSound
<1>31. Grows(c, d, call) /\ TableCalls(d) \subseteq TableCalls(c)
  BY <1>26, <1>29, AddsGrows
<1>32. Len(d.items) = Len(c.items) + 1 /\ d.items[Len(c.items) + 1] = x
  BY <1>26, AddsItems
<1> QED
  BY <1>18, <1>24, <1>29, <1>30, <1>31, <1>32

-----------------------------------------------------------------------------
(* Tables. *)

\* What is drawn besides rows leaves the rows of every table where they are.
LEMMA GrowsTables ==
  ASSUME NEW c, NEW d, NEW k, Grows(c, d, k), NEW call
  PROVE  /\ At(d, "row", call) = At(c, "row", call)
         /\ \A n : RowsDrawn(c, call, n) => RowsDrawn(d, call, n)
         /\ HeadersAbove(c, call) => HeadersAbove(d, call)
         /\ At(c, "header", call) \subseteq At(d, "header", call)
         /\ Heads(c, call) \subseteq Heads(d, call)
         /\ TableCalls(d) \subseteq TableCalls(c) \cup {k}
<1>1. /\ c \in Canvas /\ d \in Canvas /\ Len(c.items) <= Len(d.items)
      /\ \A i \in 1 .. Len(c.items) : d.items[i] = c.items[i]
      /\ \A i \in Len(c.items) + 1 .. Len(d.items) :
           d.items[i].item.call = k /\ d.items[i].item.what # "row"
  BY DEF Grows
<1>2. /\ Len(c.items) \in Nat /\ DOMAIN c.items = 1 .. Len(c.items)
      /\ Len(d.items) \in Nat /\ DOMAIN d.items = 1 .. Len(d.items)
  BY <1>1, CanvasFields
<1>3. \A i \in DOMAIN d.items : i \in DOMAIN c.items \/ i \in Len(c.items) + 1 .. Len(d.items)
  BY <1>1, <1>2
<1>4. \A what : At(c, what, call) \subseteq At(d, what, call)
  BY <1>1, <1>2 DEF At
<1>5. At(d, "row", call) = At(c, "row", call)
  <2>1. At(d, "row", call) \subseteq At(c, "row", call)
    BY <1>1, <1>2, <1>3 DEF At
  <2> QED BY <1>4, <2>1
<1>6. \A i \in At(c, "row", call) : d.items[i] = c.items[i]
  BY <1>1, <1>2 DEF At
<1>7. ASSUME NEW n, RowsDrawn(c, call, n)
      PROVE  RowsDrawn(d, call, n)
  <2>1. {d.items[i].item.row : i \in At(d, "row", call)}
          = {c.items[i].item.row : i \in At(c, "row", call)}
    BY <1>5, <1>6
  <2> QED
    BY <1>5, <1>6, <1>7, <2>1 DEF RowsDrawn
<1>8. ASSUME HeadersAbove(c, call)
      PROVE  HeadersAbove(d, call)
  <2> SUFFICES ASSUME NEW i \in At(c, "row", call)
               PROVE  \E j \in At(d, "header", call) :
                        j < i /\ d.items[j].page = d.items[i].page
    BY <1>5 DEF HeadersAbove
  <2>1. PICK j \in At(c, "header", call) : j < i /\ c.items[j].page = c.items[i].page
    BY <1>8 DEF HeadersAbove
  <2>2. d.items[j] = c.items[j] /\ d.items[i] = c.items[i] /\ j \in At(d, "header", call)
    BY <1>1, <1>2, <1>4, <2>1 DEF At
  <2> QED BY <2>1, <2>2
<1>9. TableCalls(d) \subseteq TableCalls(c) \cup {k}
  BY <1>1, <1>2, <1>3 DEF TableCalls
<1>10. Heads(c, call) \subseteq Heads(d, call)
  BY <1>4 DEF Heads
<1> QED
  BY <1>4, <1>5, <1>6, <1>7, <1>8, <1>9, <1>10

\* A table starts with its header and no row.
LEMMA StartEffect ==
  ASSUME bottom \in BottomMargins \cup {marginBottom},
         NEW c, NEW n \in Nat, Ready(c, n), NEW k, k = n + 1,
         NEW d, d = Bold(drawHeader(c, k), FALSE),
         NEW t, t.call = k, t.next = 1
  PROVE  Ready(d, k) /\ Grows(c, d, k) /\ TableGoesOn(d, t)
<1>1. k \in Nat /\ n <= k /\ k \in 0 .. k
  OBVIOUS
<1>2. Ready(c, k)
  BY <1>1, ReadyLater
<1>3. PICK e : e = drawHeader(c, k)
  OBVIOUS
<1>4. /\ Ready(e, k) /\ Grows(c, e, k) /\ Len(e.items) = Len(c.items) + 1
      /\ e.items[Len(c.items) + 1].item.what = "header"
      /\ e.items[Len(c.items) + 1].item.call = k
      /\ e.items[Len(c.items) + 1].page = Pages(e)
  BY <1>1, <1>2, <1>3, HeaderEffect
<1>5. /\ Ready(d, k) /\ Grows(e, d, k) /\ d.items = e.items /\ d.footers = e.footers
      /\ d.bold = FALSE
  <2>1. Ready(e, k) /\ FALSE \in BOOLEAN /\ d = Bold(e, FALSE)
    BY <1>3, <1>4
  <2> QED BY <1>1, <2>1, BoldEffect, ZenonT(60)
<1>6. Grows(c, d, k)
  BY <1>4, <1>5, GrowsTwice
<1>7. At(c, "row", k) = {}
  <2>1. c \in Canvas /\ Laid(c, n)
    BY DEF Ready, Sound
  <2>2. \A i \in DOMAIN c.items : c.items[i].item.call <= n /\ c.items[i].item.call \in Nat
    BY <2>1, CanvasFields, DrawingFields DEF Laid
  <2> QED BY <2>2 DEF At
<1>8. At(d, "row", k) = {}
  <2>1. At(d, "row", k) = At(c, "row", k)
    BY <1>6, GrowsTables
  <2> QED BY <1>7, <2>1
<1>9. RowsDrawn(d, k, 0) /\ HeadersAbove(d, k)
  <2>1. {d.items[i].item.row : i \in At(d, "row", k)} = {}
    BY <1>8
  <2>2. 1 .. 0 = {}
    OBVIOUS
  <2> QED BY <1>8, <2>1, <2>2 DEF RowsDrawn, HeadersAbove
<1>10. d \in Canvas /\ c \in Canvas
  BY <1>5 DEF Ready, Sound
<1>11. Len(c.items) + 1 \in At(d, "header", k)
  <2>1. Len(c.items) \in Nat /\ Len(d.items) = Len(c.items) + 1
        /\ DOMAIN d.items = 1 .. Len(d.items)
    BY <1>4, <1>5, <1>10, CanvasFields
  <2> DEFINE n1 == Len(c.items)
  <2>3. n1 \in Nat /\ DOMAIN d.items = 1 .. n1 + 1
    BY <2>1
  <2> HIDE DEF n1
  <2>5. n1 + 1 \in 1 .. n1 + 1
    BY <2>3
  <2>4. n1 + 1 \in DOMAIN d.items
    BY <2>3, <2>5, Zenon
  <2>2. Len(c.items) + 1 \in DOMAIN d.items
    BY <2>4 DEF n1
  <2> QED BY <1>4, <1>5, <2>2 DEF At
<1>12. d.items[Len(c.items) + 1].page = Pages(d)
  BY <1>4, <1>5 DEF Pages
<1>13. t.next - 1 = 0
  OBVIOUS
<1> QED
  BY <1>5, <1>6, <1>9, <1>11, <1>12, <1>13 DEF TableGoesOn

\* A row is the next one of its table; the other tables keep theirs.
LEMMA RowEffect ==
  ASSUME NEW c, NEW d, NEW x, Adds(c, d, x), x.item.what = "row",
         NEW n \in Nat, x.item.row = n + 1, RowsDrawn(c, x.item.call, n)
  PROVE  /\ RowsDrawn(d, x.item.call, n + 1)
         /\ \A call, r : call # x.item.call /\ RowsDrawn(c, call, r) => RowsDrawn(d, call, r)
         /\ TableCalls(d) = TableCalls(c)
         /\ \A call : At(d, "header", call) = At(c, "header", call)
         /\ \A call : Heads(d, call) = Heads(c, call)
<1> DEFINE m == Len(c.items)
           k == x.item.call
<1>1. /\ m \in Nat /\ DOMAIN c.items = 1 .. m /\ DOMAIN d.items = 1 .. m + 1
      /\ \A i \in 1 .. m : d.items[i] = c.items[i]
      /\ d.items[m + 1] = x
  BY AddsItems
<1> HIDE DEF m
<1>2. /\ At(d, "row", k) = At(c, "row", k) \cup {m + 1}
      /\ At(c, "row", k) \subseteq 1 .. m
  BY <1>1 DEF At
<1>3. \A i \in At(c, "row", k) : d.items[i] = c.items[i] /\ i \in 1 .. m
  BY <1>1, <1>2
<1>4. RowsDrawn(d, k, n + 1)
  <2>1. {c.items[i].item.row : i \in At(c, "row", k)} = 1 .. n
    BY DEF RowsDrawn
  <2>2. {d.items[i].item.row : i \in At(d, "row", k)} = 1 .. n + 1
    <3>1. {d.items[i].item.row : i \in At(d, "row", k)}
            = {c.items[i].item.row : i \in At(c, "row", k)} \cup {n + 1}
      BY <1>1, <1>2, <1>3
    <3>2. 1 .. n + 1 = (1 .. n) \cup {n + 1}
      OBVIOUS
    <3> QED BY <2>1, <3>1, <3>2
  <2>3. ASSUME NEW i \in At(d, "row", k), NEW j \in At(d, "row", k), i < j
        PROVE  d.items[i].item.row < d.items[j].item.row
    <3>1. CASE j = m + 1
      <4>1. i \in At(c, "row", k)
        BY <1>1, <1>2, <2>3, <3>1
      <4>2. d.items[i].item.row \in 1 .. n
        BY <1>3, <2>1, <4>1
      <4> QED BY <1>1, <3>1, <4>2
    <3>2. CASE j # m + 1
      <4>1. j \in At(c, "row", k) /\ i \in At(c, "row", k)
        BY <1>1, <1>2, <2>3, <3>2
      <4>2. c.items[i].item.row < c.items[j].item.row
        BY <2>3, <4>1 DEF RowsDrawn
      <4> QED BY <1>3, <4>1, <4>2
    <3> QED BY <3>1, <3>2
  <2> QED BY <2>2, <2>3 DEF RowsDrawn
<1>5. ASSUME NEW call, NEW r, call # k, RowsDrawn(c, call, r)
      PROVE  RowsDrawn(d, call, r)
  <2>1. At(d, "row", call) = At(c, "row", call)
    BY <1>1, <1>5 DEF At
  <2>2. \A i \in At(c, "row", call) : d.items[i] = c.items[i]
    BY <1>1 DEF At
  <2>3. {d.items[i].item.row : i \in At(d, "row", call)}
          = {c.items[i].item.row : i \in At(c, "row", call)}
    BY <2>1, <2>2
  <2> QED
    BY <1>5, <2>1, <2>2, <2>3 DEF RowsDrawn
<1>6. \A call : At(d, "header", call) = At(c, "header", call)
  BY <1>1 DEF At
<1>7. \A call : At(d, "brand", call) = At(c, "brand", call)
  BY <1>1 DEF At
<1>8. \A call : Heads(d, call) = Heads(c, call)
  BY <1>6, <1>7 DEF Heads
<1>9. TableCalls(d) = TableCalls(c)
  BY <1>1, SMTT(30) DEF TableCalls
<1> QED
  BY <1>4, <1>5, <1>6, <1>8, <1>9

\* A header of the table is repeated.
TwoHeads(c, k) == \E i, j \in Heads(c, k) : i < j

\* The last page shows the header of the table.
HeaderOnLast(c, k) == \E j \in At(c, "header", k) : c.items[j].page = Pages(c)

\* Two headers of a table stay two headers.
LEMMA TwoHeadsKept ==
  ASSUME NEW c, NEW d, NEW k, Grows(c, d, k), TwoHeads(c, k)
  PROVE  TwoHeads(d, k)
<1>1. Heads(c, k) \subseteq Heads(d, k)
  BY GrowsTables
<1> QED
  BY <1>1 DEF TwoHeads

\* A header drawn again comes after that the table started with.
LEMMA AnotherHead ==
  ASSUME NEW c, NEW d, NEW k, Grows(c, d, k), At(c, "header", k) # {},
         Len(d.items) = Len(c.items) + 1,
         d.items[Len(c.items) + 1].item.what \in {"header", "brand"},
         d.items[Len(c.items) + 1].item.call = k
  PROVE  TwoHeads(d, k)
<1>1. c \in Canvas /\ d \in Canvas
  BY DEF Grows
<1> DEFINE n == Len(c.items)
<1>2. n \in Nat /\ DOMAIN c.items = 1 .. n /\ DOMAIN d.items = 1 .. n + 1
  BY <1>1, CanvasFields
<1>3. /\ d.items[n + 1].item.what \in {"header", "brand"}
      /\ d.items[n + 1].item.call = k
  OBVIOUS
<1> HIDE DEF n
<1>4. n + 1 \in 1 .. n + 1
  BY <1>2
<1>5. n + 1 \in Heads(d, k)
  BY <1>2, <1>3, <1>4 DEF Heads, At
<1>6. PICK i : i \in At(c, "header", k)
  OBVIOUS
<1>7. i \in 1 .. n
  BY <1>2, <1>6 DEF At
<1>8. i \in Heads(d, k)
  BY <1>6, GrowsTables DEF Heads
<1> QED
  BY <1>2, <1>5, <1>7, <1>8 DEF TwoHeads

\* A new page has nothing on it.
LEMMA PageEffect ==
  ASSUME NEW c, NEW k \in Nat, Ready(c, k), NEW d, d = AddPage(c), NEW m
  PROVE  /\ Ready(d, k) /\ Grows(c, d, m) /\ d.items = c.items /\ d.y = marginTop
         /\ d.bold = c.bold
<1>1. /\ c \in Canvas /\ c.footers # <<>> /\ footer \in 0 .. Pages(c) /\ ImagesAsked(c)
      /\ Laid(c, k) /\ Stacked(c) /\ BoldExplained(c)
      /\ \A i \in DOMAIN c.items : LogoShown(c, i)
  BY DEF Ready, Sound
<1>2. d = AddPages(c, 1)
  BY DEF AddPage
<1>3. /\ d \in Canvas /\ d.footers # <<>> /\ d.items = c.items /\ d.images = c.images
      /\ Pages(d) = Pages(c) + 1 /\ d.y = marginTop
  BY <1>1, <1>2, AddPagesEffect
<1>4. d.bold = c.bold
  BY <1>1, <1>2, AddPagesEffect
<1>5. Pages(c) \in Nat /\ Len(c.items) \in Nat
  BY <1>1, CanvasFields
<1>6. Laid(d, k)
  <2>1. \A i \in DOMAIN c.items : c.items[i].page \in Nat
    BY <1>1, CanvasFields, DrawingFields
  <2> QED BY <1>1, <1>3, <1>5, <2>1 DEF Laid
<1>7. /\ Stacked(d) /\ BoldExplained(d) /\ ImagesAsked(d)
      /\ \A i \in DOMAIN d.items : LogoShown(d, i)
  BY <1>1, <1>3 DEF Stacked, BoldExplained, ImagesAsked, LogoShown, Heads, At
<1>8. Grows(c, d, m)
  BY <1>1, <1>3, <1>5 DEF Grows
<1>9. footer \in 0 .. Pages(d)
  BY <1>1, <1>3, <1>5
<1>10. d.y >= marginTop
  BY <1>3 DEF marginTop
<1> QED
  BY <1>1, <1>3, <1>4, <1>6, <1>7, <1>8, <1>9, <1>10 DEF Ready, Sound

\* The page the renderer starts: what it repeats is at its top, and there is
\* room for a row below it.
LEMMA NewPageEffect ==
  ASSUME bottom \in BottomMargins \cup {marginBottom},
         NEW c, NEW k \in Nat, Ready(c, k),
         NEW t, t.call = k, t.height \in RowHeights, t.brand \in BrandHeaders \cup {NoBrand},
         TableGoesOn(c, t), NEW ok, NEW d, d = NewPage(c, t, ok)
  PROVE  /\ Ready(d, k) /\ Grows(c, d, k)
         /\ d.bold => TwoHeads(d, k)
         /\ t.repeat => HeaderOnLast(d, k) /\ d.y + t.height <= Trigger
<1>1. PICK a : a = AddPage(c)
  OBVIOUS
<1>2. Ready(a, k) /\ Grows(c, a, k) /\ a.items = c.items /\ a.y = marginTop
  BY <1>1, PageEffect
<1>3. a.bold = c.bold
  BY <1>1, PageEffect
<1>4. PICK b : b = IF hasBrandHeader(t.brand) /\ ok THEN drawBrandHeader(a, t.brand, k) ELSE a
  OBVIOUS
<1>5. d = IF t.repeat THEN drawHeader(b, k) ELSE b
  BY <1>1, <1>4 DEF NewPage
<1>6. /\ Block(t.brand) \in Nat /\ t.height \in Nat /\ Trigger \in Int
      /\ marginTop + Block(t.brand) + 4 + 9 + t.height <= Trigger
  BY Brands, Margins, LayoutFacts
<1>7. At(c, "header", k) # {} /\ (c.bold => TwoHeads(c, k)) /\ c \in Canvas
  BY DEF TableGoesOn, TwoHeads, Ready, Sound
<1>8. At(a, "header", k) # {} /\ (a.bold => TwoHeads(a, k))
  <2>1. At(c, "header", k) \subseteq At(a, "header", k)
    BY <1>2, GrowsTables
  <2> QED BY <1>2, <1>3, <1>7, <2>1, TwoHeadsKept
<1>9. /\ Ready(b, k) /\ Grows(c, b, k) /\ (b.bold => TwoHeads(b, k))
      /\ At(b, "header", k) # {} /\ b.y <= marginTop + Block(t.brand) + 4
  <2>1. CASE hasBrandHeader(t.brand) /\ ok
    <3>1. b = drawBrandHeader(a, t.brand, k)
      BY <1>4, <2>1
    <3>2. /\ Ready(b, k) /\ Grows(a, b, k) /\ Len(b.items) = Len(a.items) + 1
          /\ b.items[Len(a.items) + 1].item.what = "brand"
          /\ b.items[Len(a.items) + 1].item.call = k
          /\ a.y + Block(t.brand) <= Trigger => b.y <= a.y + Block(t.brand) + 4
      BY <1>2, <3>1, BrandEffect
    <3>3. TwoHeads(b, k)
      BY <1>8, <3>2, AnotherHead
    <3>4. At(a, "header", k) \subseteq At(b, "header", k) /\ Grows(c, b, k)
      BY <1>2, <3>2, GrowsTables, GrowsTwice
    <3>5. marginTop + Block(t.brand) <= Trigger
      BY <1>6 DEF marginTop
    <3> QED BY <1>2, <1>8, <3>2, <3>3, <3>4, <3>5
  <2>2. CASE ~ (hasBrandHeader(t.brand) /\ ok)
    <3>1. b = a
      BY <1>4, <2>2
    <3> QED BY <1>2, <1>6, <1>8, <3>1 DEF marginTop
  <2> QED BY <2>1, <2>2
<1>10. b.y \in Nat
  BY <1>9, CanvasFields DEF Ready, Sound
<1>11. CASE t.repeat
  <2>1. d = drawHeader(b, k)
    BY <1>5, <1>11
  <2>2. /\ Ready(d, k) /\ Grows(b, d, k)
        /\ Len(d.items) = Len(b.items) + 1
        /\ d.items[Len(b.items) + 1].item.what = "header"
        /\ d.items[Len(b.items) + 1].item.call = k
        /\ d.items[Len(b.items) + 1].page = Pages(d)
        /\ b.y + 9 <= Trigger => Pages(d) = Pages(b) /\ d.y = b.y + 9
    BY <1>9, <2>1, HeaderEffect
  <2>3. b.y + 9 <= Trigger /\ b.y + 9 + t.height <= Trigger
    BY <1>6, <1>9, <1>10 DEF marginTop
  <2>4. d.y + t.height <= Trigger
    BY <2>2, <2>3
  <2>5. TwoHeads(d, k)
    BY <1>9, <2>2, AnotherHead
  <2>6. HeaderOnLast(d, k)
    <3> DEFINE n == Len(b.items)
    <3>1. n \in Nat /\ DOMAIN d.items = 1 .. n + 1
      BY <2>2, <1>9, CanvasFields DEF Grows
    <3>2. /\ d.items[n + 1].item.what = "header" /\ d.items[n + 1].item.call = k
          /\ d.items[n + 1].page = Pages(d)
      BY <2>2
    <3> HIDE DEF n
    <3>3. n + 1 \in 1 .. n + 1
      BY <3>1
    <3> QED BY <3>1, <3>2, <3>3 DEF HeaderOnLast, At
  <2>7. Grows(c, d, k)
    BY <1>9, <2>2, GrowsTwice
  <2> QED BY <2>2, <2>4, <2>5, <2>6, <2>7
<1>12. CASE ~ t.repeat
  <2>1. d = b
    BY <1>5, <1>12
  <2> QED BY <1>9, <1>12, <2>1
<1> QED
  BY <1>11, <1>12

\* A row is drawn below the header of its page.
LEMMA RowHeaders ==
  ASSUME NEW c, NEW d, NEW x, NEW k, Adds(c, d, x), x.item.what = "row", x.item.call = k,
         HeadersAbove(c, k), HeaderOnLast(c, k), Pages(d) = Pages(c)
  PROVE  HeadersAbove(d, k) /\ HeaderOnLast(d, k)
<1> DEFINE n == Len(c.items)
<1>1. /\ n \in Nat /\ DOMAIN c.items = 1 .. n /\ DOMAIN d.items = 1 .. n + 1
      /\ \A i \in 1 .. n : d.items[i] = c.items[i]
      /\ d.items[n + 1] = x
  BY AddsItems
<1>2. x.page = Pages(d)
  BY DEF Adds
<1> HIDE DEF n
<1>3. PICK j \in At(c, "header", k) : c.items[j].page = Pages(c)
  BY DEF HeaderOnLast
<1>4. j \in 1 .. n /\ j \in At(d, "header", k) /\ d.items[j].page = Pages(d)
  BY <1>1, <1>3 DEF At
<1>5. HeaderOnLast(d, k)
  BY <1>4 DEF HeaderOnLast
<1>6. HeadersAbove(d, k)
  <2> SUFFICES ASSUME NEW i \in At(d, "row", k)
               PROVE  \E h \in At(d, "header", k) :
                        h < i /\ d.items[h].page = d.items[i].page
    BY DEF HeadersAbove
  <2>1. CASE i = n + 1
    BY <1>1, <1>2, <1>4, <2>1
  <2>2. CASE i # n + 1
    <3>1. i \in At(c, "row", k) /\ i \in 1 .. n
      BY <1>1, <2>2 DEF At
    <3>2. PICK h \in At(c, "header", k) : h < i /\ c.items[h].page = c.items[i].page
      BY <3>1 DEF HeadersAbove
    <3>3. h \in 1 .. n /\ h \in At(d, "header", k)
      BY <1>1, <3>2 DEF At
    <3> QED BY <1>1, <3>1, <3>2, <3>3
  <2> QED BY <2>1, <2>2
<1> QED
  BY <1>5, <1>6

\* drawRows draws the next row, on a new page if need be.
LEMMA RowStep ==
  ASSUME bottom \in BottomMargins \cup {marginBottom},
         NEW c, NEW k \in Nat, Ready(c, k),
         NEW t, t.call = k, t.next \in Nat, t.next >= 1, t.height \in RowHeights,
         t.brand \in BrandHeaders \cup {NoBrand}, TableGoesOn(c, t), NEW ok,
         NEW d, d = Draw(IF c.y + t.height > Limit THEN NewPage(c, t, ok) ELSE c,
                         Item("row", k, t.next), t.height),
         NEW u, u.call = k, u.next = t.next + 1, u.repeat = t.repeat
  PROVE  /\ Ready(d, k) /\ TableGoesOn(d, u)
         /\ \A call, r : call # k /\ RowsDrawn(c, call, r) => RowsDrawn(d, call, r)
         /\ TableCalls(d) \subseteq TableCalls(c) \cup {k}
<1>1. PICK m : m = IF c.y + t.height > Limit THEN NewPage(c, t, ok) ELSE c
  OBVIOUS
<1>2. PICK item : item = Item("row", k, t.next)
  OBVIOUS
<1>3. PICK x : x = d.items[Len(m.items) + 1]
  OBVIOUS
<1>4. c \in Canvas /\ c.y \in Nat /\ Pages(c) \in Nat
  BY CanvasFields DEF Ready, Sound
<1>5. /\ t.height \in Nat /\ Limit \in Int /\ Trigger \in Int
      /\ bottom <= marginBottom + 2 => Limit <= Trigger
      /\ marginTop + t.height <= Trigger
  <2>1. /\ Block(t.brand) \in Nat /\ t.height \in Nat /\ Trigger \in Int
        /\ marginTop + Block(t.brand) + 4 + 9 + t.height <= Trigger
    BY Brands, Margins, LayoutFacts
  <2>2. Limit \in Int /\ (bottom <= marginBottom + 2 => Limit <= Trigger)
    BY Margins
  <2> QED BY <2>1, <2>2 DEF marginTop
<1>6. /\ RowsDrawn(c, k, t.next - 1) /\ At(c, "header", k) # {}
      /\ c.bold => TwoHeads(c, k)
      /\ Repeating(t) => HeadersAbove(c, k) /\ HeaderOnLast(c, k)
  BY DEF TableGoesOn, TwoHeads, HeaderOnLast
<1>7. /\ Ready(m, k) /\ (m.bold => TwoHeads(m, k)) /\ RowsDrawn(m, k, t.next - 1)
      /\ At(m, "header", k) # {}
      /\ Repeating(t) => HeadersAbove(m, k) /\ HeaderOnLast(m, k)
      /\ TableCalls(m) \subseteq TableCalls(c) \cup {k}
      /\ \A call, r : call # k /\ RowsDrawn(c, call, r) => RowsDrawn(m, call, r)
      /\ Repeating(t) => m.y + t.height <= Trigger
  <2>1. CASE c.y + t.height > Limit
    <3>1. m = NewPage(c, t, ok)
      BY <1>1, <2>1
    <3>2. /\ Ready(m, k) /\ Grows(c, m, k) /\ (m.bold => TwoHeads(m, k))
          /\ t.repeat => HeaderOnLast(m, k) /\ m.y + t.height <= Trigger
      BY <3>1, NewPageEffect
    <3>3. /\ \A call, r : RowsDrawn(c, call, r) => RowsDrawn(m, call, r)
          /\ HeadersAbove(c, k) => HeadersAbove(m, k)
          /\ At(c, "header", k) \subseteq At(m, "header", k)
          /\ TableCalls(m) \subseteq TableCalls(c) \cup {k}
      BY <3>2, GrowsTables
    <3> QED BY <1>6, <3>2, <3>3 DEF Repeating
  <2>2. CASE ~ (c.y + t.height > Limit)
    <3>1. m = c
      BY <1>1, <2>2
    <3>2. Repeating(t) => c.y + t.height <= Trigger
      BY <1>4, <1>5, <2>2 DEF Repeating
    <3> QED BY <1>6, <3>1, <3>2
  <2> QED BY <2>1, <2>2
<1>8. /\ item \in Items /\ item.what = "row" /\ item.call = k /\ item.row = t.next
      /\ item.shown = item.asked
  BY <1>2, ItemType
<1>9. d = Draw(m, item, t.height)
  BY <1>1, <1>2
<1>10. /\ Adds(m, d, x) /\ x.item = item /\ x.height = t.height
       /\ d.images = m.images /\ d.footers # <<>> /\ d.y >= marginTop
       /\ m.y + t.height <= Trigger => Pages(d) = Pages(m) /\ x.top = m.y
       /\ m.y + t.height > Trigger => x.top = marginTop
  BY <1>3, <1>5, <1>7, <1>8, <1>9, DrawEffect
<1>11. x.bold = m.bold /\ d.bold = m.bold
  BY <1>3, <1>5, <1>7, <1>8, <1>9, DrawEffect
<1>12. m.y \in Nat /\ NoLogo \notin d.images /\ d.images \subseteq m.images
  BY <1>7, <1>10, CanvasFields DEF Ready, Sound, ImagesAsked
<1>13. x.top + x.height <= Trigger
  BY <1>5, <1>10, <1>12
<1>14. x.item.what = "row" /\ x.item.call = k /\ x.item.row = t.next
       /\ x.item.call \in 0 .. k /\ x.item.shown = x.item.asked
  BY <1>8, <1>10
<1>15. x.bold => \E i, j \in Heads(m, x.item.call) : i < j
  BY <1>7, <1>11, <1>14 DEF TwoHeads
<1>16. Ready(d, k)
  BY <1>7, <1>10, <1>12, <1>13, <1>14, <1>15, AddsSound
<1>17. t.next - 1 \in Nat /\ t.next = (t.next - 1) + 1 /\ u.next - 1 = (t.next - 1) + 1
  OBVIOUS
<1>18. /\ RowsDrawn(d, k, u.next - 1)
       /\ \A call, r : call # k /\ RowsDrawn(m, call, r) => RowsDrawn(d, call, r)
       /\ TableCalls(d) = TableCalls(m)
       /\ At(d, "header", k) = At(m, "header", k)
       /\ Heads(d, k) = Heads(m, k)
  BY <1>7, <1>10, <1>14, <1>17, RowEffect
<1>19. d.bold => TwoHeads(d, k)
  BY <1>7, <1>11, <1>18 DEF TwoHeads
<1>20. Repeating(u) => HeadersAbove(d, k) /\ HeaderOnLast(d, k)
  <2>1. Repeating(u) => Repeating(t)
    BY DEF Repeating
  <2>2. ASSUME Repeating(t)
        PROVE  HeadersAbove(d, k) /\ HeaderOnLast(d, k)
    BY <1>7, <1>10, <1>14, <2>2, RowHeaders
  <2> QED BY <2>1, <2>2
<1>21. TableGoesOn(d, u)
  BY <1>7, <1>18, <1>19, <1>20 DEF TableGoesOn, TwoHeads, HeaderOnLast
<1> QED
  BY <1>7, <1>16, <1>18, <1>21

-----------------------------------------------------------------------------
(* Steps of the system. *)

\* While a document is drawn, its canvas is ready for the next call.
LEMMA Opened ==
  ASSUME ExportInv, state \in {"open", "drawing"}
  PROVE  /\ Ready(canvas, calls) /\ calls \in Nat /\ footer \in Nat
         /\ bottom \in BottomMargins \cup {marginBottom}
         /\ canvas \in Canvas /\ tier \in {"generate", "document"}
<1>1. /\ Sound(canvas, calls) /\ footer \in 0 .. Pages(canvas) /\ calls \in 0 .. MaxCalls + 1
      /\ bottom \in BottomMargins \cup {marginBottom} /\ tier \in {"generate", "document"}
      /\ canvas \in Canvas
  BY DEF ExportInv, ExportTypeOK
<1>2. Pages(canvas) \in Nat /\ MaxCalls \in Nat
  BY <1>1, CanvasFields, LayoutFacts
<1> QED
  BY <1>1, <1>2 DEF Ready

\* Nothing is drawn yet.
LEMMA Blank ==
  ASSUME footer = 0, NEW k \in Nat
  PROVE  /\ Ready(EmptyCanvas, k) /\ TableCalls(EmptyCanvas) = {}
         /\ EmptyCanvas \in Canvas /\ Pages(EmptyCanvas) = 1
<1>1. /\ EmptyCanvas.items = <<>> /\ EmptyCanvas.footers = <<0>> /\ EmptyCanvas.y = marginTop
      /\ EmptyCanvas.images = {} /\ DOMAIN EmptyCanvas.items = {}
      /\ DOMAIN EmptyCanvas.items = {}
  BY DEF EmptyCanvas
<1>2. EmptyCanvas \in Canvas
  BY DEF EmptyCanvas, Canvas, marginTop
<1>3. Pages(EmptyCanvas) = 1
  BY <1>1 DEF Pages
<1>4. EmptyCanvas.footers # <<>> /\ ImagesAsked(EmptyCanvas)
  BY <1>1 DEF ImagesAsked
<1>5. Laid(EmptyCanvas, k) /\ Stacked(EmptyCanvas) /\ BoldExplained(EmptyCanvas)
  BY <1>1 DEF Laid, Stacked, BoldExplained
<1>6. TableCalls(EmptyCanvas) = {}
  BY <1>1 DEF TableCalls
<1> QED
  BY <1>1, <1>2, <1>3, <1>4, <1>5, <1>6 DEF Ready, Sound, marginTop

\* A canvas that is ready becomes the canvas of the document.
LEMMA BecomesCanvas ==
  ASSUME NEW d, NEW k, Ready(d, k), canvas' = d, calls' = k, UNCHANGED <<bottom, footer>>
  PROVE  /\ Sound(canvas, calls)'
         /\ (canvas \in Canvas /\ canvas.footers # <<>> /\ canvas.y >= marginTop)'
         /\ (footer \in 0 .. Pages(canvas))'
<1>1. /\ d \in Canvas /\ d.footers # <<>> /\ d.y >= marginTop /\ ImagesAsked(d)
      /\ Laid(d, k) /\ Stacked(d) /\ BoldExplained(d)
      /\ \A i \in DOMAIN d.items : LogoShown(d, i)
      /\ footer \in 0 .. Pages(d)
  BY DEF Ready, Sound
<1>2. Laid(canvas, calls)' /\ BoldExplained(canvas)' /\ ImagesAsked(canvas)'
  BY <1>1
<1>3. Stacked(canvas)'
  BY <1>1 DEF Stacked, Trigger
<1>4. (\A i \in DOMAIN canvas.items : LogoShown(canvas, i))'
  BY <1>1
<1> QED
  BY <1>1, <1>2, <1>3, <1>4 DEF Sound

\* A helper that draws texts or a header adds to the document and no table.
LEMMA DrawnStep ==
  ASSUME ExportInv, NEW d, Ready(d, calls + 1), Grows(canvas, d, calls + 1),
         TableCalls(d) \subseteq TableCalls(canvas), Drawn(d)
  PROVE  ExportInv'
<1>1. /\ state = "open" /\ calls < MaxCalls /\ calls' = calls + 1 /\ canvas' = d
      /\ UNCHANGED <<fields, widths, table, sheet, tier, bottom, footer, drawing, state>>
  BY DEF Drawn, Helper
<1>2. /\ Sound(canvas, calls)'
      /\ (canvas \in Canvas /\ canvas.footers # <<>> /\ canvas.y >= marginTop)'
      /\ (footer \in 0 .. Pages(canvas))'
  BY <1>1, BecomesCanvas
<1>3. ExportTypeOK'
  <2>1. calls' \in 0 .. MaxCalls + 1
    BY <1>1, LayoutFacts DEF ExportInv, ExportTypeOK
  <2> QED BY <1>1, <1>2, <2>1 DEF ExportInv, ExportTypeOK
<1>4. RowsComplete'
  <2> SUFFICES ASSUME NEW k \in TableCalls(d)
               PROVE  RowsDrawn(d, k, table.rows)
    BY <1>1 DEF RowsComplete
  <2>1. RowsDrawn(canvas, k, table.rows)
    BY <1>1 DEF ExportInv, RowsComplete
  <2> QED BY <2>1, GrowsTables
<1>5. (Unbegun /\ SheetRows)'
  BY <1>1 DEF Unbegun, SheetRows
<1> QED
  BY <1>1, <1>2, <1>3, <1>4, <1>5 DEF ExportInv

\* Title: a title block.
LEMMA TitleStep ==
  ASSUME ExportInv, Title
  PROVE  ExportInv'
<1>1. PICK d : d = drawTitleBlock(canvas, calls + 1)
  OBVIOUS
<1>2. Drawn(d)
  BY <1>1 DEF Title
<1>3. state = "open"
  BY <1>2 DEF Drawn, Helper
<1>4. Ready(canvas, calls) /\ calls \in Nat /\ bottom \in BottomMargins \cup {marginBottom}
  BY <1>3, Opened
<1>5. Ready(canvas, calls + 1) /\ calls + 1 \in Nat /\ calls + 1 \in 0 .. calls + 1
  BY <1>4, ReadyLater
<1>6. /\ Ready(d, calls + 1) /\ Grows(canvas, d, calls + 1)
      /\ TableCalls(d) \subseteq TableCalls(canvas)
  BY <1>1, <1>4, <1>5, TitleEffect
<1> QED
  BY <1>2, <1>6, DrawnStep

\* gofpdf's own error: what was drawn stays as it is, and no file comes of it.
LEMMA SpoilStep ==
  ASSUME ExportInv, Spoil
  PROVE  ExportInv'
<1>1. /\ state' = "refused"
      /\ UNCHANGED <<fields, widths, table, sheet, tier, bottom, canvas, footer, drawing, calls>>
  BY DEF Spoil
<1>2. Sound(canvas, calls)'
  BY <1>1 DEF ExportInv, Sound, Stacked, Trigger
<1>3. ExportTypeOK'
  BY <1>1 DEF ExportInv, ExportTypeOK
<1>4. (RowsComplete /\ Unbegun /\ SheetRows)'
  BY <1>1 DEF RowsComplete, Unbegun, SheetRows
<1> QED
  BY <1>1, <1>2, <1>3, <1>4 DEF ExportInv

\* Header: a brand header, nothing when its file is missing, or gofpdf's error.
LEMMA HeaderStep ==
  ASSUME ExportInv, Header
  PROVE  ExportInv'
<1>1. PICK b \in BrandHeaders :
        \/ \E d \in {drawBrandHeader(canvas, b, calls + 1), canvas} : Drawn(d)
        \/ Spoil
  BY DEF Header, Outcomes
<1>2. CASE Spoil
  BY <1>2, SpoilStep
<1>3. ASSUME NEW d \in {drawBrandHeader(canvas, b, calls + 1), canvas}, Drawn(d)
      PROVE  ExportInv'
  <2>1. state = "open"
    BY <1>3 DEF Drawn, Helper
  <2>2. /\ Ready(canvas, calls) /\ calls \in Nat /\ bottom \in BottomMargins \cup {marginBottom}
        /\ canvas \in Canvas
    BY <2>1, Opened
  <2>3. Ready(canvas, calls + 1) /\ calls + 1 \in Nat /\ calls + 1 \in 0 .. calls + 1
    BY <2>2, ReadyLater
  <2>4. /\ Ready(d, calls + 1) /\ Grows(canvas, d, calls + 1)
        /\ TableCalls(d) \subseteq TableCalls(canvas)
    <3>1. CASE d = drawBrandHeader(canvas, b, calls + 1)
      BY <2>2, <2>3, <3>1, BrandEffect
    <3>2. CASE d = canvas
      <4>1. Grows(canvas, d, calls + 1)
        BY <2>2, <3>2, CanvasFields DEF Grows
      <4> QED BY <2>3, <3>2, <4>1
    <3> QED BY <3>1, <3>2
  <2> QED
    BY <1>3, <2>4, DrawnStep
<1> QED
  BY <1>1, <1>2, <1>3

\* Paragraph: a line of text.
LEMMA ParagraphStep ==
  ASSUME ExportInv, Paragraph
  PROVE  ExportInv'
<1>1. PICK d : d = Draw(Bold(canvas, FALSE), Text(calls + 1), 5)
  OBVIOUS
<1>2. Drawn(d)
  BY <1>1 DEF Paragraph
<1>3. state = "open"
  BY <1>2 DEF Drawn, Helper
<1>4. Ready(canvas, calls) /\ calls \in Nat /\ bottom \in BottomMargins \cup {marginBottom}
  BY <1>3, Opened
<1>5. Ready(canvas, calls + 1) /\ calls + 1 \in Nat /\ calls + 1 \in 0 .. calls + 1
  BY <1>4, ReadyLater
<1>6. /\ Ready(d, calls + 1) /\ Grows(canvas, d, calls + 1)
      /\ TableCalls(d) \subseteq TableCalls(canvas)
  BY <1>1, <1>4, <1>5, TextEffect
<1> QED
  BY <1>2, <1>6, DrawnStep

\* Spacer: the cursor moves down.
LEMMA SpacerStep ==
  ASSUME ExportInv, Spacer
  PROVE  ExportInv'
<1>1. PICK h \in Spaces : Drawn(Down(canvas, h))
  BY DEF Spacer
<1>2. PICK d : d = Down(canvas, h)
  OBVIOUS
<1>3. Drawn(d) /\ h \in Nat
  BY <1>1, <1>2, LayoutFacts
<1>4. state = "open"
  BY <1>3 DEF Drawn, Helper
<1>5. Ready(canvas, calls) /\ calls \in Nat
  BY <1>4, Opened
<1>6. Ready(canvas, calls + 1) /\ calls + 1 \in Nat
  BY <1>5, ReadyLater
<1>7. /\ Ready(d, calls + 1) /\ Grows(canvas, d, calls + 1)
      /\ TableCalls(d) \subseteq TableCalls(canvas)
  BY <1>2, <1>3, <1>6, DownEffect
<1> QED
  BY <1>3, <1>7, DrawnStep

\* A footer is registered on the page that is open.
LEMMA SetFooterStep ==
  ASSUME ExportInv, SetFooter
  PROVE  ExportInv'
<1>1. /\ state = "open" /\ calls < MaxCalls /\ calls' = calls + 1 /\ footer' = Pages(canvas)
      /\ UNCHANGED <<fields, widths, table, sheet, tier, bottom, canvas, drawing, state>>
  BY DEF SetFooter, Helper
<1>2. Ready(canvas, calls) /\ calls \in Nat /\ canvas \in Canvas
  BY <1>1, Opened
<1>3. calls + 1 \in Nat /\ Ready(canvas, calls + 1)
  BY <1>2, ReadyLater
<1>4. Pages(canvas) \in Nat /\ Pages(canvas) >= 1
  BY <1>2, CanvasFields DEF Ready, Sound
<1>5. Sound(canvas, calls)'
  <2>1. Stacked(canvas)'
    BY <1>1, <1>2 DEF Ready, Sound, Stacked, Trigger
  <2>2. Laid(canvas, calls)' /\ BoldExplained(canvas)' /\ ImagesAsked(canvas)'
    BY <1>1, <1>3 DEF Ready, Sound
  <2>3. (\A i \in DOMAIN canvas.items : LogoShown(canvas, i))'
    BY <1>1, <1>3 DEF Ready, Sound
  <2> QED BY <1>1, <1>2, <2>1, <2>2, <2>3 DEF Ready, Sound
<1>6. ExportTypeOK'
  <2>1. calls' \in 0 .. MaxCalls + 1 /\ footer' \in 0 .. Pages(canvas)'
    BY <1>1, <1>4, LayoutFacts DEF ExportInv, ExportTypeOK
  <2> QED BY <1>1, <2>1 DEF ExportInv, ExportTypeOK
<1>7. RowsComplete'
  BY <1>1 DEF ExportInv, RowsComplete
<1>8. (Unbegun /\ SheetRows)'
  BY <1>1 DEF Unbegun, SheetRows
<1> QED
  BY <1>1, <1>5, <1>6, <1>7, <1>8 DEF ExportInv

\* A table begins below what was drawn before it.
LEMMA StartStep ==
  ASSUME ExportInv, NEW c, NEW o \in Options, StartTable(c, o), Ready(c, calls),
         calls \in 0 .. MaxCalls, bottom \in BottomMargins \cup {marginBottom},
         UNCHANGED <<sheet, bottom, footer>>, table'.rows = table.rows,
         tier' \in {"generate", "document"},
         \A k \in TableCalls(c) : RowsDrawn(c, k, table.rows)
  PROVE  ExportInv'
<1>1. /\ calls' = calls + 1
      /\ canvas' = Bold(drawHeader(c, calls + 1), FALSE)
      /\ drawing' = [call |-> calls + 1, next |-> 1, height |-> o.height, repeat |-> o.repeat,
                     brand |-> IF o.brand.repeat THEN o.brand ELSE NoBrand]
      /\ state' = "drawing"
  BY DEF StartTable
<1>2. calls \in Nat /\ calls + 1 \in 0 .. MaxCalls + 1
  BY LayoutFacts
<1>3. PICK brand : brand = IF o.brand.repeat THEN o.brand ELSE NoBrand
  OBVIOUS
<1>4. PICK t : t = [call |-> calls + 1, next |-> 1, height |-> o.height, repeat |-> o.repeat,
                    brand |-> brand]
  OBVIOUS
<1>5. o.height \in RowHeights /\ o.repeat \in BOOLEAN /\ brand \in BrandHeaders \cup {NoBrand}
  BY <1>3 DEF Options
<1>6. drawing' = t
  BY <1>1, <1>3, <1>4
<1>7. t.call = calls + 1 /\ t.next = 1 /\ t.height = o.height
  BY <1>4
<1>8. table.rows \in Nat /\ table.rows \in 0 .. MaxRows
  BY LayoutFacts DEF ExportInv, ExportTypeOK
<1>9. t \in [call : Nat, next : 1 .. table.rows + 1, height : RowHeights \cup {0},
             repeat : BOOLEAN, brand : BrandHeaders \cup {NoBrand}]
  <2>1. 1 \in 1 .. table.rows + 1 /\ calls + 1 \in Nat
    BY <1>2, <1>8
  <2> QED BY <1>4, <1>5, <2>1
<1>10. PICK d : d = Bold(drawHeader(c, calls + 1), FALSE)
  OBVIOUS
<1>11. Ready(d, calls + 1) /\ Grows(c, d, calls + 1) /\ TableGoesOn(d, t)
  BY <1>2, <1>7, <1>10, StartEffect
<1>12. canvas' = d
  BY <1>1, <1>10
<1>13. /\ Sound(canvas, calls)'
       /\ (canvas \in Canvas /\ canvas.footers # <<>> /\ canvas.y >= marginTop)'
       /\ (footer \in 0 .. Pages(canvas))'
  BY <1>1, <1>11, <1>12, BecomesCanvas
<1>14. ExportTypeOK'
  BY <1>1, <1>2, <1>6, <1>8, <1>9, <1>13 DEF ExportTypeOK
<1>15. RowsComplete'
  <2> SUFFICES ASSUME NEW k \in TableCalls(d)
               PROVE  RowsDrawn(d, k, IF k = t.call THEN t.next - 1 ELSE table.rows)
    BY <1>1, <1>6, <1>12 DEF RowsComplete
  <2>1. CASE k = t.call
    BY <1>11, <2>1 DEF TableGoesOn
  <2>2. CASE k # t.call
    <3>1. k \in TableCalls(c)
      BY <1>7, <1>11, <2>2, GrowsTables
    <3>2. RowsDrawn(c, k, table.rows)
      BY <3>1
    <3> QED BY <1>11, <2>2, <3>2, GrowsTables
  <2> QED BY <2>1, <2>2
<1>16. /\ drawing'.call = calls' /\ drawing'.height \in RowHeights
       /\ TableGoesOn(canvas, drawing)'
  <2>1. TableGoesOn(canvas, drawing)'
    BY <1>6, <1>11, <1>12 DEF TableGoesOn, Repeating
  <2> QED BY <1>1, <1>5, <1>6, <1>7, <2>1
<1>17. (Unbegun /\ SheetRows)'
  BY <1>1 DEF Unbegun, SheetRows
<1> QED
  BY <1>13, <1>14, <1>15, <1>16, <1>17 DEF ExportInv

\* Table: a table begins in an open document.
LEMMA TableStep ==
  ASSUME ExportInv, Table
  PROVE  ExportInv'
<1>1. PICK o \in Options : Helper /\ StartTable(canvas, o) /\ UNCHANGED footer
  BY DEF Table
<1>2. /\ state = "open" /\ calls < MaxCalls
      /\ UNCHANGED <<fields, widths, table, sheet, tier, bottom, footer>>
  BY <1>1 DEF Helper
<1>3. /\ Ready(canvas, calls) /\ calls \in Nat
      /\ bottom \in BottomMargins \cup {marginBottom} /\ tier \in {"generate", "document"}
  BY <1>2, Opened
<1>4. calls \in 0 .. MaxCalls
  BY <1>2, <1>3, LayoutFacts
<1>5. \A k \in TableCalls(canvas) : RowsDrawn(canvas, k, table.rows)
  BY <1>2 DEF ExportInv, RowsComplete
<1> QED
  BY <1>1, <1>2, <1>3, <1>4, <1>5, StartStep

\* Before a tier is chosen.
LEMMA Built ==
  ASSUME ExportInv, state = "built"
  PROVE  /\ canvas = EmptyCanvas /\ calls = 0 /\ footer = 0 /\ bottom = marginBottom
         /\ Ready(EmptyCanvas, 0) /\ TableCalls(EmptyCanvas) = {}
         /\ EmptyCanvas \in Canvas /\ Pages(EmptyCanvas) = 1
<1>1. canvas = EmptyCanvas /\ calls = 0 /\ footer = 0 /\ bottom = marginBottom
  BY DEF ExportInv, Unbegun
<1> QED
  BY <1>1, Blank

\* A table without columns is refused and nothing is drawn.
LEMMA RefusedStep ==
  ASSUME ExportInv, NEW t \in {"excel", "generate"}, Refused(t)
  PROVE  ExportInv'
<1>1. /\ state = "built" /\ tier' = t /\ state' = "refused"
      /\ UNCHANGED <<fields, widths, table, sheet, bottom, canvas, footer, drawing, calls>>
  BY DEF Refused
<1>2. canvas = EmptyCanvas /\ TableCalls(EmptyCanvas) = {}
  BY <1>1, Built
<1>3. Sound(canvas, calls)'
  BY <1>1 DEF ExportInv, Sound, Stacked, Trigger
<1>4. ExportTypeOK'
  BY <1>1 DEF ExportInv, ExportTypeOK
<1>5. (RowsComplete /\ Unbegun /\ SheetRows)'
  BY <1>1, <1>2 DEF RowsComplete, Unbegun, SheetRows
<1> QED
  BY <1>1, <1>3, <1>4, <1>5 DEF ExportInv

\* A tier is chosen once, and the number of rows stays.
LEMMA BeginFacts ==
  ASSUME ExportInv, NEW t, Begin(t)
  PROVE  /\ state = "built" /\ tier' = t /\ table'.rows = table.rows
         /\ table'.rows \in 0 .. MaxRows
<1>1. state = "built" /\ tier' = t /\ table' = [table EXCEPT !.columns = <<>>]
  BY DEF Begin
<1>2. table'.rows = table.rows
  BY <1>1
<1> QED
  BY <1>1, <1>2 DEF ExportInv, ExportTypeOK

\* Generate: the table begins below a brand header or a title, or is refused.
LEMMA GenerateStep ==
  ASSUME ExportInv, Generate
  PROVE  ExportInv'
<1>1. CASE Refused("generate")
  BY <1>1, RefusedStep
<1>2. ASSUME NEW o \in Options, Begin("generate"),
             \/ StartTable(drawBrandHeader(canvas, o.brand, 0), o)
             \/ StartTable(drawTitleBlock(canvas, 0), o),
             UNCHANGED <<sheet, bottom, footer>>
      PROVE  ExportInv'
  <2>1. /\ state = "built" /\ tier' = "generate" /\ table'.rows = table.rows
    BY <1>2, BeginFacts
  <2>2. /\ canvas = EmptyCanvas /\ calls = 0 /\ footer = 0 /\ bottom = marginBottom
        /\ Ready(EmptyCanvas, 0) /\ TableCalls(EmptyCanvas) = {}
    BY <2>1, Built
  <2>3. PICK c : /\ c \in {drawBrandHeader(canvas, o.brand, 0),
                           drawTitleBlock(canvas, 0)}
                 /\ StartTable(c, o)
    BY <1>2
  <2>4. Ready(c, 0) /\ TableCalls(c) = {}
    <3>1. CASE c = drawBrandHeader(canvas, o.brand, 0)
      <4>1. o.brand \in BrandHeaders \cup {NoBrand} /\ 0 \in 0 .. 0
        BY DEF Options
      <4> QED BY <2>2, <3>1, <4>1, BrandEffect
    <3>2. CASE c = drawTitleBlock(canvas, 0)
      <4>1. 0 \in 0 .. 0
        OBVIOUS
      <4> QED BY <2>2, <3>2, <4>1, TitleEffect
    <3> QED BY <2>3, <3>1, <3>2
  <2>5. calls \in 0 .. MaxCalls
    BY <2>2, LayoutFacts
  <2> QED BY <1>2, <2>1, <2>2, <2>3, <2>4, <2>5, StartStep
<1>3. ASSUME NEW o \in Options, Begin("generate"),
             state' = "refused", UNCHANGED <<canvas, drawing, calls>>,
             UNCHANGED <<sheet, bottom, footer>>
      PROVE  ExportInv'
  <2>1. /\ state = "built" /\ tier' = "generate" /\ table'.rows = table.rows
        /\ table'.rows \in 0 .. MaxRows
    BY <1>3, BeginFacts
  <2>2. canvas = EmptyCanvas /\ TableCalls(EmptyCanvas) = {}
    BY <2>1, Built
  <2>3. Sound(canvas, calls)'
    BY <1>3 DEF ExportInv, Sound, Stacked, Trigger
  <2>4. ExportTypeOK'
    BY <1>3, <2>1 DEF ExportInv, ExportTypeOK
  <2>5. (RowsComplete /\ Unbegun /\ SheetRows)'
    BY <1>3, <2>2 DEF RowsComplete, Unbegun, SheetRows
  <2> QED BY <1>3, <2>3, <2>4, <2>5 DEF ExportInv
<1> QED
  BY <1>1, <1>2, <1>3 DEF Generate

\* A document begins with a margin of its own, on which nothing depends yet.
LEMMA NewDocumentStep ==
  ASSUME ExportInv, NewDocument
  PROVE  ExportInv'
<1>1. /\ Begin("document") /\ bottom' \in BottomMargins /\ state' = "open"
      /\ UNCHANGED <<sheet, canvas, footer, drawing, calls>>
  BY DEF NewDocument
<1>2. /\ state = "built" /\ tier' = "document" /\ table'.rows = table.rows
      /\ table'.rows \in 0 .. MaxRows
  BY <1>1, BeginFacts
<1>3. /\ canvas = EmptyCanvas /\ calls = 0 /\ footer = 0
      /\ Ready(EmptyCanvas, 0) /\ TableCalls(EmptyCanvas) = {}
  BY <1>2, Built
<1>4. DOMAIN canvas.items = {}
  BY <1>3 DEF EmptyCanvas
<1>5. Sound(canvas, calls)'
  <2>1. Stacked(canvas)'
    BY <1>1, <1>4 DEF Stacked
  <2> QED BY <1>1, <1>3, <2>1 DEF Ready, Sound
<1>6. ExportTypeOK'
  BY <1>1, <1>2 DEF ExportInv, ExportTypeOK
<1>7. RowsComplete'
  BY <1>1, <1>3 DEF RowsComplete
<1>8. (Unbegun /\ SheetRows)'
  BY <1>1 DEF Unbegun, SheetRows
<1> QED
  BY <1>1, <1>5, <1>6, <1>7, <1>8 DEF ExportInv

\* One more row of the table in progress.
LEMMA DrawnRowStep ==
  ASSUME ExportInv, state = "drawing", drawing.next <= table.rows, NEW ok, NEW c,
         c = IF canvas.y + drawing.height > Limit THEN NewPage(canvas, drawing, ok) ELSE canvas,
         DrawnRow(c)
  PROVE  ExportInv'
<1>1. /\ state = "drawing" /\ drawing.next <= table.rows
      /\ drawing' = [drawing EXCEPT !.next = @ + 1]
      /\ UNCHANGED <<fields, widths, table, sheet, tier, bottom, footer, calls, state>>
  BY DEF DrawnRow
<1>2. canvas' = Draw(c, Item("row", drawing.call, drawing.next), drawing.height)
  BY DEF DrawnRow
<1>3. /\ Ready(canvas, calls) /\ calls \in Nat
      /\ bottom \in BottomMargins \cup {marginBottom} /\ tier \in {"generate", "document"}
  BY <1>1, Opened
<1>4. /\ drawing.call = calls /\ drawing.height \in RowHeights
      /\ TableGoesOn(canvas, drawing)
  BY <1>1 DEF ExportInv
<1>5. /\ drawing \in [call : Nat, next : 1 .. table.rows + 1, height : RowHeights \cup {0},
                      repeat : BOOLEAN, brand : BrandHeaders \cup {NoBrand}]
      /\ table.rows \in Nat
  BY LayoutFacts DEF ExportInv, ExportTypeOK
<1>6. drawing.next \in Nat /\ drawing.next >= 1 /\ drawing.brand \in BrandHeaders \cup {NoBrand}
  BY <1>5
<1>7. PICK n : n = drawing.next + 1
  OBVIOUS
<1>8. n \in 1 .. table.rows + 1
  BY <1>1, <1>5, <1>6, <1>7
<1>9. drawing' = [drawing EXCEPT !.next = n]
  BY <1>1, <1>5, <1>7
<1>10. /\ drawing' \in [call : Nat, next : 1 .. table.rows + 1, height : RowHeights \cup {0},
                        repeat : BOOLEAN, brand : BrandHeaders \cup {NoBrand}]
       /\ drawing'.call = drawing.call /\ drawing'.next = n /\ drawing'.height = drawing.height
  BY <1>5, <1>8, <1>9
<1>11. drawing'.repeat = drawing.repeat
  BY <1>5, <1>9
<1>12. PICK u : u = drawing'
  OBVIOUS
<1>13. u.call = calls /\ u.next = drawing.next + 1
  BY <1>4, <1>7, <1>10, <1>12
<1>14. u.repeat = drawing.repeat
  BY <1>11, <1>12
<1>15. PICK d : d = Draw(IF canvas.y + drawing.height > Limit
                         THEN NewPage(canvas, drawing, ok) ELSE canvas,
                         Item("row", calls, drawing.next), drawing.height)
  OBVIOUS
<1>16. canvas' = d
  BY <1>2, <1>4, <1>15
<1>17. /\ Ready(d, calls) /\ TableGoesOn(d, u)
       /\ \A call, r : call # calls /\ RowsDrawn(canvas, call, r) => RowsDrawn(d, call, r)
       /\ TableCalls(d) \subseteq TableCalls(canvas) \cup {calls}
  BY <1>3, <1>4, <1>6, <1>13, <1>14, <1>15, RowStep
<1>18. /\ Sound(canvas, calls)'
       /\ (canvas \in Canvas /\ canvas.footers # <<>> /\ canvas.y >= marginTop)'
       /\ (footer \in 0 .. Pages(canvas))'
  BY <1>1, <1>16, <1>17, BecomesCanvas
<1>19. ExportTypeOK'
  BY <1>1, <1>10, <1>18 DEF ExportInv, ExportTypeOK
<1>20. RowsComplete'
  <2> SUFFICES ASSUME NEW k \in TableCalls(d)
               PROVE  RowsDrawn(d, k, IF k = u.call THEN u.next - 1 ELSE table.rows)
    BY <1>1, <1>12, <1>16 DEF RowsComplete
  <2>1. CASE k = u.call
    BY <1>17, <2>1 DEF TableGoesOn
  <2>2. CASE k # u.call
    <3>1. k \in TableCalls(canvas) /\ k # drawing.call
      BY <1>4, <1>13, <1>17, <2>2
    <3>2. RowsDrawn(canvas, k, table.rows)
      BY <3>1 DEF ExportInv, RowsComplete
    <3> QED BY <1>13, <1>17, <2>2, <3>2
  <2> QED BY <2>1, <2>2
<1>21. TableGoesOn(canvas, drawing)'
  BY <1>1, <1>12, <1>16, <1>17 DEF TableGoesOn, Repeating
<1>22. (Unbegun /\ SheetRows)'
  BY <1>1 DEF Unbegun, SheetRows
<1> QED
  BY <1>1, <1>4, <1>10, <1>18, <1>19, <1>20, <1>21, <1>22 DEF ExportInv

\* drawRow: the next row, on a new page if need be, or gofpdf's error.
LEMMA DrawRowStep ==
  ASSUME ExportInv, drawRow
  PROVE  ExportInv'
<1>1. state = "drawing" /\ drawing.next <= table.rows
  BY DEF drawRow
<1>2. CASE canvas.y + drawing.height > Limit
  <2>1. PICK outcome \in Outcomes(canvas, drawing.brand) :
          IF outcome = "broken" THEN Spoil
          ELSE DrawnRow(NewPage(canvas, drawing, outcome = "drawn"))
    BY <1>2 DEF drawRow
  <2>2. CASE outcome = "broken"
    BY <2>1, <2>2, SpoilStep
  <2>3. CASE outcome # "broken"
    <3>1. PICK ok : ok = (outcome = "drawn")
      OBVIOUS
    <3>2. PICK c : c = NewPage(canvas, drawing, ok)
      OBVIOUS
    <3>3. DrawnRow(c)
      BY <2>1, <2>3, <3>1, <3>2
    <3> QED BY <1>1, <1>2, <3>2, <3>3, DrawnRowStep
  <2> QED BY <2>2, <2>3
<1>3. CASE ~ (canvas.y + drawing.height > Limit)
  <2>1. DrawnRow(canvas)
    BY <1>3 DEF drawRow
  <2> QED BY <1>1, <1>3, <2>1, DrawnRowStep
<1> QED
  BY <1>2, <1>3

\* Output writes a footer on the last page and nothing else.
LEMMA FinishEffect ==
  ASSUME Ready(canvas, calls), NEW f \in 0 .. Pages(canvas), Finish(f), UNCHANGED <<bottom, calls>>
  PROVE  /\ Sound(canvas, calls)' /\ canvas'.items = canvas.items
         /\ Pages(canvas)' = Pages(canvas)
<1>1. /\ canvas \in Canvas /\ canvas.footers # <<>> /\ canvas.y >= marginTop
      /\ ImagesAsked(canvas) /\ Laid(canvas, calls) /\ Stacked(canvas)
      /\ BoldExplained(canvas)
      /\ \A i \in DOMAIN canvas.items : LogoShown(canvas, i)
  BY DEF Ready, Sound
<1> DEFINE n == Pages(canvas)
           fs == [canvas.footers EXCEPT ![n] = f]
<1>2. n \in Nat /\ n >= 1 /\ canvas.footers \in Seq(Nat) /\ Len(canvas.footers) = n
  BY <1>1, CanvasFields DEF Pages
<1>3. fs \in Seq(Nat) /\ Len(fs) = n
  BY <1>2
<1>4. canvas' = [canvas EXCEPT !.footers = fs]
  BY DEF Finish
<1> HIDE DEF fs
<1>5. /\ canvas' \in Canvas /\ canvas'.items = canvas.items /\ canvas'.footers = fs
      /\ canvas'.y = canvas.y /\ canvas'.images = canvas.images
  BY <1>1, <1>3, <1>4 DEF Canvas
<1>6. Pages(canvas') = n /\ canvas'.footers # <<>>
  BY <1>2, <1>3, <1>5 DEF Pages
<1>7. Laid(canvas, calls)'
  BY <1>1, <1>5, <1>6 DEF Laid
<1>8. Stacked(canvas)' /\ BoldExplained(canvas)' /\ ImagesAsked(canvas)'
  BY <1>1, <1>5 DEF Stacked, BoldExplained, ImagesAsked, Trigger, Heads, At
<1>9. (\A i \in DOMAIN canvas.items : LogoShown(canvas, i))'
  BY <1>1, <1>5 DEF LogoShown
<1> QED
  BY <1>1, <1>5, <1>6, <1>7, <1>8, <1>9 DEF Sound

\* The rows of every table stay when nothing is drawn.
LEMMA RowsStay ==
  ASSUME NEW c, NEW d, c.items = d.items, NEW k, NEW n
  PROVE  TableCalls(d) = TableCalls(c) /\ (RowsDrawn(c, k, n) => RowsDrawn(d, k, n))
BY DEF TableCalls, RowsDrawn, At

\* A finished document shows what was drawn.
LEMMA FinishStep ==
  ASSUME ExportInv, state \in {"open", "drawing"}, NEW f, Finish(f),
         \A k \in TableCalls(canvas) : RowsDrawn(canvas, k, table.rows),
         \/ tier = "generate" /\ f = Pages(canvas)
         \/ tier = "document" /\ f = footer,
         UNCHANGED <<fields, widths, table, sheet, tier, bottom, drawing, calls>>
  PROVE  ExportInv'
<1>1. /\ Ready(canvas, calls) /\ calls \in Nat /\ canvas \in Canvas
  BY Opened
<1>2. Pages(canvas) \in Nat /\ footer \in 0 .. Pages(canvas)
  BY <1>1, CanvasFields DEF Ready
<1>3. f \in 0 .. Pages(canvas)
  BY <1>2
<1>4. /\ Sound(canvas, calls)' /\ canvas'.items = canvas.items
      /\ Pages(canvas)' = Pages(canvas)
  BY <1>1, <1>3, FinishEffect
<1>5. footer' = f /\ state' = "done"
  BY DEF Finish
<1>6. ExportTypeOK'
  <2>1. (canvas \in Canvas /\ canvas.footers # <<>> /\ canvas.y >= marginTop)'
    BY <1>4 DEF Sound
  <2>2. footer' \in 0 .. Pages(canvas)'
    BY <1>3, <1>4, <1>5
  <2> QED BY <1>5, <2>1, <2>2 DEF ExportInv, ExportTypeOK
<1>7. RowsComplete'
  <2>1. \A k \in TableCalls(canvas') : RowsDrawn(canvas', k, table.rows)
    BY <1>4, RowsStay
  <2> QED BY <1>5, <2>1 DEF RowsComplete
<1>8. (Unbegun /\ SheetRows)'
  BY <1>5 DEF Unbegun, SheetRows, ExportInv, ExportTypeOK
<1> QED
  BY <1>4, <1>5, <1>6, <1>7, <1>8 DEF ExportInv

\* The last row: Generate outputs, a document goes on.
LEMMA RowsDoneStep ==
  ASSUME ExportInv, RowsDone
  PROVE  ExportInv'
<1>1. /\ state = "drawing" /\ drawing.next > table.rows
      /\ UNCHANGED <<fields, widths, table, sheet, tier, bottom, drawing, calls>>
  BY DEF RowsDone
<1>2. tier \in {"generate", "document"} /\ Ready(canvas, calls)
  BY <1>1, Opened
<1>3. \A k \in TableCalls(canvas) : RowsDrawn(canvas, k, table.rows)
  <2>1. drawing.next \in 1 .. table.rows + 1 /\ table.rows \in Nat
    BY LayoutFacts DEF ExportInv, ExportTypeOK
  <2>2. drawing.next - 1 = table.rows
    BY <1>1, <2>1
  <2> QED BY <1>1, <2>2 DEF ExportInv, RowsComplete
<1>4. CASE tier = "generate"
  <2>1. Finish(Pages(canvas))
    BY <1>4 DEF RowsDone
  <2> QED BY <1>1, <1>3, <1>4, <2>1, FinishStep
<1>5. CASE tier # "generate"
  <2>1. state' = "open" /\ UNCHANGED <<canvas, footer>>
    BY <1>5 DEF RowsDone
  <2>2. Sound(canvas, calls)'
    BY <1>1, <2>1 DEF ExportInv, Sound, Stacked, Trigger
  <2>3. ExportTypeOK'
    BY <1>1, <1>2, <1>5, <2>1 DEF ExportInv, ExportTypeOK
  <2>4. RowsComplete'
    BY <1>1, <1>3, <2>1 DEF RowsComplete
  <2>5. (Unbegun /\ SheetRows)'
    BY <1>1, <2>1 DEF Unbegun, SheetRows
  <2> QED BY <2>1, <2>2, <2>3, <2>4, <2>5 DEF ExportInv
<1> QED
  BY <1>4, <1>5

\* Bytes: the document is output with the footer that is registered, if any.
LEMMA BytesStep ==
  ASSUME ExportInv, Bytes
  PROVE  ExportInv'
<1>1. /\ state = "open" /\ Finish(footer)
      /\ UNCHANGED <<fields, widths, table, sheet, tier, bottom, drawing, calls>>
  BY DEF Bytes
<1>2. tier = "document" /\ \A k \in TableCalls(canvas) : RowsDrawn(canvas, k, table.rows)
  BY <1>1 DEF ExportInv, ExportTypeOK, RowsComplete
<1> QED
  BY <1>1, <1>2, FinishStep

\* The rows of a sheet are written one after the other, the filter over the
\* header and the data.
LEMMA SheetWritten ==
  ASSUME NEW t, t.rows \in Nat, NEW ws, NEW titled \in BOOLEAN,
         NEW s, s = SheetOf(t, ws, titled)
  PROVE  /\ IsInjective(s.writes)
         /\ \A i \in 1 .. Len(s.writes) - 1 : s.writes[i] < s.writes[i + 1]
         /\ Cardinality(s.filter) = t.rows + 1
         /\ s.frozen = Min(s.filter)
         /\ Max(s.filter) = s.writes[Len(s.writes)]
<1> DEFINE h == IF titled THEN 3 ELSE 1
           rows == t.rows
           data == [r \in 1 .. rows + 1 |-> h + r - 1]
           writes == (IF titled THEN <<1, 2>> ELSE <<>>) \o data
<1>0. /\ s.writes = writes /\ s.frozen = h /\ s.filter = h .. (h + rows)
      /\ h \in {1, 3} /\ rows \in Nat
  BY DEF SheetOf, headerRow
<1>1. data \in Seq(Nat) /\ Len(data) = rows + 1
  <2> HIDE DEF h, rows
  <2>1. \A r \in 1 .. rows + 1 : h + r - 1 \in Nat
    BY <1>0
  <2> QED BY <1>0, <2>1
<1>2. Len(writes) = rows + h /\ \A i \in 1 .. rows + h : writes[i] = i
  <2>1. CASE ~ titled
    <3>1. Len(writes) = rows + 1 /\ \A i \in 1 .. rows + 1 : writes[i] = data[i]
      BY <1>1, <2>1
    <3>2. h = 1 /\ \A i \in 1 .. rows + 1 : data[i] = i
      BY <2>1
    <3> QED BY <3>1, <3>2
  <2>2. CASE titled
    <3>1. writes = <<1, 2>> \o data /\ h = 3
      BY <2>2
    <3>2. Len(writes) = rows + 3
      BY <1>1, <3>1
    <3>3. writes[1] = 1 /\ writes[2] = 2
      BY <1>1, <3>1
    <3>4. \A i \in 3 .. rows + 3 : writes[i] = data[i - 2]
      BY <1>1, <3>1
    <3>5. \A i \in 3 .. rows + 3 : data[i - 2] = i
      BY <3>1
    <3>6. \A i \in 1 .. rows + 3 : i = 1 \/ i = 2 \/ i \in 3 .. rows + 3
      BY <1>0
    <3> QED BY <3>1, <3>2, <3>3, <3>4, <3>5, <3>6
  <2> QED BY <2>1, <2>2
<1>3. DOMAIN writes = 1 .. rows + h
  BY <1>1, <1>2
<1> HIDE DEF data, writes, h, rows
<1>4. IsInjective(writes)
  BY <1>2, <1>3 DEF IsInjective
<1>5. \A i \in 1 .. Len(writes) - 1 : writes[i] < writes[i + 1]
  BY <1>0, <1>2
<1>6. Cardinality(h .. (h + rows)) = rows + 1
  BY <1>0, FS_Interval
<1>7. h \in h .. (h + rows) /\ \A y \in h .. (h + rows) : h <= y
  BY <1>0
<1>8. h = Min(h .. (h + rows))
  <2>1. \A x \in h .. (h + rows) : (\A y \in h .. (h + rows) : x <= y) => x = h
    BY <1>0, <1>7
  <2> QED BY <1>7, <2>1 DEF Min
<1>9. h + rows = Max(h .. (h + rows))
  <2>1. h + rows \in h .. (h + rows) /\ \A y \in h .. (h + rows) : h + rows >= y
    BY <1>0
  <2>2. \A x \in h .. (h + rows) : (\A y \in h .. (h + rows) : x >= y) => x = h + rows
    BY <1>0, <2>1
  <2> QED BY <2>1, <2>2 DEF Max
<1>10. writes[Len(writes)] = h + rows
  BY <1>0, <1>2
<1> QED
  BY <1>0, <1>4, <1>5, <1>6, <1>8, <1>9, <1>10 DEF rows

\* ExcelGenerate: the sheet is written, or refused.
LEMMA ExcelStep ==
  ASSUME ExportInv, ExcelGenerate
  PROVE  ExportInv'
<1>1. CASE Refused("excel")
  BY <1>1, RefusedStep
<1>2. CASE ~ Refused("excel")
  <2>1. /\ state = "built" /\ tier' = "excel" /\ state' = "done"
        /\ UNCHANGED <<fields, widths, table, bottom, canvas, footer, drawing, calls>>
    BY <1>2 DEF ExcelGenerate
  <2>2. PICK titled \in BOOLEAN : sheet' = SheetOf(table, widths, titled)
    BY <1>2 DEF ExcelGenerate
  <2>3. /\ canvas = EmptyCanvas /\ footer = 0 /\ TableCalls(EmptyCanvas) = {}
        /\ Pages(EmptyCanvas) = 1
    BY <2>1, Built
  <2>4. Sound(canvas, calls)'
    BY <2>1 DEF ExportInv, Sound, Stacked, Trigger
  <2>5. ExportTypeOK'
    BY <2>1 DEF ExportInv, ExportTypeOK
  <2>6. RowsComplete' /\ Unbegun'
    BY <2>1, <2>3 DEF RowsComplete, Unbegun
  <2>7. SheetRows'
    <3>1. table.rows \in Nat
      BY LayoutFacts DEF ExportInv, ExportTypeOK
    <3>2. PICK s : s = SheetOf(table, widths, titled)
      OBVIOUS
    <3>3. /\ IsInjective(s.writes)
          /\ \A i \in 1 .. Len(s.writes) - 1 : s.writes[i] < s.writes[i + 1]
          /\ Cardinality(s.filter) = table.rows + 1
          /\ s.frozen = Min(s.filter)
          /\ Max(s.filter) = s.writes[Len(s.writes)]
      BY <3>1, <3>2, SheetWritten
    <3> QED BY <2>1, <2>2, <3>2, <3>3 DEF SheetRows
  <2> QED BY <2>1, <2>4, <2>5, <2>6, <2>7 DEF ExportInv
<1> QED
  BY <1>1, <1>2

\* Nothing is drawn in the beginning.
LEMMA InitStep ==
  ASSUME ExportInit
  PROVE  ExportInv
<1>1. /\ sheet = NoSheet /\ tier = "none" /\ bottom = marginBottom
      /\ canvas = EmptyCanvas /\ footer = 0 /\ drawing = NoTable /\ calls = 0
      /\ state = "built"
  BY DEF ExportInit
<1>2. PICK n \in 0 .. MaxRows : table = FromStructs(fields, n)
  BY DEF ExportInit
<1>3. table.rows = n /\ table.columns = columnsFor(fields)
  BY <1>2 DEF FromStructs, columnsFor, exportableFields
<1>4. /\ Ready(EmptyCanvas, 0) /\ TableCalls(EmptyCanvas) = {}
      /\ EmptyCanvas \in Canvas /\ Pages(EmptyCanvas) = 1
  BY <1>1, Blank
<1>5. Sound(canvas, calls)
  BY <1>1, <1>4 DEF Ready
<1>6. n \in Nat /\ MaxCalls \in Nat
  BY LayoutFacts
<1>7. drawing \in [call : Nat, next : 1 .. table.rows + 1, height : RowHeights \cup {0},
                   repeat : BOOLEAN, brand : BrandHeaders \cup {NoBrand}]
  <2>1. 1 \in 1 .. table.rows + 1
    BY <1>3, <1>6
  <2> QED BY <1>1, <2>1 DEF NoTable
<1>8. ExportTypeOK
  <2>1. canvas \in Canvas /\ canvas.footers # <<>> /\ canvas.y >= marginTop
    BY <1>5 DEF Sound
  <2>2. footer \in 0 .. Pages(canvas) /\ calls \in 0 .. MaxCalls + 1
    BY <1>1, <1>4, <1>6
  <2> QED BY <1>1, <1>3, <1>7, <2>1, <2>2 DEF ExportTypeOK
<1>9. RowsComplete /\ Unbegun /\ SheetRows
  BY <1>1, <1>3, <1>4 DEF RowsComplete, Unbegun, SheetRows
<1> QED
  BY <1>1, <1>5, <1>8, <1>9 DEF ExportInv

\* A step that changes nothing.
LEMMA Stutter ==
  ASSUME ExportInv, UNCHANGED exportVars
  PROVE  ExportInv'
<1>1. /\ ExportTypeOK' /\ Sound(canvas, calls)' /\ RowsComplete' /\ SheetRows'
  BY DEF exportVars, ExportInv, ExportTypeOK, Sound, Stacked, Trigger, RowsComplete,
         SheetRows
<1>2. Unbegun'
  BY DEF exportVars, ExportInv, Unbegun
<1>3. (state = "drawing" => /\ drawing.call = calls /\ drawing.height \in RowHeights
                            /\ TableGoesOn(canvas, drawing))'
  BY DEF exportVars, ExportInv, TableGoesOn, Repeating
<1> QED
  BY <1>1, <1>2, <1>3 DEF ExportInv

-----------------------------------------------------------------------------

\* ExportInv holds in every state of every export: whatever a service draws on a
\* document, in whatever order, and wherever the pages break.
THEOREM ExportInvariant == ExportSpec => []ExportInv
<1>1. ExportInit => ExportInv
  BY InitStep
<1>2. ASSUME ExportInv, [ExportNext]_exportVars
      PROVE  ExportInv'
  BY <1>2, ExcelStep, GenerateStep, NewDocumentStep, TitleStep, HeaderStep, ParagraphStep,
     SpacerStep, SetFooterStep, TableStep, DrawRowStep, RowsDoneStep, BytesStep, Stutter
     DEF ExportNext
<1> QED
  BY <1>1, <1>2, PTL DEF ExportSpec

\* The state is well formed: there is a last page, the cursor is below its top
\* margin, and a table is in progress only in a document that is being drawn.
THEOREM ExportTypeCorrect == ExportSpec => []ExportTypeOK
<1>1. ExportInv => ExportTypeOK
  BY DEF ExportInv
<1> QED
  BY <1>1, ExportInvariant, PTL

\* The rows of every table are on the pages exactly once and in order; nothing is
\* drawn over anything else, a repeated header is above the rows of its page, and
\* a row is bold only where a header was repeated before it.
THEOREM ExportRows == ExportSpec => []RowsShown
<1>1. ExportInv => RowsShown
  <2> SUFFICES ASSUME ExportInv
               PROVE  RowsComplete /\ Stacked(canvas) /\ HeadersRepeat /\ BoldExplained(canvas)
    BY DEF RowsShown
  <2>1. HeadersRepeat
    BY DEF ExportInv, HeadersRepeat, TableGoesOn
  <2> QED
    BY <2>1 DEF ExportInv, Sound
<1> QED
  BY <1>1, ExportInvariant, PTL

\* A brand header shows its own logo, or that of an earlier header of the document
\* that named the same file or whose bytes lay at the same address.
THEOREM ExportLogos == ExportSpec => []LogosShown
<1>1. ExportInv => LogosShown
  BY DEF ExportInv, Sound, LogosShown
<1> QED
  BY <1>1, ExportInvariant, PTL

\* The columns do not depend on whether the slice is empty, and the sheet has every
\* row once, one after the other, under a filter that spans the header and the data.
THEOREM ExportSheet == ExportSpec => [](ColumnsAgree /\ SheetRows)
<1>1. ExportInv => ColumnsAgree /\ SheetRows
  BY DEF ExportInv, Unbegun, ColumnsAgree, FromStructs, columnsFor, exportableFields
<1> QED
  BY <1>1, ExportInvariant, PTL

=============================================================================
