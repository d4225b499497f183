---------------------------- MODULE FileStorage ----------------------------
(***************************************************************************)
(* The storage module: its handlers and service over a provider that keeps *)
(* the objects in a directory (local), in S3 or in Google Cloud Storage,   *)
(* or that is disabled because none could be built.                        *)
(*                                                                         *)
(* An upload is not one step.  The local provider makes the folder,        *)
(* creates the file and copies the body into it, in view of everybody; the *)
(* S3 provider reads the body and puts the object; the GCS provider copies *)
(* the body to a writer whose Close commits what it was given.  Uploads,   *)
(* deletions and links interleave, any of them may fail, and the process   *)
(* may be killed and started again.                                        *)
(*                                                                         *)
(* What is abstracted.  A file is Size chunks; a stored object is the      *)
(* number of its chunks that are there.  All uploads name the same file    *)
(* and the same folder.  The permissions of the routes are the subject of  *)
(* AccessDecision.                                                         *)
(***************************************************************************)
EXTENDS Naturals, FiniteSets

CONSTANTS
  Uploads,        \* calls of the upload endpoint
  Size,           \* chunks of a file
  DefaultExpiry,  \* lifetime of a link when the request names none, in ticks
  MaxExpiry,      \* longest lifetime a request may ask for
  Asked,          \* the lifetimes requests ask for
  MaxTime,        \* bound of the clock
  MaxCrashes      \* bound on the kills of the process

ASSUME FileStorageAssumption ==
  /\ Size \in Nat \ {0}
  /\ MaxExpiry \in Nat \ {0} /\ DefaultExpiry \in 1 .. MaxExpiry
  /\ Asked \subseteq Nat
  /\ MaxTime \in Nat /\ MaxCrashes \in Nat

VARIABLES
  backend,   \* the provider behind the service
  folder,    \* local: is the folder of the uploads there?
  store,     \* object key |-> chunks stored, for the objects that exist
  up,        \* the local state of each upload
  links,     \* the presigned URLs given out
  now,
  crashes,
  \* History, read by no step:
  told,      \* keys that were answered to a client
  unsure,    \* keys somebody tried to delete
  deleted,   \* keys whose deletion was answered
  faulted,   \* uploads that met a failure of the disk, the network or the body
  raced      \* uploads whose folder was deleted before they created their file

vars == <<backend, folder, store, up, links, now, crashes,
          told, unsure, deleted, faulted, raced>>
history == <<told, unsure, deleted, faulted, raced>>

(* Mutant of objectKey: the folder and the name of the file alone. *)
objectKeyPlain(u) == CHOOSE v \in Uploads : TRUE

(* The key of an upload is the folder, a fresh uuid and the name of the     *)
(* file: the uuid is all that tells two uploads of one file apart.          *)
objectKey(u) == u
Keys == {objectKey(u) : u \in Uploads}

Forever == 0

UploadState ==
  [pc : {"idle", "create", "copy", "commit", "answer", "broken",
         "stored", "failed", "killed"},
   written : 0 .. Size]

TypeOK ==
  /\ backend \in {"local", "s3", "gcs", "disabled"}
  /\ folder \in BOOLEAN
  /\ DOMAIN store \subseteq Keys /\ store \in [DOMAIN store -> 0 .. Size]
  /\ up \in [Uploads -> UploadState]
  /\ links \subseteq [key : Keys, at : 0 .. MaxTime, until : Nat]
  /\ now \in 0 .. MaxTime /\ crashes \in 0 .. MaxCrashes
  /\ told \subseteq Keys /\ deleted \subseteq unsure /\ unsure \subseteq told
  /\ faulted \subseteq Uploads /\ raced \subseteq Uploads

(* The provider named by the configuration, the local one when it names     *)
(* none; an unknown name or a failing constructor is an error.              *)
NewProvider(name, works) ==
  IF name \in {"", "local", "s3", "gcs"} /\ works
  THEN IF name = "" THEN "local" ELSE name
  ELSE "error"

(* The module falls back to the disabled provider. *)
New(name, works) ==
  LET provider == NewProvider(name, works) IN
  IF provider = "error" THEN "disabled" ELSE provider

Init ==
  /\ \E name \in {"", "local", "s3", "gcs", "ftp"}, works \in BOOLEAN :
       backend = New(name, works)
  /\ folder = FALSE
  /\ store = [k \in {} |-> 0]
  /\ up = [u \in Uploads |-> [pc |-> "idle", written |-> 0]]
  /\ links = {} /\ now = 0 /\ crashes = 0
  /\ told = {} /\ unsure = {} /\ deleted = {} /\ faulted = {}
  /\ raced = {}

-----------------------------------------------------------------------------
(* Uploads. *)

Put(k, n) == [x \in DOMAIN store \cup {k} |-> IF x = k THEN n ELSE store[x]]
Without(k) == [x \in DOMAIN store \ {k} |-> store[x]]

Goto(u, pc) == up' = [up EXCEPT ![u].pc = pc]

(* The answer 201, with the key. *)
Created(u) == Goto(u, "stored") /\ told' = told \cup {objectKey(u)}

(* A failure of the disk, the network or the request body: the answer is a  *)
(* 500 and what was stored so far stays.                                    *)
Fault(u) == Goto(u, "failed") /\ faulted' = faulted \cup {u}

(* Mutant of Upload: the folder is not made. *)
UploadNoFolder(u) ==
  /\ up[u].pc = "idle"
  /\ Goto(u, IF backend = "disabled" THEN "failed"
             ELSE IF backend = "local" THEN "create" ELSE "copy")
  /\ UNCHANGED <<backend, folder, store, links, now, crashes, history>>

(* The handler opens the file of the form and the service names the key.    *)
(* The local provider makes the folder; the others start copying.           *)
Upload(u) ==
  /\ up[u].pc = "idle"
  /\ \/ /\ backend = "disabled"
        /\ Goto(u, "failed") /\ UNCHANGED <<folder, faulted>>
     \/ /\ backend = "local"
        /\ \/ folder' = TRUE /\ Goto(u, "create") /\ UNCHANGED faulted
           \/ Fault(u) /\ UNCHANGED folder
     \/ /\ backend \in {"s3", "gcs"}
        /\ Goto(u, "copy") /\ UNCHANGED <<folder, faulted>>
  /\ UNCHANGED <<backend, store, links, now, crashes, told, unsure, deleted,
                 raced>>

(* os.Create: an empty file, also where there was one; an error when the    *)
(* folder is gone.                                                          *)
Create(u) ==
  /\ up[u].pc = "create"
  /\ \/ /\ folder
        /\ store' = Put(objectKey(u), 0)
        /\ Goto(u, "copy") /\ UNCHANGED faulted
     \/ /\ ~folder
        /\ Goto(u, "failed") /\ UNCHANGED <<store, faulted>>
     \/ Fault(u) /\ UNCHANGED store
  /\ UNCHANGED <<backend, folder, links, now, crashes, told, unsure, deleted,
                 raced>>

(* Mutant of CopyChunk: the copy does not end with the body. *)
CopyChunkOn(u) ==
  /\ up[u].pc = "copy" /\ up[u].written <= Size
  /\ up' = [up EXCEPT ![u].written = @ + 1]
  /\ UNCHANGED <<backend, folder, store, links, now, crashes, history>>

(* One chunk of io.Copy (local, gcs) or io.ReadAll (s3). *)
CopyChunk(u) ==
  /\ up[u].pc = "copy" /\ up[u].written < Size
  /\ up' = [up EXCEPT ![u].written = @ + 1]
  /\ store' = IF backend = "local" /\ objectKey(u) \in DOMAIN store
              THEN Put(objectKey(u), up[u].written + 1) ELSE store
  /\ UNCHANGED <<backend, folder, links, now, crashes, history>>

(* The copy breaks off.  The file of the local provider stays as it is; the *)
(* GCS provider closes its writer, which commits the chunks it has if the   *)
(* network lets it, and drops the error of that.                            *)
CopyFails(u) ==
  /\ up[u].pc = "copy"
  /\ \/ Fault(u) /\ UNCHANGED store
     \/ /\ backend = "gcs" /\ store' = Put(objectKey(u), up[u].written)
        /\ Goto(u, "broken") /\ faulted' = faulted \cup {u}
  /\ UNCHANGED <<backend, folder, links, now, crashes, told, unsure, deleted,
                 raced>>

(* The end of the copy: the local file is complete. *)
CopyEnds(u) ==
  /\ up[u].pc = "copy" /\ up[u].written = Size
  /\ IF backend = "local" THEN Created(u) ELSE Goto(u, "commit") /\ UNCHANGED told
  /\ UNCHANGED <<backend, folder, store, links, now, crashes, unsure, deleted,
                 faulted, raced>>

(* The effect of PutObject, or of Close of the GCS writer, at the bucket.    *)
Commit(u) ==
  /\ up[u].pc = "commit"
  /\ \/ /\ store' = Put(objectKey(u), Size)
        /\ Goto(u, "answer") /\ UNCHANGED faulted
     \/ Fault(u) /\ UNCHANGED store
  /\ UNCHANGED <<backend, folder, links, now, crashes, told, unsure, deleted,
                 raced>>

(* What the process hears of it, and answers: an error does not say that    *)
(* nothing was stored.                                                      *)
Answer(u) ==
  /\ up[u].pc \in {"answer", "broken"}
  /\ \/ up[u].pc = "answer" /\ Created(u) /\ UNCHANGED faulted
     \/ Fault(u) /\ UNCHANGED told
  /\ UNCHANGED <<backend, folder, store, links, now, crashes, unsure, deleted,
                 raced>>

-----------------------------------------------------------------------------
(* Deletions and links, of keys a client was told. *)

(* An absent object is no error for local and S3, and one for GCS.  A       *)
(* failing call of S3 or GCS may have had its effect.                       *)
Delete(k) ==
  /\ k \in told
  /\ unsure' = unsure \cup {k}
  /\ \/ /\ backend \in {"local", "s3"} \/ k \in DOMAIN store
        /\ store' = Without(k)
        /\ deleted' = deleted \cup {k}
     \/ /\ store' \in IF backend = "local" THEN {store} ELSE {store, Without(k)}
        /\ UNCHANGED deleted
  /\ UNCHANGED <<backend, folder, up, links, now, crashes, told, faulted,
                 raced>>

(* A key may also name the folder: os.Remove takes it away when it is empty.*)
DeleteFolder ==
  /\ backend = "local" /\ folder /\ DOMAIN store = {}
  /\ folder' = FALSE
  /\ raced' = raced \cup {u \in Uploads : up[u].pc = "create"}
  /\ UNCHANGED <<backend, store, up, links, now, crashes, told, unsure, deleted,
                 faulted>>

(* The handler's rule for expiry_minutes. *)
Expiry(asked) == IF asked = 0 \/ asked > MaxExpiry THEN DefaultExpiry ELSE asked

(* The local provider returns the public URL of the key, the expiry         *)
(* unused; S3 signs one that expires; GCS and the disabled provider return  *)
(* an error.  None looks whether the object is there.                       *)
PresignedURL(k) ==
  /\ k \in told /\ backend \in {"local", "s3"}
  /\ \E asked \in Asked :
       links' = links \cup
         {[key |-> k, at |-> now,
           until |-> IF backend = "local" THEN Forever ELSE now + Expiry(asked)]}
  /\ UNCHANGED <<backend, folder, store, up, now, crashes, history>>

(* Download answers the object as it is stored. *)
Download(k) == IF k \in DOMAIN store THEN store[k] ELSE 0

Opens(l) == (l.until = Forever \/ now < l.until) /\ l.key \in DOMAIN store

-----------------------------------------------------------------------------
Tick ==
  /\ now < MaxTime
  /\ now' = now + 1
  /\ UNCHANGED <<backend, folder, store, up, links, crashes, history>>

(* The process is killed: its uploads are over where they were.  What the   *)
(* kernel, S3 or GCS hold stays; a GCS writer that was not closed commits   *)
(* nothing.  That a request on its way has its effect after the kill is     *)
(* not told apart from Commit before it: nobody knows the key.              *)
Crash ==
  /\ crashes < MaxCrashes
  /\ crashes' = crashes + 1
  /\ up' = [u \in Uploads |->
             IF up[u].pc \in {"create", "copy", "commit", "answer", "broken"}
             THEN [up[u] EXCEPT !.pc = "killed"] ELSE up[u]]
  /\ UNCHANGED <<backend, folder, store, links, now, history>>

Next ==
  \/ \E u \in Uploads : \/ Upload(u) \/ Create(u) \/ CopyChunk(u)
                        \/ CopyFails(u) \/ CopyEnds(u) \/ Commit(u) \/ Answer(u)
  \/ \E k \in Keys : Delete(k) \/ PresignedURL(k)
  \/ DeleteFolder \/ Tick \/ Crash

Spec == Init /\ [][Next]_vars

-----------------------------------------------------------------------------
(* A key that was answered to a client is stored whole until somebody tries *)
(* to delete it, whatever other uploads, failures and kills go on.          *)
KnownReadable == \A k \in told \ unsure : Download(k) = Size

(* A deletion that was answered is final: no upload in progress, no retry   *)
(* and no link brings the object back.                                      *)
DeletedStaysDeleted ==
  /\ \A k \in deleted : k \notin DOMAIN store
  /\ \A l \in links : l.key \in deleted => ~Opens(l)

(* A presigned link stops opening its object at most MaxExpiry after it was *)
(* given out, except the local provider's, which never stops.               *)
LinksEnd ==
  \A l \in links :
    Opens(l) /\ backend # "local" => now < l.at + MaxExpiry

(* What a client was answered holds: a key, a deletion, a link's end.       *)
AnswersHold == KnownReadable /\ DeletedStaysDeleted /\ LinksEnd

(* An object whose key nobody was told is being uploaded, or is left of an  *)
(* upload that failed or was killed; nothing removes it.  The local folder  *)
(* and GCS keep what was there, GCS a part only of a copy that broke off;   *)
(* S3 keeps the whole object, when the answer of PutObject is an error or   *)
(* the kill comes before it.                                                *)
OrphansExplained ==
  \A u \in Uploads :
    objectKey(u) \in DOMAIN store \ told =>
      \/ backend = "local" /\ up[u].pc \in {"copy", "failed", "killed"}
      \/ /\ backend \in {"s3", "gcs"}
         /\ up[u].pc \in {"answer", "broken", "failed", "killed"}
         /\ store[objectKey(u)] = Size \/ (backend = "gcs" /\ u \in faulted)

(* An upload fails by a fault of its own or because storage is disabled, or *)
(* because somebody deleted the empty folder between its MkdirAll and its   *)
(* Create: then there is no file.                                           *)
FailureExplained ==
  \A u \in Uploads :
    up[u].pc = "failed" /\ u \notin faulted =>
      /\ backend = "disabled" \/ u \in raced
      /\ objectKey(u) \notin DOMAIN store

(* Every object left behind, and every failure, has a known cause.          *)
LeftoversExplained == OrphansExplained /\ FailureExplained

-----------------------------------------------------------------------------
(* The inductive strengthening the proofs use. *)

(* The keys that were told are those of the uploads that ended well. *)
ToldStored == \A u \in Uploads : objectKey(u) \in told <=> up[u].pc = "stored"

(* What the phase of an upload says of its provider and its work; the       *)
(* folder goes away under a local upload only in a race.                    *)
Stages ==
  \A u \in Uploads :
    /\ up[u].pc \in {"idle", "create"} => up[u].written = 0
    /\ up[u].pc = "create" => backend = "local" /\ (folder \/ u \in raced)
    /\ up[u].pc = "copy" => backend # "disabled"
    /\ up[u].pc \in {"commit", "answer", "broken"} => backend \in {"s3", "gcs"}

(* A local file holds what was copied into it so far. *)
LocalGrows ==
  \A u \in Uploads :
    backend = "local" /\ up[u].pc = "copy" =>
      objectKey(u) \in DOMAIN store /\ store[objectKey(u)] = up[u].written

(* What was committed and not yet answered is whole. *)
CommittedWhole ==
  \A u \in Uploads :
    up[u].pc = "answer" => objectKey(u) \in DOMAIN store /\ store[objectKey(u)] = Size

(* A link of another provider was signed for at most MaxExpiry. *)
LinkTerms ==
  \A l \in links :
    backend # "local" => l.until # Forever /\ l.until <= l.at + MaxExpiry

StorageInv ==
  /\ TypeOK
  /\ ToldStored /\ Stages /\ LocalGrows /\ CommittedWhole /\ LinkTerms
  /\ AnswersHold
  /\ LeftoversExplained
=============================================================================
