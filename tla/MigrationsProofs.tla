-------------------------- MODULE MigrationsProofs --------------------------
(***************************************************************************)
(* Proofs about Migrations for any set of versions, any references between *)
(* them, any number of runs of the command, with or without failures.      *)
(* MigrationsInv is the inductive invariant.                               *)
(***************************************************************************)
EXTENDS Migrations, WellFoundedInduction, TLAPS

-----------------------------------------------------------------------------
(* The foremost migration of a run, and the last batch.                    *)

LEMMA Smallest ==
  ASSUME NEW S \in SUBSET Nat, S # {}
  PROVE  \E b \in S : \A x \in S : b <= x
  <1> DEFINE less == {ss \in Nat \X Nat : ss[1] < ss[2]}
  <1>1. IsWellFoundedOn(less, Nat)
    BY NatLessThanWellFounded DEF OpToRel
  <1> HIDE DEF less
  <1>2. PICK b \in S : \A x \in S : ~(<<x, b>> \in less)
    BY <1>1, WFMin
  <1>3. ASSUME NEW x \in S PROVE b <= x
    <2>1. ~(x < b)
      BY <1>2 DEF less
    <2> QED
      BY <2>1
  <1> QED
    BY <1>3

LEMMA Largest ==
  ASSUME NEW S \in SUBSET Nat, S # {}, NEW n \in Nat, \A x \in S : x <= n
  PROVE  \E b \in S : \A x \in S : x <= b
  <1> DEFINE T == {n - x : x \in S}
  <1>1. T \in SUBSET Nat /\ T # {}
    <2>1. \A x \in S : n - x \in Nat
      OBVIOUS
    <2> QED
      BY <2>1
  <1>2. PICK m \in T : \A k \in T : m <= k
    BY <1>1, Smallest
  <1>3. PICK b \in S : m = n - b
    BY <1>2
  <1>4. \A x \in S : n - b <= n - x
    BY <1>2, <1>3
  <1> QED
    BY <1>4

\* The foremost is one of those that are left, and comes before the others.
LEMMA ForemostIn ==
  ASSUME TypeOK, NEW p \in Runs, Shape(p), run[p].todo # {}
  PROVE  /\ Foremost(p) \in run[p].todo
         /\ Foremost(p) \in Nat \X Versions
         /\ run[p].kind = "down" => \A y \in run[p].todo : y[1] <= Foremost(p)[1]
  <1> DEFINE todo == run[p].todo
             at == {x[1] : x \in todo}
             before(x, y) == IF run[p].kind = "down" THEN x[1] > y[1] ELSE x[1] < y[1]
             first(x) == \A y \in todo \ {x} : before(x, y)
  <1>1. todo \in SUBSET (Nat \X Versions)
    BY DEF TypeOK, RunState
  <1>2. at \in SUBSET Nat /\ at # {}
    BY <1>1
  <1>3. \A x, y \in todo : x[1] = y[1] => x = y
    BY DEF Shape
  <1>4. \E x \in todo : first(x)
    <2>1. CASE run[p].kind = "down"
      <3>1. PICK n \in Nat : \A x \in todo : x[1] <= n
        BY <2>1 DEF Shape
      <3> \A k \in at : k <= n
        BY <3>1
      <3> HIDE DEF at
      <3>2. PICK b \in at : \A k \in at : k <= b
        BY <1>2, Largest
      <3> USE DEF at
      <3>3. PICK x \in todo : x[1] = b
        BY <3>2
      <3>4. ASSUME NEW y \in todo \ {x} PROVE x[1] > y[1]
        <4>1. y[1] <= x[1] /\ y[1] # x[1] /\ x[1] \in Nat /\ y[1] \in Nat
          BY <1>1, <1>3, <3>2, <3>3
        <4> QED
          BY <4>1
      <3> QED
        BY <2>1, <3>4
    <2>2. CASE run[p].kind # "down"
      <3>1. PICK b \in at : \A k \in at : b <= k
        BY <1>2, Smallest
      <3>2. PICK x \in todo : x[1] = b
        BY <3>1
      <3>3. ASSUME NEW y \in todo \ {x} PROVE x[1] < y[1]
        <4>1. x[1] <= y[1] /\ y[1] # x[1] /\ x[1] \in Nat /\ y[1] \in Nat
          BY <1>1, <1>3, <3>1, <3>2
        <4> QED
          BY <4>1
      <3> QED
        BY <2>2, <3>3
    <2> QED
      BY <2>1, <2>2
  <1>5. Foremost(p) = CHOOSE x \in todo : first(x)
    BY DEF Foremost
  <1> HIDE DEF first
  <1>6. Foremost(p) \in todo /\ first(Foremost(p))
    BY <1>4, <1>5
  <1>7. run[p].kind = "down" => \A y \in todo : y[1] <= Foremost(p)[1]
    <2> SUFFICES ASSUME run[p].kind = "down", NEW y \in todo, y # Foremost(p)
                 PROVE  y[1] <= Foremost(p)[1]
      BY <1>1, <1>6
    <2>1. Foremost(p)[1] > y[1] /\ Foremost(p)[1] \in Nat /\ y[1] \in Nat
      BY <1>1, <1>6 DEF first
    <2> QED
      BY <2>1
  <1> QED
    BY <1>1, <1>6, <1>7

\* Nobody else touches the memory of a run, and so its foremost migration.
LEMMA ForemostSame ==
  ASSUME NEW q, run'[q].kind = run[q].kind, run'[q].todo = run[q].todo
  PROVE  Foremost(q)' = Foremost(q)
  BY DEF Foremost

LEMMA LastBatchLast ==
  ASSUME TypeOK, BatchesBounded
  PROVE  LastBatch \in Nat /\ \A x \in rows : x.batch <= LastBatch
  <1>1. CASE rows = {}
    BY <1>1 DEF LastBatch
  <1>2. CASE rows # {}
    <2> DEFINE batches == {x.batch : x \in rows}
    <2>1. batches \in SUBSET Nat /\ batches # {}
      BY <1>2 DEF TypeOK
    <2>2. PICK n \in Nat : \A b \in batches : b <= n
      BY DEF BatchesBounded
    <2>3. \E b \in batches : \A k \in batches : k <= b
      BY <2>1, <2>2, Largest
    <2>4. LastBatch = CHOOSE b \in batches : \A x \in rows : x.batch <= b
      BY <1>2 DEF LastBatch
    <2>5. \E b \in batches : \A x \in rows : x.batch <= b
      BY <2>3
    <2>6. LastBatch \in batches /\ \A x \in rows : x.batch <= LastBatch
      BY <2>4, <2>5
    <2> QED
      BY <2>1, <2>6
  <1> QED
    BY <1>1, <1>2

-----------------------------------------------------------------------------
(* What the step of one run leaves to the others.                          *)

LEMMA OneRun ==
  ASSUME TypeOK, NEW p \in Runs, NEW r \in RunState, run' = [run EXCEPT ![p] = r]
  PROVE  /\ run' \in [Runs -> RunState]
         /\ run'[p] = r
         /\ \A q \in Runs \ {p} : run'[q] = run[q]
  BY DEF TypeOK

\* A run whose memory stays, and that others disturb when they change the database.
LEMMA OthersKeep ==
  ASSUME MigrationsInv, NEW q \in Runs, run'[q] = run[q],
         q \notin disturbed' =>
           /\ q \notin disturbed
           /\ \/ Over(q)
              \/ /\ rows' = rows /\ schema' = schema /\ drift \subseteq drift'
                 /\ \A v : Doubted(v) => Doubted(v)'
  PROVE  Shape(q)' /\ UpAlone(q)' /\ DownAlone(q)'
  <1>1. Shape(q) /\ UpAlone(q) /\ DownAlone(q)
    BY DEF MigrationsInv
  <1>2. Shape(q)'
    BY <1>1 DEF Shape, Memory
  <1>3. Foremost(q)' = Foremost(q)
    BY ForemostSame
  <1>4. CASE q \in disturbed'
    BY <1>2, <1>4 DEF UpAlone, DownAlone
  <1>5. CASE Over(q)
    <2>1. run[q].pc \in {"idle", "over"} /\ run[q].kind # "down"
      BY <1>1, <1>5 DEF Over, Shape
    <2> QED
      BY <1>2, <2>1 DEF UpAlone, DownAlone
  <1>6. CASE /\ q \notin disturbed /\ rows' = rows /\ schema' = schema
             /\ drift \subseteq drift' /\ \A v : Doubted(v) => Doubted(v)'
    <2>1. \A v : Tracked(v)' <=> Tracked(v)
      BY <1>6 DEF Tracked
    <2>2. UpAlone(q)'
      BY <1>1, <1>3, <1>6, <2>1 DEF UpAlone
    <2>3. \A y : Accounted(q, y) => Accounted(q, y)'
      BY <1>6 DEF Accounted, Unlisted
    <2>4. DownAlone(q)'
      BY <1>1, <1>3, <1>6, <2>3 DEF DownAlone
    <2> QED
      BY <1>2, <2>2, <2>4
  <1> QED
    BY <1>4, <1>5, <1>6

\* Doubts stay, but for those a run p settles with its tracking statement.
LEMMA DoubtsStay ==
  ASSUME TypeOK, NEW p \in Runs, \A q \in Runs \ {p} : run'[q] = run[q],
         disturbed \subseteq disturbed', drift \subseteq drift',
         run[p].pc \in {"track", "untrack"} /\ p \in disturbed
           => Foremost(p)[2] \in drift'
  PROVE  /\ \A v : Doubted(v) => Doubted(v)'
         /\ \A v : InDoubt(v) =>
              \/ InDoubt(v)'
              \/ run[p].pc \in {"track", "untrack"} /\ v = Foremost(p)[2]
  <1>1. \A q \in Runs \ {p} : Foremost(q)' = Foremost(q)
    BY ForemostSame
  <1>2. ASSUME NEW v, Doubted(v) PROVE Doubted(v)'
    <2>1. CASE v \in drift
      BY <2>1 DEF Doubted
    <2>2. CASE v \notin drift
      <3>1. PICK q \in disturbed :
              run[q].pc \in {"track", "untrack"} /\ Foremost(q)[2] = v
        BY <1>2, <2>2 DEF Doubted
      <3>2. q \in Runs
        BY DEF TypeOK
      <3>3. CASE q = p
        BY <3>1, <3>3 DEF Doubted
      <3>4. CASE q # p
        BY <1>1, <3>1, <3>2, <3>4 DEF Doubted
      <3> QED
        BY <3>3, <3>4
    <2> QED
      BY <2>1, <2>2
  <1>3. ASSUME NEW v, InDoubt(v),
               ~(run[p].pc \in {"track", "untrack"} /\ v = Foremost(p)[2])
        PROVE  InDoubt(v)'
    <2>1. CASE v \in drift
      BY <2>1 DEF InDoubt
    <2>2. CASE v \notin drift
      <3>1. PICK q \in Runs :
              run[q].pc \in {"track", "untrack"} /\ Foremost(q)[2] = v
        BY <1>3, <2>2 DEF InDoubt
      <3>2. q # p
        BY <1>3, <3>1
      <3> QED
        BY <1>1, <3>1, <3>2 DEF InDoubt
    <2> QED
      BY <2>1, <2>2
  <1> QED
    BY <1>2, <1>3

\* A doubt is for good, or of a run that others have left alone.
LEMMA DoubtOfWhom ==
  ASSUME TypeOK, NEW v, InDoubt(v), ~Doubted(v)
  PROVE  \E q \in Runs \ disturbed :
           run[q].pc \in {"track", "untrack"} /\ Foremost(q)[2] = v
  BY DEF InDoubt, Doubted

LEMMA DoubtedInDoubt ==
  ASSUME TypeOK, NEW v, Doubted(v)
  PROVE  InDoubt(v)
  BY DEF InDoubt, Doubted, TypeOK

\* A step that leaves the rows and what is in effect needs no more than its own
\* run's part of the invariant.
LEMMA QuietKeeps ==
  ASSUME MigrationsInv, NEW p \in Runs, \A q \in Runs \ {p} : run'[q] = run[q],
         rows' = rows, schema' = schema, drift \subseteq drift',
         disturbed \subseteq disturbed',
         run[p].pc \in {"track", "untrack"} => Foremost(p)[2] \in drift',
         TypeOK',
         (\A v : Doubted(v) => Doubted(v)')
           => Shape(p)' /\ UpAlone(p)' /\ DownAlone(p)'
  PROVE  MigrationsInv'
  <1>1. TypeOK /\ BatchesBounded /\ BatchesGrow /\ ReferencesFirst /\ DriftExplained
    BY DEF MigrationsInv
  <1>2. /\ \A v : Doubted(v) => Doubted(v)'
        /\ \A v : InDoubt(v) =>
             \/ InDoubt(v)'
             \/ run[p].pc \in {"track", "untrack"} /\ v = Foremost(p)[2]
    BY <1>1, DoubtsStay
  <1>3. \A q \in Runs \ {p} : Shape(q)' /\ UpAlone(q)' /\ DownAlone(q)'
    BY <1>2, OthersKeep
  <1>4. \A q \in Runs : Shape(q)' /\ UpAlone(q)' /\ DownAlone(q)'
    BY <1>2, <1>3
  <1>5. BatchesBounded' /\ BatchesGrow'
    BY <1>1 DEF BatchesBounded, BatchesGrow
  <1>6. ReferencesFirst'
    BY <1>1, <1>2 DEF ReferencesFirst
  <1>7. DriftExplained'
    <2> SUFFICES ASSUME NEW v \in Versions
                 PROVE  (v \in schema' <=> Tracked(v)') \/ InDoubt(v)'
      BY DEF DriftExplained
    <2>1. Tracked(v)' <=> Tracked(v)
      BY DEF Tracked
    <2>2. (v \in schema <=> Tracked(v)) \/ InDoubt(v)
      BY <1>1 DEF DriftExplained
    <2>3. v \in drift' => InDoubt(v)'
      BY DEF InDoubt
    <2> QED
      BY <1>2, <2>1, <2>2, <2>3
  <1> QED
    BY <1>4, <1>5, <1>6, <1>7 DEF MigrationsInv

-----------------------------------------------------------------------------
(* The steps that read: begin, open, read the batch, check, list, end.     *)

\* A run that ends, or that its step leaves at one of the first positions, is in
\* good shape and has nothing more to say.
LEMMA RunEnds ==
  ASSUME TypeOK, NEW p \in Runs, Ends(p)
  PROVE  /\ run' \in [Runs -> RunState]
         /\ \A q \in Runs \ {p} : run'[q] = run[q]
         /\ run'[p] = Memory("over")
         /\ Shape(p)' /\ UpAlone(p)' /\ DownAlone(p)'
  <1> DEFINE r == Memory("over")
  <1>1. r \in RunState
    BY DEF Memory, RunState
  <1>2. r.pc = "over" /\ r.kind = "up" /\ r.todo = {}
    BY DEF Memory
  <1>3. run' = [run EXCEPT ![p] = r]
    BY DEF Ends
  <1> HIDE DEF r
  <1>4. /\ run' \in [Runs -> RunState] /\ run'[p] = r
        /\ \A q \in Runs \ {p} : run'[q] = run[q]
    BY <1>1, <1>3, OneRun
  <1>5. Shape(p)' /\ UpAlone(p)' /\ DownAlone(p)'
    BY <1>2, <1>4 DEF Shape, UpAlone, DownAlone, r
  <1> QED
    BY <1>4, <1>5 DEF r

\* A run that ends without a change to the database, between no two statements.
LEMMA EndKeeps ==
  ASSUME MigrationsInv, NEW p \in Runs, Ends(p), run[p].pc \notin {"track", "untrack"},
         UNCHANGED <<database, directory, disturbed, drift>>
  PROVE  MigrationsInv'
  <1>1. TypeOK
    BY DEF MigrationsInv
  <1>2. TypeOK'
    BY <1>1, RunEnds DEF TypeOK, database, directory
  <1> QED
    BY <1>1, <1>2, RunEnds, QuietKeeps DEF database

\* A run that goes on to read, its memory r in good shape.
LEMMA ReadKeeps ==
  ASSUME MigrationsInv, NEW p \in Runs, NEW r \in RunState,
         run' = [run EXCEPT ![p] = r],
         run[p].pc \notin {"track", "untrack"},
         rows' = rows, schema' = schema, disturbed \subseteq disturbed', drift' = drift,
         TypeOK /\ run' \in [Runs -> RunState] => TypeOK',
         run'[p] = r /\ (\A v : Doubted(v) => Doubted(v)')
           => Shape(p)' /\ UpAlone(p)' /\ DownAlone(p)'
  PROVE  MigrationsInv'
  <1>1. TypeOK
    BY DEF MigrationsInv
  <1>2. /\ run' \in [Runs -> RunState] /\ run'[p] = r
        /\ \A q \in Runs \ {p} : run'[q] = run[q]
    BY <1>1, OneRun
  <1> QED
    BY <1>1, <1>2, QuietKeeps

LEMMA BeginUpKeeps ==
  ASSUME MigrationsInv, NEW p \in Runs, BeginUp(p)
  PROVE  MigrationsInv'
  <1> DEFINE r == [run[p] EXCEPT !.pc = "open", !.kind = "up"]
  <1>1. TypeOK /\ Shape(p) /\ run[p] \in RunState /\ run[p].pc = "idle"
    BY DEF MigrationsInv, TypeOK, BeginUp
  <1>2. run[p] = Memory("idle")
    BY <1>1 DEF Shape
  <1>3. r \in RunState /\ r.pc = "open" /\ r.kind = "up" /\ r.todo = {}
    <2>1. run[p].todo = {}
      BY <1>2 DEF Memory
    <2> QED
      BY <1>1, <2>1 DEF RunState
  <1>4. run' = [run EXCEPT ![p] = r]
    BY <1>1 DEF BeginUp, TypeOK
  <1>5. UNCHANGED <<database, directory, disturbed, drift>>
    BY DEF BeginUp
  <1> HIDE DEF r
  <1>6. TypeOK /\ run' \in [Runs -> RunState] => TypeOK'
    BY <1>5 DEF TypeOK, database, directory
  <1>7. run'[p] = r => Shape(p)' /\ UpAlone(p)' /\ DownAlone(p)'
    BY <1>3 DEF Shape, UpAlone, DownAlone
  <1> QED
    BY <1>1, <1>3, <1>4, <1>5, <1>6, <1>7, ReadKeeps DEF database

LEMMA OpenTableKeeps ==
  ASSUME MigrationsInv, NEW p \in Runs, OpenTable(p)
  PROVE  MigrationsInv'
  <1>1. /\ TypeOK /\ Shape(p) /\ run[p] \in RunState /\ run[p].pc = "open"
        /\ rows # {} => table
    BY DEF MigrationsInv, TypeOK, OpenTable
  <1>2. CASE Ends(p) /\ UNCHANGED table
    BY <1>1, <1>2, EndKeeps DEF OpenTable, database
  <1>3. CASE files # {}
    <2> DEFINE todo == {<<v, v>> : v \in files}
               r == [run[p] EXCEPT !.pc = "batch", !.found = files, !.todo = todo]
    <2>1. todo \in SUBSET (Nat \X Versions)
      BY <1>1, MigrationsAssumption DEF TypeOK
    <2>2. \A x, y \in todo : x[1] = y[1] => x = y
      OBVIOUS
    <2>3. run' = [run EXCEPT ![p] = [run[p] EXCEPT !.pc = "batch", !.found = files,
                                                   !.todo = todo]]
      BY <1>1, <1>3 DEF OpenTable, TypeOK
    <2>4. /\ UNCHANGED <<public, rows, serial, schema, directory, disturbed, drift>>
          /\ table' = public \/ table' = table
      BY <1>3 DEF OpenTable
    <2>5. files \in SUBSET Versions /\ run[p].kind # "down"
      BY <1>1 DEF TypeOK, Shape
    <2>6. todo = {<<v, v>> : v \in files}
      OBVIOUS
    <2> HIDE DEF todo
    <2>7. /\ r \in RunState /\ r.pc = "batch" /\ r.kind = run[p].kind
          /\ r.todo = todo /\ r.found = files
      BY <1>1, <2>1, <2>5 DEF RunState
    <2>8. run' = [run EXCEPT ![p] = r]
      BY <2>3
    <2> HIDE DEF r
    <2>9. TypeOK /\ run' \in [Runs -> RunState] => TypeOK'
      BY <2>4 DEF TypeOK, directory
    <2>10. run'[p] = r => Shape(p)' /\ UpAlone(p)' /\ DownAlone(p)'
      BY <2>2, <2>5, <2>6, <2>7 DEF Shape, UpAlone, DownAlone
    <2> QED
      BY <1>1, <2>4, <2>7, <2>8, <2>9, <2>10, ReadKeeps
  <1> QED
    BY <1>2, <1>3 DEF OpenTable

LEMMA ReadBatchKeeps ==
  ASSUME MigrationsInv, NEW p \in Runs, ReadBatch(p)
  PROVE  MigrationsInv'
  <1>1. /\ TypeOK /\ Shape(p) /\ BatchesBounded
        /\ run[p] \in RunState /\ run[p].pc = "batch"
        /\ UNCHANGED <<database, directory, disturbed, drift>>
    BY DEF MigrationsInv, TypeOK, ReadBatch
  <1>2. CASE Ends(p)
    BY <1>1, <1>2, EndKeeps
  <1>3. CASE run' = [run EXCEPT ![p].pc = "check", ![p].batch = LastBatch + 1]
    <2> DEFINE batch == LastBatch + 1
               r == [run[p] EXCEPT !.pc = "check", !.batch = batch]
    <2>1. batch \in Nat /\ batch # 0 /\ \A x \in rows : x.batch <= batch
      <3>1. LastBatch \in Nat /\ \A x \in rows : x.batch <= LastBatch /\ x.batch \in Nat
        BY <1>1, LastBatchLast DEF TypeOK
      <3> QED
        BY <3>1
    <2> HIDE DEF batch
    <2>2. run' = [run EXCEPT ![p] = r]
      BY <1>1, <1>3 DEF TypeOK, batch
    <2>3. /\ run[p].kind # "down" /\ run[p].todo = {<<v, v>> : v \in run[p].found}
          /\ \A x, y \in run[p].todo : x[1] = y[1] => x = y
      BY <1>1 DEF Shape
    <2>4. /\ r \in RunState /\ r.pc = "check" /\ r.kind = run[p].kind /\ r.batch = batch
          /\ r.todo = run[p].todo /\ r.found = run[p].found
      BY <1>1, <2>1 DEF RunState
    <2> HIDE DEF r
    <2>5. TypeOK /\ run' \in [Runs -> RunState] => TypeOK'
      BY <1>1 DEF TypeOK, database, directory
    <2>6. ASSUME run'[p] = r PROVE Shape(p)' /\ UpAlone(p)' /\ DownAlone(p)'
      <3>1. Shape(p)' /\ DownAlone(p)'
        BY <2>1, <2>3, <2>4, <2>6 DEF Shape, DownAlone
      <3>2. \A v \in r.found : <<v, v>> \in r.todo
        BY <2>3, <2>4
      <3>3. UpAlone(p)'
        BY <1>1, <2>1, <2>4, <2>6, <3>2 DEF UpAlone, database
      <3> QED
        BY <3>1, <3>3
    <2> QED
      BY <1>1, <2>2, <2>4, <2>5, <2>6, ReadKeeps DEF database
  <1> QED
    BY <1>2, <1>3 DEF ReadBatch

LEMMA CheckFileKeeps ==
  ASSUME MigrationsInv, NEW p \in Runs, CheckFile(p)
  PROVE  MigrationsInv'
  <1>1. /\ TypeOK /\ Shape(p) /\ UpAlone(p)
        /\ run[p] \in RunState /\ run[p].pc = "check"
        /\ UNCHANGED <<database, directory, disturbed, drift>>
    BY DEF MigrationsInv, TypeOK, CheckFile
  <1>2. CASE Ends(p)
    BY <1>1, <1>2, EndKeeps
  <1>3. /\ run[p].kind # "down" /\ run[p].batch # 0
        /\ \A x, y \in run[p].todo : x[1] = y[1] => x = y
    BY <1>1 DEF Shape
  <1>4. TypeOK /\ run' \in [Runs -> RunState] => TypeOK'
    BY <1>1 DEF TypeOK, database, directory
  <1>5. p \notin disturbed =>
          /\ \A y \in rows : y.batch <= run[p].batch
          /\ \A v \in run[p].found :
               <<v, v>> \in run[p].todo \/ Tracked(v) \/ v \in run[p].skipped \cup drift
    BY <1>1 DEF UpAlone
  <1>6. /\ \A v : Tracked(v)' <=> Tracked(v)
        /\ rows' = rows /\ drift' = drift /\ disturbed' = disturbed
    BY <1>1 DEF Tracked, database
  <1> DEFINE x == Foremost(p)
  <1>7. CASE run[p].todo # {} /\ Tracked(x[2]) /\ run' = [run EXCEPT ![p].todo = @ \ {x}]
    <2>1. x \in run[p].todo /\ x \in Nat \X Versions
      BY <1>1, <1>7, ForemostIn
    <2>2. Tracked(x[2]) /\ run' = [run EXCEPT ![p].todo = @ \ {x}]
      BY <1>7
    <2> HIDE DEF x
    <2> DEFINE todo == run[p].todo \ {x}
               r == [run[p] EXCEPT !.todo = todo]
    <2>3. run' = [run EXCEPT ![p] = r]
      BY <1>1, <2>2 DEF TypeOK
    <2>4. todo \subseteq run[p].todo
      OBVIOUS
    <2>5. \A v : <<v, v>> \in run[p].todo => <<v, v>> \in todo \/ v = x[2]
      OBVIOUS
    <2> HIDE DEF todo
    <2>6. /\ r \in RunState /\ r.pc = "check" /\ r.kind = run[p].kind
          /\ r.batch = run[p].batch /\ r.todo = todo /\ r.found = run[p].found
          /\ r.skipped = run[p].skipped
      BY <1>1, <2>4 DEF RunState
    <2> HIDE DEF r
    <2>7. ASSUME run'[p] = r PROVE Shape(p)' /\ UpAlone(p)' /\ DownAlone(p)'
      <3>1. Shape(p)' /\ DownAlone(p)'
        BY <1>3, <2>4, <2>6, <2>7 DEF Shape, DownAlone
      <3>2. UpAlone(p)'
        BY <1>5, <1>6, <2>2, <2>5, <2>6, <2>7 DEF UpAlone
      <3> QED
        BY <3>1, <3>2
    <2> QED
      BY <1>1, <1>4, <1>6, <2>3, <2>6, <2>7, ReadKeeps DEF database
  <1>8. CASE run[p].todo # {} /\ Goes(p, "exec")
    <2> DEFINE r == [run[p] EXCEPT !.pc = "exec"]
    <2>1. run' = [run EXCEPT ![p] = r]
      BY <1>1, <1>8 DEF Goes, TypeOK
    <2>2. /\ r \in RunState /\ r.pc = "exec" /\ r.kind = run[p].kind
          /\ r.batch = run[p].batch /\ r.todo = run[p].todo /\ r.found = run[p].found
          /\ r.skipped = run[p].skipped
      BY <1>1 DEF RunState
    <2> HIDE DEF r
    <2>3. ASSUME run'[p] = r PROVE Shape(p)' /\ UpAlone(p)' /\ DownAlone(p)'
      <3>1. Shape(p)' /\ DownAlone(p)'
        BY <1>3, <1>8, <2>2, <2>3 DEF Shape, DownAlone
      <3>2. UpAlone(p)'
        BY <1>5, <1>6, <2>2, <2>3 DEF UpAlone
      <3> QED
        BY <3>1, <3>2
    <2> QED
      BY <1>1, <1>4, <1>6, <2>1, <2>2, <2>3, ReadKeeps DEF database
  <1> QED
    BY <1>2, <1>7, <1>8 DEF CheckFile

LEMMA BeginDownKeeps ==
  ASSUME MigrationsInv, NEW p \in Runs, BeginDown(p)
  PROVE  MigrationsInv'
  <1>1. /\ TypeOK /\ Shape(p) /\ BatchesBounded
        /\ run[p] \in RunState /\ run[p].pc = "idle"
        /\ UNCHANGED <<database, directory, disturbed, drift>>
    BY DEF MigrationsInv, TypeOK, BeginDown
  <1>2. CASE Ends(p)
    BY <1>1, <1>2, EndKeeps
  <1>3. CASE run' = [run EXCEPT ![p].pc = "list", ![p].kind = "down",
                                ![p].batch = LastBatch]
    <2> DEFINE batch == LastBatch
               r == [run[p] EXCEPT !.pc = "list", !.kind = "down", !.batch = batch]
    <2>1. batch \in Nat /\ \A x \in rows : x.batch <= batch
      BY <1>1, LastBatchLast
    <2> HIDE DEF batch
    <2>2. run' = [run EXCEPT ![p] = r]
      BY <1>1, <1>3 DEF TypeOK, batch
    <2>3. run[p].todo = {}
      BY <1>1 DEF Shape, Memory
    <2>4. /\ r \in RunState /\ r.pc = "list" /\ r.kind = "down" /\ r.batch = batch
          /\ r.todo = {}
      BY <1>1, <2>1, <2>3 DEF RunState
    <2> HIDE DEF r
    <2>5. TypeOK /\ run' \in [Runs -> RunState] => TypeOK'
      BY <1>1 DEF TypeOK, database, directory
    <2>6. ASSUME run'[p] = r PROVE Shape(p)' /\ UpAlone(p)' /\ DownAlone(p)'
      <3>1. Shape(p)' /\ UpAlone(p)'
        BY <2>1, <2>4, <2>6 DEF Shape, UpAlone
      <3>2. DownAlone(p)'
        BY <1>1, <2>1, <2>4, <2>6 DEF DownAlone, database
      <3> QED
        BY <3>1, <3>2
    <2> QED
      BY <1>1, <2>2, <2>4, <2>5, <2>6, ReadKeeps DEF database
  <1> QED
    BY <1>2, <1>3 DEF BeginDown

\* A listing of the batch, or of its later part when the listing broke off.
LEMMA ListKeeps ==
  ASSUME MigrationsInv, NEW p \in Runs, run[p].pc = "list", NEW listed, NEW broken \in BOOLEAN,
         listed \subseteq {x \in rows : x.batch = run[p].batch},
         \A y \in rows : y.batch = run[p].batch /\ y \notin listed =>
           broken /\ \A x \in listed : y.id < x.id,
         List(p, listed, broken),
         UNCHANGED <<database, directory, disturbed, drift>>
  PROVE  MigrationsInv'
  <1> DEFINE todo == {<<x.id, x.v>> : x \in listed}
             found == {x.v : x \in listed}
             r == [run[p] EXCEPT !.pc = "revert", !.found = found, !.broken = broken,
                                 !.todo = todo]
  <1>1. TypeOK /\ Shape(p) /\ DownAlone(p) /\ run[p] \in RunState
    BY DEF MigrationsInv, TypeOK
  <1>2. /\ \A x \in rows : x.id \in Nat /\ x.id <= serial /\ x.v \in Versions
        /\ \A x, y \in rows : x.id = y.id \/ x.v = y.v => x = y
        /\ serial \in Nat
        /\ \A x \in listed : x \in rows /\ x.batch = run[p].batch
    BY <1>1 DEF TypeOK
  <1>3. todo \in SUBSET (Nat \X Versions) /\ found \in SUBSET Versions
    BY <1>2
  <1>4. /\ \A x, y \in todo : x[1] = y[1] => x = y
        /\ \A x \in todo : x[1] <= serial
    BY <1>2
  <1>5. \A x \in todo : \E y \in rows :
          y.id = x[1] /\ y.v = x[2] /\ y.batch = run[p].batch
    BY <1>2
  <1>6. ASSUME NEW y \in rows, y.batch = run[p].batch
        PROVE  \/ <<y.id, y.v>> \in todo
               \/ broken /\ y.v \notin found /\ \A x \in todo : y.id < x[1]
    <2>1. CASE y \in listed
      BY <2>1
    <2>2. CASE y \notin listed
      <3>1. broken /\ \A x \in todo : y.id < x[1]
        BY <1>6, <2>2
      <3>2. y.v \notin found
        BY <1>2, <2>2
      <3> QED
        BY <3>1, <3>2
    <2> QED
      BY <2>1, <2>2
  <1>7. run' = [run EXCEPT ![p] = r]
    BY <1>1 DEF List, TypeOK
  <1> HIDE DEF todo, found
  <1>8. run[p].kind = "down"
    BY <1>1 DEF Shape
  <1>9. /\ r \in RunState /\ r.pc = "revert" /\ r.kind = "down" /\ r.batch = run[p].batch
        /\ r.todo = todo /\ r.found = found /\ r.broken = broken /\ r.skipped = run[p].skipped
    BY <1>1, <1>3, <1>8 DEF RunState
  <1> HIDE DEF r
  <1>10. TypeOK /\ run' \in [Runs -> RunState] => TypeOK'
    BY DEF TypeOK, database, directory
  <1>11. ASSUME run'[p] = r PROVE Shape(p)' /\ UpAlone(p)' /\ DownAlone(p)'
    <2>1. Shape(p)' /\ UpAlone(p)'
      BY <1>2, <1>4, <1>9, <1>11 DEF Shape, UpAlone
    <2>2. p \notin disturbed => \A x \in rows : x.batch <= run[p].batch
      BY <1>1, <1>8 DEF DownAlone
    <2>3. \A y \in rows : y.batch = run[p].batch => Accounted(p, y)'
      BY <1>6, <1>9, <1>11 DEF Accounted, Unlisted
    <2>4. DownAlone(p)'
      BY <1>5, <1>9, <1>11, <2>2, <2>3 DEF DownAlone, database
    <2> QED
      BY <2>1, <2>4
  <1> QED
    BY <1>7, <1>9, <1>10, <1>11, ReadKeeps DEF database

LEMMA ListBatchKeeps ==
  ASSUME MigrationsInv, NEW p \in Runs, ListBatch(p)
  PROVE  MigrationsInv'
  <1> DEFINE batch == {x \in rows : x.batch = run[p].batch}
  <1>1. run[p].pc = "list" /\ UNCHANGED <<database, directory, disturbed, drift>>
    BY DEF ListBatch
  <1>2. CASE Ends(p)
    BY <1>1, <1>2, EndKeeps
  <1>3. CASE List(p, batch, FALSE)
    <2>1. \A y \in rows : ~(y.batch = run[p].batch /\ y \notin batch)
      OBVIOUS
    <2> QED
      BY <1>1, <1>3, <2>1, ListKeeps
  <1>4. ASSUME NEW listed \in SUBSET batch, List(p, listed, TRUE),
               \A x \in listed, y \in batch \ listed : y.id < x.id
        PROVE  MigrationsInv'
    BY <1>1, <1>4, ListKeeps
  <1> QED
    BY <1>2, <1>3, <1>4 DEF ListBatch

\* The process dies: what it was between two statements with is in doubt for good.
LEMMA KillKeeps ==
  ASSUME MigrationsInv, NEW p \in Runs, Kill(p)
  PROVE  MigrationsInv'
  <1>1. /\ TypeOK /\ Shape(p) /\ run[p] \in RunState
        /\ UNCHANGED <<database, directory, disturbed>> /\ Ends(p)
    BY DEF MigrationsInv, TypeOK, Kill
  <1>2. /\ drift' \subseteq Versions /\ drift \subseteq drift'
        /\ run[p].pc \in {"track", "untrack"} => Foremost(p)[2] \in drift'
    <2>1. CASE run[p].pc \in {"track", "untrack"}
      <3>1. Foremost(p)[2] \in Versions
        BY <1>1, <2>1, ForemostIn DEF Shape
      <3> QED
        BY <1>1, <2>1, <3>1 DEF Kill, TypeOK
    <2>2. CASE run[p].pc \notin {"track", "untrack"}
      BY <1>1, <2>2 DEF Kill, TypeOK
    <2> QED
      BY <2>1, <2>2
  <1>3. TypeOK'
    BY <1>1, <1>2, RunEnds DEF TypeOK, database, directory
  <1> QED
    BY <1>1, <1>2, <1>3, RunEnds, QuietKeeps DEF database

\* Files that come or are written change nothing the invariant is about.
LEMMA FilesKeep ==
  ASSUME MigrationsInv, UNCHANGED <<database, run, disturbed, drift>>,
         files' \subseteq Versions, written' \subseteq files',
         blank' \subseteq files' \ written'
  PROVE  MigrationsInv'
  <1>1. TypeOK'
    BY DEF MigrationsInv, TypeOK, database
  <1>2. ASSUME NEW q \in Runs PROVE Foremost(q)' = Foremost(q)
    BY ForemostSame
  <1>3. disturbed \subseteq Runs
    BY DEF MigrationsInv, TypeOK
  <1>4. \A v : (Doubted(v)' <=> Doubted(v)) /\ (InDoubt(v)' <=> InDoubt(v))
               /\ (Tracked(v)' <=> Tracked(v))
    BY <1>2, <1>3 DEF Doubted, InDoubt, Tracked, database
  <1>5. \A q \in Runs : Shape(q)' /\ UpAlone(q)' /\ DownAlone(q)'
    <2> SUFFICES ASSUME NEW q \in Runs PROVE Shape(q)' /\ UpAlone(q)' /\ DownAlone(q)'
      OBVIOUS
    <2> QED
      BY <1>4, OthersKeep DEF database
  <1>6. BatchesBounded' /\ BatchesGrow' /\ ReferencesFirst' /\ DriftExplained'
    BY <1>4 DEF MigrationsInv, BatchesBounded, BatchesGrow, ReferencesFirst,
                DriftExplained, database
  <1> QED
    BY <1>1, <1>5, <1>6 DEF MigrationsInv

-----------------------------------------------------------------------------
(* The steps that change the database disturb every other run under way.   *)

LEMMA OthersDisturbed ==
  ASSUME MigrationsInv, NEW p \in Runs, \A q \in Runs \ {p} : run'[q] = run[q], Disturb(p)
  PROVE  /\ disturbed' \subseteq Runs /\ disturbed \subseteq disturbed'
         /\ p \in disturbed' => p \in disturbed
         /\ \A q \in Runs \ {p} : Over(q) \/ q \in disturbed'
         /\ \A q \in Runs \ {p} : Shape(q)' /\ UpAlone(q)' /\ DownAlone(q)'
  <1>1. /\ disturbed' \subseteq Runs /\ disturbed \subseteq disturbed'
        /\ p \in disturbed' => p \in disturbed
        /\ \A q \in Runs \ {p} : Over(q) \/ q \in disturbed'
    BY DEF Disturb, MigrationsInv, TypeOK
  <1>2. \A q \in Runs \ {p} : Shape(q)' /\ UpAlone(q)' /\ DownAlone(q)'
    <2> SUFFICES ASSUME NEW q \in Runs \ {p} PROVE Shape(q)' /\ UpAlone(q)' /\ DownAlone(q)'
      OBVIOUS
    <2>1. q \notin disturbed' => q \notin disturbed /\ Over(q)
      BY <1>1
    <2> QED
      BY <2>1, OthersKeep
  <1> QED
    BY <1>1, <1>2

\* A run between two statements that another disturbs will leave a doubt.
LEMMA BetweenStatements ==
  ASSUME TypeOK, NEW p \in Runs, \A q \in Runs \ {p} : run'[q] = run[q],
         \A q \in Runs \ {p} : Over(q) \/ q \in disturbed',
         disturbed \subseteq disturbed', drift \subseteq drift',
         NEW v, InDoubt(v), ~(run[p].pc \in {"track", "untrack"} /\ v = Foremost(p)[2])
  PROVE  Doubted(v)'
  <1>1. CASE v \in drift
    BY <1>1 DEF Doubted
  <1>2. CASE v \notin drift
    <2>1. PICK q \in Runs : run[q].pc \in {"track", "untrack"} /\ Foremost(q)[2] = v
      BY <1>2 DEF InDoubt
    <2>2. q # p
      BY <2>1
    <2>3. q \in disturbed' /\ run'[q] = run[q]
      BY <2>1, <2>2 DEF Over
    <2>4. Foremost(q)' = Foremost(q)
      BY <2>3, ForemostSame
    <2> QED
      BY <2>1, <2>3, <2>4 DEF Doubted
  <1> QED
    BY <1>1, <1>2

LEMMA DropSchemaKeeps ==
  ASSUME MigrationsInv, NEW p \in Runs, DropSchema(p)
  PROVE  MigrationsInv'
  <1>1. /\ TypeOK /\ Shape(p) /\ run[p] \in RunState /\ run[p].pc = "idle"
        /\ UNCHANGED directory
    BY DEF MigrationsInv, TypeOK, DropSchema
  <1>2. CASE Ends(p) /\ UNCHANGED <<database, disturbed, drift>>
    BY <1>1, <1>2, EndKeeps
  <1>3. CASE /\ run' = [run EXCEPT ![p].pc = "recreate", ![p].kind = "fresh"]
             /\ public' = FALSE /\ table' = FALSE /\ rows' = {} /\ serial' = 0
             /\ schema' = {} /\ Disturb(p) /\ drift' = {}
    <2> DEFINE r == [run[p] EXCEPT !.pc = "recreate", !.kind = "fresh"]
    <2>1. run' = [run EXCEPT ![p] = r]
      BY <1>1, <1>3 DEF TypeOK
    <2>2. run[p].todo = {}
      BY <1>1 DEF Shape, Memory
    <2>3. r \in RunState /\ r.pc = "recreate" /\ r.kind = "fresh" /\ r.todo = {}
      BY <1>1, <2>2 DEF RunState
    <2> HIDE DEF r
    <2>4. /\ run' \in [Runs -> RunState] /\ run'[p] = r
          /\ \A q \in Runs \ {p} : run'[q] = run[q]
      BY <1>1, <2>1, <2>3, OneRun
    <2>5. /\ disturbed' \subseteq Runs
          /\ \A q \in Runs \ {p} : Shape(q)' /\ UpAlone(q)' /\ DownAlone(q)'
      BY <1>3, <2>4, OthersDisturbed
    <2>6. TypeOK'
      BY <1>1, <1>3, <2>4, <2>5 DEF TypeOK, directory
    <2>7. Shape(p)' /\ UpAlone(p)' /\ DownAlone(p)'
      BY <2>3, <2>4 DEF Shape, UpAlone, DownAlone
    <2>8. BatchesBounded' /\ BatchesGrow' /\ ReferencesFirst' /\ DriftExplained'
      BY <1>3 DEF BatchesBounded, BatchesGrow, ReferencesFirst, DriftExplained, Tracked
    <2>9. \A q \in Runs : Shape(q)' /\ UpAlone(q)' /\ DownAlone(q)'
      BY <2>5, <2>7
    <2> QED
      BY <2>6, <2>8, <2>9 DEF MigrationsInv
  <1> QED
    BY <1>1, <1>2, <1>3 DEF DropSchema

LEMMA CreateSchemaKeeps ==
  ASSUME MigrationsInv, NEW p \in Runs, CreateSchema(p)
  PROVE  MigrationsInv'
  <1>1. /\ TypeOK /\ Shape(p) /\ run[p] \in RunState /\ run[p].pc = "recreate"
        /\ UNCHANGED <<table, rows, serial, schema, directory, drift>>
    BY DEF MigrationsInv, TypeOK, CreateSchema
  <1>2. CASE Ends(p) /\ UNCHANGED <<public, disturbed>>
    BY <1>1, <1>2, EndKeeps DEF database
  <1>3. CASE public' = TRUE /\ Goes(p, "open") /\ Disturb(p)
    <2> DEFINE r == [run[p] EXCEPT !.pc = "open"]
    <2>1. run' = [run EXCEPT ![p] = r]
      BY <1>1, <1>3 DEF Goes, TypeOK
    <2>2. run[p].kind # "down" /\ \A x, y \in run[p].todo : x[1] = y[1] => x = y
      BY <1>1 DEF Shape
    <2>3. r \in RunState /\ r.pc = "open" /\ r.kind = run[p].kind /\ r.todo = run[p].todo
      BY <1>1 DEF RunState
    <2> HIDE DEF r
    <2>4. disturbed' \subseteq Runs /\ disturbed \subseteq disturbed'
      BY <1>1, <1>3 DEF Disturb, TypeOK
    <2>5. TypeOK /\ run' \in [Runs -> RunState] => TypeOK'
      BY <1>1, <1>3, <2>4 DEF TypeOK, directory
    <2>6. run'[p] = r => Shape(p)' /\ UpAlone(p)' /\ DownAlone(p)'
      BY <2>2, <2>3 DEF Shape, UpAlone, DownAlone
    <2> QED
      BY <1>1, <2>1, <2>3, <2>4, <2>5, <2>6, ReadKeeps
  <1> QED
    BY <1>2, <1>3 DEF CreateSchema

\* An up that passes over an empty file.
LEMMA PassOverKeeps ==
  ASSUME MigrationsInv, NEW p \in Runs, run[p].pc = "exec", Skip(p),
         UNCHANGED <<database, directory, disturbed, drift>>
  PROVE  MigrationsInv'
  <1>0. PICK x : x = Foremost(p)
    OBVIOUS
  <1> DEFINE todo == run[p].todo \ {x}
             skipped == run[p].skipped \cup {x[2]}
             r == [run[p] EXCEPT !.pc = "check", !.todo = todo, !.skipped = skipped]
  <1>1. TypeOK /\ Shape(p) /\ UpAlone(p) /\ run[p] \in RunState
    BY DEF MigrationsInv, TypeOK
  <1>2. /\ run[p].kind # "down" /\ run[p].batch # 0 /\ run[p].todo # {}
        /\ \A y, z \in run[p].todo : y[1] = z[1] => y = z
    BY <1>1 DEF Shape
  <1>3. x \in Nat \X Versions
    BY <1>0, <1>1, <1>2, ForemostIn
  <1>4. run' = [run EXCEPT ![p] = r]
    BY <1>0, <1>1, <1>2 DEF Skip, TypeOK
  <1>5. /\ todo \subseteq run[p].todo
        /\ \A w : <<w, w>> \in run[p].todo => <<w, w>> \in todo \/ w \in skipped
        /\ run[p].skipped \subseteq skipped /\ skipped \subseteq Versions
    BY <1>1, <1>3 DEF RunState
  <1> HIDE DEF todo, skipped
  <1>6. /\ r \in RunState /\ r.pc = "check" /\ r.kind = run[p].kind
        /\ r.batch = run[p].batch /\ r.todo = todo /\ r.found = run[p].found
        /\ r.skipped = skipped
    BY <1>1, <1>5 DEF RunState
  <1> HIDE DEF r
  <1>7. TypeOK /\ run' \in [Runs -> RunState] => TypeOK'
    BY DEF TypeOK, database, directory
  <1>8. ASSUME run'[p] = r PROVE Shape(p)' /\ UpAlone(p)' /\ DownAlone(p)'
    <2>1. Shape(p)' /\ DownAlone(p)'
      BY <1>2, <1>5, <1>6, <1>8 DEF Shape, DownAlone
    <2>2. p \notin disturbed =>
            /\ \A y \in rows : y.batch <= run[p].batch
            /\ \A w \in run[p].found :
                 <<w, w>> \in todo \/ Tracked(w) \/ w \in skipped \cup drift
      BY <1>1, <1>5 DEF UpAlone
    <2>3. \A w : Tracked(w)' <=> Tracked(w)
      BY DEF Tracked, database
    <2>4. UpAlone(p)'
      BY <1>6, <1>8, <2>2, <2>3 DEF UpAlone, database
    <2> QED
      BY <2>1, <2>4
  <1> QED
    BY <1>4, <1>6, <1>7, <1>8, ReadKeeps DEF database

LEMMA ExecUpKeeps ==
  ASSUME MigrationsInv, NEW p \in Runs, ExecUp(p)
  PROVE  MigrationsInv'
  <1> DEFINE v == Foremost(p)[2]
             legal == /\ public /\ Needs[v] \subseteq schema
                      /\ v \in Repeatable \/ v \notin schema
  <1>1. /\ TypeOK /\ Shape(p) /\ UpAlone(p) /\ run[p] \in RunState /\ run[p].pc = "exec"
        /\ UNCHANGED <<public, table, rows, serial, directory>>
    BY DEF MigrationsInv, TypeOK, ExecUp
  <1>2. /\ run[p].kind # "down" /\ run[p].batch # 0 /\ run[p].todo # {}
        /\ \A x, y \in run[p].todo : x[1] = y[1] => x = y
    BY <1>1 DEF Shape
  <1>3. v \in Versions
    BY <1>1, <1>2, ForemostIn
  <1>4. \/ Ends(p) /\ UNCHANGED <<schema, disturbed, drift>>
        \/ /\ legal /\ schema' = schema \cup {v} /\ Goes(p, "track")
           /\ Disturb(p) /\ Doubt(p, {v})
        \/ Goes(p, "track") /\ drift' = drift \cup {v} /\ UNCHANGED <<schema, disturbed>>
        \/ Skip(p) /\ UNCHANGED <<schema, disturbed, drift>>
    BY DEF ExecUp
  <1>5. p \notin disturbed =>
          /\ \A y \in rows : y.batch <= run[p].batch
          /\ \A w \in run[p].found :
               <<w, w>> \in run[p].todo \/ Tracked(w) \/ w \in run[p].skipped \cup drift
    BY <1>1 DEF UpAlone
  <1>6. \A w : Tracked(w)' <=> Tracked(w)
    BY <1>1 DEF Tracked
  <1>7. CASE Ends(p) /\ UNCHANGED <<schema, disturbed, drift>>
    BY <1>1, <1>7, EndKeeps DEF database
  <1>8. ASSUME Goes(p, "track"),
               drift \subseteq drift', drift' \subseteq Versions, schema' \subseteq Versions,
               disturbed \subseteq disturbed', disturbed' \subseteq Runs,
               p \notin disturbed' => v \in drift' \/ (v \in schema' /\ Needs[v] \subseteq schema')
        PROVE  /\ TypeOK' /\ Shape(p)' /\ UpAlone(p)' /\ DownAlone(p)'
               /\ \A q \in Runs \ {p} : run'[q] = run[q]
               /\ run'[p].pc = "track" /\ Foremost(p)' = Foremost(p)
    <2> DEFINE r == [run[p] EXCEPT !.pc = "track"]
    <2>1. run' = [run EXCEPT ![p] = r]
      BY <1>1, <1>8 DEF Goes, TypeOK
    <2>2. /\ r \in RunState /\ r.pc = "track" /\ r.kind = run[p].kind
          /\ r.batch = run[p].batch /\ r.todo = run[p].todo /\ r.found = run[p].found
          /\ r.skipped = run[p].skipped
      BY <1>1 DEF RunState
    <2> HIDE DEF r
    <2>3. /\ run' \in [Runs -> RunState] /\ run'[p] = r
          /\ \A q \in Runs \ {p} : run'[q] = run[q]
      BY <1>1, <2>1, <2>2, OneRun
    <2>4. Foremost(p)' = Foremost(p)
      BY <2>2, <2>3, ForemostSame
    <2>5. TypeOK'
      BY <1>1, <1>8, <2>3 DEF TypeOK, directory
    <2>6. Shape(p)' /\ DownAlone(p)'
      BY <1>2, <2>2, <2>3 DEF Shape, DownAlone
    <2>7. UpAlone(p)'
      BY <1>1, <1>5, <1>6, <1>8, <2>2, <2>3, <2>4 DEF UpAlone
    <2> QED
      BY <2>2, <2>3, <2>4, <2>5, <2>6, <2>7
  <1>9. CASE Goes(p, "track") /\ drift' = drift \cup {v} /\ UNCHANGED <<schema, disturbed>>
    <2>1. /\ TypeOK' /\ Shape(p)' /\ UpAlone(p)' /\ DownAlone(p)'
          /\ \A q \in Runs \ {p} : run'[q] = run[q]
      BY <1>1, <1>3, <1>8, <1>9 DEF TypeOK
    <2> QED
      BY <1>1, <1>9, <2>1, QuietKeeps
  <1>10. CASE /\ legal /\ schema' = schema \cup {v} /\ Goes(p, "track")
              /\ Disturb(p) /\ Doubt(p, {v})
    <2>1. /\ drift \subseteq drift' /\ drift' \subseteq Versions
          /\ schema' \subseteq Versions /\ disturbed \subseteq disturbed'
          /\ disturbed' \subseteq Runs /\ v \in schema' /\ Needs[v] \subseteq schema'
      BY <1>1, <1>3, <1>10 DEF TypeOK, Doubt, Disturb
    <2>2. /\ TypeOK' /\ Shape(p)' /\ UpAlone(p)' /\ DownAlone(p)'
          /\ \A q \in Runs \ {p} : run'[q] = run[q]
          /\ run'[p].pc = "track" /\ Foremost(p)' = Foremost(p)
      BY <1>8, <1>10, <2>1
    <2>3. \A q \in Runs \ {p} : Shape(q)' /\ UpAlone(q)' /\ DownAlone(q)'
      BY <1>10, <2>2, OthersDisturbed
    <2>4. /\ \A w : Doubted(w) => Doubted(w)'
          /\ \A w : InDoubt(w) => InDoubt(w)'
      BY <1>1, <2>1, <2>2, DoubtsStay
    <2>5. BatchesBounded' /\ BatchesGrow' /\ ReferencesFirst'
      BY <1>1, <2>1, <2>4 DEF MigrationsInv, BatchesBounded, BatchesGrow, ReferencesFirst
    <2>6. \A w : w = v => InDoubt(w)'
      BY <2>2 DEF InDoubt
    <2>7. \A w : w # v => (w \in schema' <=> w \in schema)
      BY <1>10
    <2> HIDE DEF v
    <2>8. DriftExplained'
      <3>1. ASSUME NEW w \in Versions PROVE (w \in schema' <=> Tracked(w)') \/ InDoubt(w)'
        <4>1. (w \in schema <=> Tracked(w)) \/ InDoubt(w)
          BY DEF MigrationsInv, DriftExplained
        <4> QED
          BY <1>6, <2>4, <2>6, <2>7, <4>1
      <3> QED
        BY <3>1 DEF DriftExplained
    <2>9. \A q \in Runs : Shape(q)' /\ UpAlone(q)' /\ DownAlone(q)'
      BY <2>2, <2>3
    <2> QED
      BY <2>2, <2>5, <2>8, <2>9 DEF MigrationsInv
  <1>11. CASE Skip(p) /\ UNCHANGED <<schema, disturbed, drift>>
    BY <1>1, <1>11, PassOverKeeps DEF database
  <1> QED
    BY <1>4, <1>7, <1>9, <1>10, <1>11

\* A run that has tracked a file, or failed to, goes on to the next.
LEMMA TrackRun ==
  ASSUME MigrationsInv, NEW p \in Runs, NEW x, x = Foremost(p), run[p].pc = "track",
         run' = [run EXCEPT ![p].pc = "check", ![p].todo = @ \ {x}]
  PROVE  /\ x \in run[p].todo /\ x \in Nat \X Versions
         /\ run' \in [Runs -> RunState]
         /\ \A q \in Runs \ {p} : run'[q] = run[q]
         /\ run'[p].pc = "check" /\ run'[p].batch = run[p].batch
         /\ run'[p].found = run[p].found /\ run'[p].skipped = run[p].skipped
         /\ \A w : <<w, w>> \in run[p].todo => <<w, w>> \in run'[p].todo \/ w = x[2]
         /\ Shape(p)' /\ DownAlone(p)'
  <1>1. TypeOK /\ Shape(p) /\ run[p] \in RunState
    BY DEF MigrationsInv, TypeOK
  <1>2. /\ run[p].kind # "down" /\ run[p].batch # 0 /\ run[p].todo # {}
        /\ \A y, z \in run[p].todo : y[1] = z[1] => y = z
    BY <1>1 DEF Shape
  <1>3. x \in run[p].todo /\ x \in Nat \X Versions
    BY <1>1, <1>2, ForemostIn
  <1> DEFINE todo == run[p].todo \ {x}
             r == [run[p] EXCEPT !.pc = "check", !.todo = todo]
  <1>4. run' = [run EXCEPT ![p] = r]
    BY <1>1 DEF TypeOK
  <1>5. /\ todo \subseteq run[p].todo
        /\ \A w : <<w, w>> \in run[p].todo => <<w, w>> \in todo \/ w = x[2]
    OBVIOUS
  <1> HIDE DEF todo
  <1>6. /\ r \in RunState /\ r.pc = "check" /\ r.kind = run[p].kind
        /\ r.batch = run[p].batch /\ r.todo = todo /\ r.found = run[p].found
        /\ r.skipped = run[p].skipped
    BY <1>1, <1>5 DEF RunState
  <1> HIDE DEF r
  <1>7. /\ run' \in [Runs -> RunState] /\ run'[p] = r
        /\ \A q \in Runs \ {p} : run'[q] = run[q]
    BY <1>1, <1>4, <1>6, OneRun
  <1>8. Shape(p)' /\ DownAlone(p)'
    BY <1>2, <1>5, <1>6, <1>7 DEF Shape, DownAlone
  <1> QED
    BY <1>3, <1>5, <1>6, <1>7, <1>8

LEMMA TrackKeeps ==
  ASSUME MigrationsInv, NEW p \in Runs, Track(p)
  PROVE  MigrationsInv'
  <1>0. PICK x : x = Foremost(p)
    OBVIOUS
  <1> DEFINE row == [id |-> serial + 1, v |-> x[2], batch |-> run[p].batch]
  <1>1. /\ TypeOK /\ Shape(p) /\ UpAlone(p) /\ run[p] \in RunState /\ run[p].pc = "track"
        /\ UNCHANGED <<public, table, schema, directory>>
    BY DEF MigrationsInv, TypeOK, Track
  <1>2. /\ x \in run[p].todo /\ x \in Nat \X Versions
        /\ run' \in [Runs -> RunState]
        /\ \A q \in Runs \ {p} : run'[q] = run[q]
        /\ run'[p].pc = "check" /\ run'[p].batch = run[p].batch
        /\ run'[p].found = run[p].found /\ run'[p].skipped = run[p].skipped
        /\ \A w : <<w, w>> \in run[p].todo => <<w, w>> \in run'[p].todo \/ w = x[2]
        /\ Shape(p)' /\ DownAlone(p)'
    BY <1>0, <1>1, TrackRun DEF Track
  <1>3. p \notin disturbed =>
          /\ \A y \in rows : y.batch <= run[p].batch
          /\ \A w \in run[p].found :
               <<w, w>> \in run[p].todo \/ Tracked(w) \/ w \in run[p].skipped \cup drift
          /\ x[2] \in drift \/ (x[2] \in schema /\ Needs[x[2]] \subseteq schema)
    BY <1>0, <1>1 DEF UpAlone
  <1>4. \/ /\ table /\ ~Tracked(x[2]) /\ serial' = serial + 1 /\ rows' = rows \cup {row}
           /\ Disturb(p) /\ Doubt(p, {x[2]})
        \/ drift' = drift \cup {x[2]} /\ UNCHANGED <<rows, serial, disturbed>>
    BY <1>0 DEF Track
  <1>5. CASE drift' = drift \cup {x[2]} /\ UNCHANGED <<rows, serial, disturbed>>
    <2>1. TypeOK'
      BY <1>1, <1>2, <1>5 DEF TypeOK, directory
    <2>2. \A w : Tracked(w)' <=> Tracked(w)
      BY <1>5 DEF Tracked
    <2>3. UpAlone(p)'
      BY <1>2, <1>3, <1>5, <2>2 DEF UpAlone
    <2> QED
      BY <1>0, <1>1, <1>2, <1>5, <2>1, <2>3, QuietKeeps
  <1>6. CASE /\ table /\ ~Tracked(x[2]) /\ serial' = serial + 1 /\ rows' = rows \cup {row}
             /\ Disturb(p) /\ Doubt(p, {x[2]})
    <2>1. /\ serial \in Nat /\ x[2] \in Versions
          /\ run[p].batch \in Nat /\ run[p].batch # 0
          /\ \A y \in rows : /\ y.id \in Nat /\ y.id >= 1 /\ y.id <= serial
                             /\ y.v \in Versions /\ y.batch \in Nat
      BY <1>1, <1>2 DEF TypeOK, RunState, Shape
    <2>2. /\ row.id = serial + 1 /\ row.v = x[2] /\ row.batch = run[p].batch
          /\ row \in [id : 1 .. serial + 1, v : Versions, batch : Nat \ {0}]
      BY <2>1
    <2> HIDE DEF row
    <2>3. /\ drift \subseteq drift' /\ drift' \subseteq Versions
          /\ p \in disturbed => x[2] \in drift'
      BY <1>1, <1>6, <2>1 DEF TypeOK, Doubt
    <2>4. /\ disturbed' \subseteq Runs /\ disturbed \subseteq disturbed'
          /\ p \in disturbed' => p \in disturbed
          /\ \A q \in Runs \ {p} : Over(q) \/ q \in disturbed'
          /\ \A q \in Runs \ {p} : Shape(q)' /\ UpAlone(q)' /\ DownAlone(q)'
      BY <1>2, <1>6, OthersDisturbed
    <2>5. \A y \in rows' : y \in rows \/ y = row
      BY <1>6
    <2>6. \A y \in rows : y.v # x[2]
      BY <1>6 DEF Tracked
    <2>7. TypeOK'
      <3>1. rows' \subseteq [id : 1 .. serial', v : Versions, batch : Nat \ {0}]
        <4>1. \A y \in rows : y \in [id : 1 .. serial + 1, v : Versions, batch : Nat \ {0}]
          <5>1. rows \subseteq [id : 1 .. serial, v : Versions, batch : Nat \ {0}]
            BY <1>1 DEF TypeOK
          <5>2. 1 .. serial \subseteq 1 .. serial + 1
            BY <2>1
          <5> QED
            BY <5>1, <5>2
        <4> QED
          BY <1>6, <2>2, <2>5, <4>1
      <3>2. \A y, z \in rows' : y.id = z.id \/ y.v = z.v => y = z
        <4>1. \A y, z \in rows : y.id = z.id \/ y.v = z.v => y = z
          BY <1>1 DEF TypeOK
        <4>2. \A y \in rows : y.id # row.id /\ y.v # row.v
          BY <2>1, <2>2, <2>6
        <4> QED
          BY <2>5, <4>1, <4>2
      <3>3. serial' \in Nat
        BY <1>6, <2>1
      <3> QED
        BY <1>1, <1>2, <1>6, <2>3, <2>4, <3>1, <3>2, <3>3 DEF TypeOK, directory
    <2>8. BatchesBounded'
      <3>1. PICK n \in Nat : \A y \in rows : y.batch <= n
        BY DEF MigrationsInv, BatchesBounded
      <3> DEFINE m == n + run[p].batch
      <3>2. m \in Nat /\ \A y \in rows' : y.batch <= m
        BY <2>1, <2>2, <2>5, <3>1
      <3> HIDE DEF m
      <3> QED
        BY <3>2 DEF BatchesBounded
    <2>9. \A w : Tracked(w)' <=> Tracked(w) \/ w = x[2]
      <3>1. row \in rows'
        BY <1>6
      <3> QED
        BY <1>6, <2>2, <2>5, <3>1 DEF Tracked
    <2>10. UpAlone(p)'
      <3> SUFFICES ASSUME p \notin disturbed'
                   PROVE  UpAlone(p)'
        BY DEF UpAlone
      <3>1. \A y \in rows' : y.batch <= run[p].batch
        BY <1>3, <2>1, <2>2, <2>4, <2>5
      <3>2. \A w \in run[p].found :
              \/ <<w, w>> \in run'[p].todo \/ Tracked(w)'
              \/ w \in run[p].skipped \cup drift'
        BY <1>2, <1>3, <2>3, <2>4, <2>9
      <3> QED
        BY <1>2, <3>1, <3>2 DEF UpAlone
    <2>11. BatchesGrow'
      <3>1. BatchesGrow
        BY DEF MigrationsInv
      <3>2. SUFFICES ASSUME NEW y \in rows', NEW z \in rows', y.id < z.id, z.v \notin drift'
                     PROVE  y.batch <= z.batch
        BY DEF BatchesGrow
      <3>3. CASE z \in rows
        <4>1. y \in rows
          BY <2>1, <2>2, <2>5, <3>2, <3>3
        <4> QED
          BY <2>3, <3>1, <3>2, <3>3, <4>1 DEF BatchesGrow
      <3>4. CASE z = row
        <4>1. p \notin disturbed
          BY <2>2, <2>3, <3>2, <3>4
        <4>2. y \in rows
          BY <2>1, <2>2, <2>5, <3>2, <3>4
        <4> QED
          BY <1>3, <2>2, <3>4, <4>1, <4>2
      <3> QED
        BY <2>5, <3>2, <3>3, <3>4
    <2>12. /\ \A w : Doubted(w) => Doubted(w)'
           /\ \A w : InDoubt(w) => InDoubt(w)' \/ w = x[2]
      BY <1>0, <1>1, <1>2, <2>3, <2>4, DoubtsStay
    <2>13. ReferencesFirst'
      <3>1. SUFFICES ASSUME NEW z \in rows', NEW w \in Needs[z.v]
                     PROVE  \/ Doubted(w)' \/ Doubted(z.v)'
                            \/ \E y \in rows' : y.v = w /\ y.id < z.id
        BY DEF ReferencesFirst
      <3>2. CASE z \in rows
        <4>1. \/ Doubted(w) \/ Doubted(z.v)
              \/ \E y \in rows : y.v = w /\ y.id < z.id
          BY <3>1, <3>2 DEF MigrationsInv, ReferencesFirst
        <4> QED
          BY <1>6, <2>12, <4>1
      <3>3. CASE z = row /\ x[2] \in drift'
        BY <2>2, <3>3 DEF Doubted
      <3>4. CASE z = row /\ x[2] \notin drift'
        <4>1. p \notin disturbed /\ x[2] \notin drift
          BY <2>3, <3>4
        <4>2. w \in schema /\ w # x[2] /\ w \in Versions
          <5>1. w \in Needs[x[2]]
            BY <2>2, <3>1, <3>4
          <5>2. w < x[2] /\ w \in Versions /\ w \in Nat /\ x[2] \in Nat
            BY <2>1, <5>1, MigrationsAssumption
          <5> QED
            BY <1>3, <4>1, <5>1, <5>2
        <4>3. Tracked(w) \/ InDoubt(w)
          BY <4>2 DEF MigrationsInv, DriftExplained
        <4>4. CASE Tracked(w)
          <5>1. PICK y \in rows : y.v = w
            BY <4>4 DEF Tracked
          <5>2. y \in rows' /\ y.id < z.id
            BY <1>6, <2>1, <2>2, <3>4
          <5> QED
            BY <5>1, <5>2
        <4>5. CASE InDoubt(w)
          BY <1>0, <1>1, <1>2, <2>3, <2>4, <4>2, <4>5, BetweenStatements
        <4> QED
          BY <4>3, <4>4, <4>5
      <3> QED
        BY <2>5, <3>2, <3>3, <3>4
    <2>14. DriftExplained'
      <3>1. ASSUME NEW w \in Versions PROVE (w \in schema' <=> Tracked(w)') \/ InDoubt(w)'
        <4>1. (w \in schema <=> Tracked(w)) \/ InDoubt(w)
          BY DEF MigrationsInv, DriftExplained
        <4>2. CASE w # x[2]
          BY <1>1, <2>9, <2>12, <4>1, <4>2
        <4>3. CASE w = x[2] /\ w \in drift'
          BY <4>3 DEF InDoubt
        <4>4. CASE w = x[2] /\ w \notin drift'
          <5>1. w \in schema
            BY <1>3, <2>3, <4>4
          <5> QED
            BY <1>1, <2>9, <4>4, <5>1
        <4> QED
          BY <4>2, <4>3, <4>4
      <3> QED
        BY <3>1 DEF DriftExplained
    <2>15. \A q \in Runs : Shape(q)' /\ UpAlone(q)' /\ DownAlone(q)'
      BY <1>2, <2>4, <2>10
    <2> QED
      BY <2>7, <2>8, <2>11, <2>13, <2>14, <2>15 DEF MigrationsInv
  <1> QED
    BY <1>4, <1>5, <1>6

\* What is true of a run that reverts: one lemma for all that its steps read.
LEMMA RevertFacts ==
  ASSUME MigrationsInv, NEW p \in Runs, run[p].pc \in {"revert", "untrack"}
  PROVE  /\ TypeOK /\ run[p] \in RunState /\ run[p].kind = "down"
         /\ run[p].pc = "untrack" => run[p].todo # {}
         /\ \A y, z \in run[p].todo : y[1] = z[1] => y = z
         /\ \E n \in Nat : \A y \in run[p].todo : y[1] <= n
         /\ run[p].todo # {} => /\ Foremost(p) \in run[p].todo
                                /\ Foremost(p) \in Nat \X Versions
                                /\ \A y \in run[p].todo : y[1] <= Foremost(p)[1]
         /\ p \notin disturbed =>
              /\ \A y \in rows : y.batch <= run[p].batch
              /\ \A z \in run[p].todo : \E y \in rows :
                   y.id = z[1] /\ y.v = z[2] /\ y.batch = run[p].batch
              /\ \A y \in rows : y.batch = run[p].batch => Accounted(p, y)
  <1>1. TypeOK /\ Shape(p) /\ DownAlone(p) /\ run[p] \in RunState
    BY DEF MigrationsInv, TypeOK
  <1>2. /\ run[p].kind = "down"
        /\ run[p].pc = "untrack" => run[p].todo # {}
        /\ \A y, z \in run[p].todo : y[1] = z[1] => y = z
        /\ \E n \in Nat : \A y \in run[p].todo : y[1] <= n
    BY <1>1 DEF Shape
  <1>3. run[p].todo # {} => /\ Foremost(p) \in run[p].todo
                            /\ Foremost(p) \in Nat \X Versions
                            /\ \A y \in run[p].todo : y[1] <= Foremost(p)[1]
    BY <1>1, <1>2, ForemostIn
  <1>4. p \notin disturbed =>
          /\ \A y \in rows : y.batch <= run[p].batch
          /\ \A z \in run[p].todo : \E y \in rows :
               y.id = z[1] /\ y.v = z[2] /\ y.batch = run[p].batch
          /\ \A y \in rows : y.batch = run[p].batch => Accounted(p, y)
    BY <1>1, <1>2 DEF DownAlone
  <1> QED
    BY <1>1, <1>2, <1>3, <1>4

\* A migration that is passed over.
LEMMA SkipKeeps ==
  ASSUME MigrationsInv, NEW p \in Runs, run[p].pc = "revert", run[p].todo # {}, Skip(p),
         UNCHANGED <<database, directory, disturbed, drift>>
  PROVE  MigrationsInv'
  <1>0. PICK x : x = Foremost(p)
    OBVIOUS
  <1> DEFINE todo == run[p].todo \ {x}
             skipped == run[p].skipped \cup {x[2]}
             r == [run[p] EXCEPT !.pc = "revert", !.todo = todo, !.skipped = skipped]
  <1>1. /\ TypeOK /\ run[p] \in RunState /\ run[p].kind = "down"
        /\ \A y, z \in run[p].todo : y[1] = z[1] => y = z
        /\ x \in Nat \X Versions
        /\ p \notin disturbed =>
             /\ \A y \in rows : y.batch <= run[p].batch
             /\ \A z \in run[p].todo : \E y \in rows :
                  y.id = z[1] /\ y.v = z[2] /\ y.batch = run[p].batch
             /\ \A y \in rows : y.batch = run[p].batch => Accounted(p, y)
    BY <1>0, RevertFacts
  <1>2. PICK n \in Nat : \A y \in run[p].todo : y[1] <= n
    BY RevertFacts
  <1>3. run' = [run EXCEPT ![p] = r]
    BY <1>0, <1>1 DEF Skip, TypeOK
  <1>4. /\ todo \subseteq run[p].todo
        /\ \A y \in run[p].todo : y \in todo \/ y[2] \in skipped
        /\ run[p].skipped \subseteq skipped /\ skipped \subseteq Versions
    BY <1>1 DEF RunState
  <1> HIDE DEF todo, skipped
  <1>5. /\ r \in RunState /\ r.pc = "revert" /\ r.kind = "down"
        /\ r.batch = run[p].batch /\ r.todo = todo /\ r.skipped = skipped
        /\ r.found = run[p].found /\ r.broken = run[p].broken
    BY <1>1, <1>4 DEF RunState
  <1> HIDE DEF r
  <1>6. TypeOK /\ run' \in [Runs -> RunState] => TypeOK'
    BY DEF TypeOK, database, directory
  <1>7. ASSUME run'[p] = r PROVE Shape(p)' /\ UpAlone(p)' /\ DownAlone(p)'
    <2>1. Shape(p)' /\ UpAlone(p)'
      BY <1>1, <1>2, <1>4, <1>5, <1>7 DEF Shape, UpAlone
    <2>2. ASSUME NEW y \in rows, Accounted(p, y) PROVE Accounted(p, y)'
      <3>1. <<y.id, y.v>>[2] = y.v
        OBVIOUS
      <3>2. Unlisted(p, y) => Unlisted(p, y)'
        BY <1>4, <1>5, <1>7 DEF Unlisted
      <3> QED
        BY <1>4, <1>5, <1>7, <2>2, <3>1, <3>2 DEF Accounted
    <2>3. DownAlone(p)'
      BY <1>1, <1>4, <1>5, <1>7, <2>2 DEF DownAlone, database
    <2> QED
      BY <2>1, <2>3
  <1> QED
    BY <1>3, <1>5, <1>6, <1>7, ReadKeeps DEF database

LEMMA ExecDownKeeps ==
  ASSUME MigrationsInv, NEW p \in Runs, ExecDown(p)
  PROVE  MigrationsInv'
  <1>0. PICK v : v = Foremost(p)[2]
    OBVIOUS
  <1>1. /\ run[p].pc = "revert"
        /\ UNCHANGED <<public, table, rows, serial, directory>>
    BY DEF ExecDown
  <1>2. /\ TypeOK /\ run[p] \in RunState /\ run[p].kind = "down"
        /\ \A y, z \in run[p].todo : y[1] = z[1] => y = z
        /\ \E n \in Nat : \A y \in run[p].todo : y[1] <= n
        /\ run[p].todo # {} => v \in Versions
        /\ p \notin disturbed =>
             /\ \A y \in rows : y.batch <= run[p].batch
             /\ \A z \in run[p].todo : \E y \in rows :
                  y.id = z[1] /\ y.v = z[2] /\ y.batch = run[p].batch
             /\ \A y \in rows : y.batch = run[p].batch => Accounted(p, y)
    BY <1>0, <1>1, RevertFacts
  <1>3. \/ Ends(p) /\ UNCHANGED <<schema, disturbed, drift>>
        \/ run[p].todo # {} /\ Skip(p) /\ UNCHANGED <<schema, disturbed, drift>>
        \/ /\ run[p].todo # {} /\ Dependents(v) = {} /\ schema' = schema \ {v}
           /\ Goes(p, "untrack") /\ Disturb(p) /\ Doubt(p, {v})
        \/ /\ run[p].todo # {} /\ Goes(p, "untrack") /\ drift' = drift \cup {v}
           /\ UNCHANGED <<schema, disturbed>>
    BY <1>0 DEF ExecDown
  <1>4. CASE Ends(p) /\ UNCHANGED <<schema, disturbed, drift>>
    BY <1>1, <1>4, EndKeeps DEF database
  <1>5. CASE run[p].todo # {} /\ Skip(p) /\ UNCHANGED <<schema, disturbed, drift>>
    BY <1>1, <1>5, SkipKeeps DEF database
  <1>6. ASSUME Goes(p, "untrack"), run[p].todo # {},
               drift \subseteq drift', drift' \subseteq Versions, schema' \subseteq Versions,
               disturbed \subseteq disturbed', disturbed' \subseteq Runs
        PROVE  /\ TypeOK' /\ Shape(p)' /\ UpAlone(p)'
               /\ \A q \in Runs \ {p} : run'[q] = run[q]
               /\ run'[p].pc = "untrack" /\ Foremost(p)' = Foremost(p)
               /\ (p \notin disturbed' =>
                     v \in drift' \/ (v \notin schema'
                                      /\ \A y \in rows : v \in Needs[y.v] => Doubted(y.v)'))
                  => DownAlone(p)'
    <2> DEFINE r == [run[p] EXCEPT !.pc = "untrack"]
    <2>1. run' = [run EXCEPT ![p] = r]
      BY <1>2, <1>6 DEF Goes, TypeOK
    <2>2. /\ r \in RunState /\ r.pc = "untrack" /\ r.kind = "down"
          /\ r.batch = run[p].batch /\ r.todo = run[p].todo /\ r.skipped = run[p].skipped
          /\ r.found = run[p].found /\ r.broken = run[p].broken
      BY <1>2 DEF RunState
    <2> HIDE DEF r
    <2>3. /\ run' \in [Runs -> RunState] /\ run'[p] = r
          /\ \A q \in Runs \ {p} : run'[q] = run[q]
      BY <1>2, <2>1, <2>2, OneRun
    <2>4. Foremost(p)' = Foremost(p)
      BY <1>2, <2>2, <2>3, ForemostSame
    <2>5. TypeOK'
      BY <1>1, <1>2, <1>6, <2>3 DEF TypeOK, directory
    <2>6. Shape(p)' /\ UpAlone(p)'
      BY <1>2, <1>6, <2>2, <2>3 DEF Shape, UpAlone
    <2>7. ASSUME p \notin disturbed' =>
                   v \in drift' \/ (v \notin schema'
                                    /\ \A y \in rows : v \in Needs[y.v] => Doubted(y.v)')
          PROVE  DownAlone(p)'
      <3> SUFFICES ASSUME p \notin disturbed'
                   PROVE  DownAlone(p)'
        BY DEF DownAlone
      <3>1. /\ \A y \in rows' : y.batch <= run'[p].batch
            /\ \A z \in run'[p].todo : \E y \in rows' :
                 y.id = z[1] /\ y.v = z[2] /\ y.batch = run'[p].batch
        BY <1>1, <1>2, <1>6, <2>2, <2>3
      <3>3. ASSUME NEW y \in rows', y.batch = run'[p].batch PROVE Accounted(p, y)'
        <4>1. Accounted(p, y)
          BY <1>1, <1>2, <1>6, <2>2, <2>3, <3>3
        <4> QED
          BY <1>6, <2>2, <2>3, <4>1 DEF Accounted, Unlisted
      <3>2. v = Foremost(p)'[2] /\ rows' = rows
        BY <1>0, <1>1, <2>4
      <3> QED
        BY <2>7, <3>1, <3>2, <3>3 DEF DownAlone
    <2> QED
      BY <2>2, <2>3, <2>4, <2>5, <2>6, <2>7
  <1>7. CASE /\ run[p].todo # {} /\ Goes(p, "untrack") /\ drift' = drift \cup {v}
             /\ UNCHANGED <<schema, disturbed>>
    <2>1. /\ TypeOK' /\ Shape(p)' /\ UpAlone(p)' /\ DownAlone(p)'
          /\ \A q \in Runs \ {p} : run'[q] = run[q]
      BY <1>2, <1>6, <1>7 DEF TypeOK
    <2> QED
      BY <1>1, <1>7, <2>1, QuietKeeps
  <1>8. CASE /\ run[p].todo # {} /\ Dependents(v) = {} /\ schema' = schema \ {v}
             /\ Goes(p, "untrack") /\ Disturb(p) /\ Doubt(p, {v})
    <2>1. /\ drift \subseteq drift' /\ drift' \subseteq Versions
          /\ schema' \subseteq Versions /\ disturbed \subseteq disturbed'
          /\ disturbed' \subseteq Runs /\ v \notin schema'
      BY <1>2, <1>8 DEF TypeOK, Doubt, Disturb
    <2>2. /\ TypeOK' /\ Shape(p)' /\ UpAlone(p)'
          /\ \A q \in Runs \ {p} : run'[q] = run[q]
          /\ run'[p].pc = "untrack" /\ Foremost(p)' = Foremost(p)
          /\ (p \notin disturbed' =>
                v \in drift' \/ (v \notin schema'
                                 /\ \A y \in rows : v \in Needs[y.v] => Doubted(y.v)'))
             => DownAlone(p)'
      BY <1>6, <1>8, <2>1
    <2>3. /\ \A q \in Runs \ {p} : Shape(q)' /\ UpAlone(q)' /\ DownAlone(q)'
          /\ \A q \in Runs \ {p} : Over(q) \/ q \in disturbed'
      BY <1>8, <2>2, OthersDisturbed
    <2>4. /\ \A w : Doubted(w) => Doubted(w)'
          /\ \A w : InDoubt(w) => InDoubt(w)'
      BY <1>1, <1>2, <2>1, <2>2, DoubtsStay
    <2>5. ASSUME NEW y \in rows, v \in Needs[y.v] PROVE Doubted(y.v)'
      <3>1. y.v \in Versions /\ Tracked(y.v)
        BY <1>2 DEF TypeOK, Tracked
      <3>2. y.v \notin schema
        BY <1>8, <2>5 DEF Dependents
      <3>3. \A w : w = y.v => Doubted(w)'
        <4>1. SUFFICES ASSUME NEW w, w = y.v PROVE Doubted(w)'
          OBVIOUS
        <4>2. InDoubt(w)
          BY <3>1, <3>2, <4>1 DEF MigrationsInv, DriftExplained
        <4> QED
          BY <1>1, <1>2, <2>1, <2>2, <2>3, <4>2, BetweenStatements
      <3> QED
        BY <3>3
    <2>6. DownAlone(p)'
      BY <2>1, <2>2, <2>5
    <2>7. BatchesBounded' /\ BatchesGrow' /\ ReferencesFirst'
      BY <1>1, <2>1, <2>4 DEF MigrationsInv, BatchesBounded, BatchesGrow, ReferencesFirst
    <2>8. \A w : w = v => InDoubt(w)'
      BY <1>0, <2>2 DEF InDoubt
    <2>9. DriftExplained'
      <3>1. ASSUME NEW w \in Versions PROVE (w \in schema' <=> Tracked(w)') \/ InDoubt(w)'
        <4>1. (w \in schema <=> Tracked(w)) \/ InDoubt(w)
          BY DEF MigrationsInv, DriftExplained
        <4>2. Tracked(w)' <=> Tracked(w)
          BY <1>1 DEF Tracked
        <4>3. w # v => (w \in schema' <=> w \in schema)
          BY <1>8
        <4> QED
          BY <2>4, <2>8, <4>1, <4>2, <4>3
      <3> QED
        BY <3>1 DEF DriftExplained
    <2>10. \A q \in Runs : Shape(q)' /\ UpAlone(q)' /\ DownAlone(q)'
      BY <2>2, <2>3, <2>6
    <2> QED
      BY <2>2, <2>7, <2>9, <2>10 DEF MigrationsInv
  <1> QED
    BY <1>3, <1>4, <1>5, <1>7, <1>8

\* A run that has untracked a migration, or failed to, goes on to the next.
LEMMA UntrackRun ==
  ASSUME MigrationsInv, NEW p \in Runs, NEW x, x = Foremost(p), run[p].pc = "untrack",
         run' = [run EXCEPT ![p].pc = "revert", ![p].todo = @ \ {x}]
  PROVE  /\ run' \in [Runs -> RunState]
         /\ \A q \in Runs \ {p} : run'[q] = run[q]
         /\ run'[p].pc = "revert" /\ run'[p].kind = "down"
         /\ run'[p].batch = run[p].batch /\ run'[p].skipped = run[p].skipped
         /\ run'[p].todo = run[p].todo \ {x}
         /\ run'[p].found = run[p].found /\ run'[p].broken = run[p].broken
         /\ Shape(p)' /\ UpAlone(p)'
  <1>1. /\ TypeOK /\ run[p] \in RunState /\ run[p].kind = "down"
        /\ \A y, z \in run[p].todo : y[1] = z[1] => y = z
    BY RevertFacts
  <1>2. PICK n \in Nat : \A y \in run[p].todo : y[1] <= n
    BY RevertFacts
  <1> DEFINE todo == run[p].todo \ {x}
             r == [run[p] EXCEPT !.pc = "revert", !.todo = todo]
  <1>3. run' = [run EXCEPT ![p] = r]
    BY <1>1 DEF TypeOK
  <1>4. todo \subseteq run[p].todo
    OBVIOUS
  <1> HIDE DEF todo
  <1>5. /\ r \in RunState /\ r.pc = "revert" /\ r.kind = "down"
        /\ r.batch = run[p].batch /\ r.todo = todo /\ r.skipped = run[p].skipped
        /\ r.found = run[p].found /\ r.broken = run[p].broken
    BY <1>1, <1>4 DEF RunState
  <1> HIDE DEF r
  <1>6. /\ run' \in [Runs -> RunState] /\ run'[p] = r
        /\ \A q \in Runs \ {p} : run'[q] = run[q]
    BY <1>1, <1>3, <1>5, OneRun
  <1>7. Shape(p)' /\ UpAlone(p)'
    BY <1>1, <1>2, <1>4, <1>5, <1>6 DEF Shape, UpAlone
  <1> QED
    BY <1>5, <1>6, <1>7 DEF todo

LEMMA UntrackKeeps ==
  ASSUME MigrationsInv, NEW p \in Runs, Untrack(p)
  PROVE  MigrationsInv'
  <1>0. PICK x : x = Foremost(p)
    OBVIOUS
  <1> DEFINE gone == {y \in rows : y.id = x[1]}
  <1>1. /\ run[p].pc = "untrack"
        /\ UNCHANGED <<public, table, serial, schema, directory>>
    BY DEF Untrack
  <1>2. /\ TypeOK /\ run[p] \in RunState
        /\ \A y, z \in run[p].todo : y[1] = z[1] => y = z
        /\ x \in run[p].todo /\ x \in Nat \X Versions
        /\ p \notin disturbed =>
             /\ \A y \in rows : y.batch <= run[p].batch
             /\ \A z \in run[p].todo : \E y \in rows :
                  y.id = z[1] /\ y.v = z[2] /\ y.batch = run[p].batch
             /\ \A y \in rows : y.batch = run[p].batch => Accounted(p, y)
    BY <1>0, <1>1, RevertFacts
  <1>3. p \notin disturbed =>
          \/ x[2] \in drift
          \/ x[2] \notin schema /\ \A y \in rows : x[2] \in Needs[y.v] => Doubted(y.v)
    <2>1. DownAlone(p) /\ run[p].kind = "down"
      BY <1>1, RevertFacts DEF MigrationsInv
    <2> QED
      BY <1>0, <1>1, <2>1 DEF DownAlone
  <1>4. /\ run' \in [Runs -> RunState]
        /\ \A q \in Runs \ {p} : run'[q] = run[q]
        /\ run'[p].pc = "revert" /\ run'[p].kind = "down"
        /\ run'[p].batch = run[p].batch /\ run'[p].skipped = run[p].skipped
        /\ run'[p].todo = run[p].todo \ {x}
        /\ run'[p].found = run[p].found /\ run'[p].broken = run[p].broken
        /\ Shape(p)' /\ UpAlone(p)'
    BY <1>0, <1>1, UntrackRun DEF Untrack
  <1>5. \/ rows' = rows \ gone /\ Disturb(p) /\ Doubt(p, {x[2]} \cup {y.v : y \in gone})
        \/ drift' = drift \cup {x[2]} /\ UNCHANGED <<rows, disturbed>>
    BY <1>0 DEF Untrack
  \* What is left to do of the batch, once the row of the foremost is gone or in doubt.
  <1>6. ASSUME p \notin disturbed, drift \subseteq drift',
               \A y \in rows' : y \in rows,
               \A y \in rows : y \in rows' \/ y.id = x[1],
               \A y \in rows' : y.id = x[1] => y.v \in drift'
        PROVE  DownAlone(p)'
    <2>1. \A y \in rows' : y.batch <= run[p].batch
      BY <1>2, <1>6
    <2>2. ASSUME NEW z \in run'[p].todo
          PROVE  \E y \in rows' : y.id = z[1] /\ y.v = z[2] /\ y.batch = run[p].batch
      <3>1. z \in run[p].todo /\ z[1] # x[1]
        BY <1>2, <1>4
      <3>2. PICK y \in rows : y.id = z[1] /\ y.v = z[2] /\ y.batch = run[p].batch
        BY <1>2, <1>6, <3>1
      <3>3. y \in rows'
        BY <1>6, <3>1, <3>2
      <3> QED
        BY <3>2, <3>3
    <2>3. ASSUME NEW y \in rows', y.batch = run[p].batch PROVE Accounted(p, y)'
      <3>1. CASE <<y.id, y.v>> = x
        BY <1>6, <3>1 DEF Accounted
      <3>2. CASE <<y.id, y.v>> # x
        <4>1. Accounted(p, y)
          BY <1>2, <1>6, <2>3
        <4>2. Unlisted(p, y) => Unlisted(p, y)'
          BY <1>4 DEF Unlisted
        <4> QED
          BY <1>4, <1>6, <3>2, <4>1, <4>2 DEF Accounted
      <3> QED
        BY <3>1, <3>2
    <2> QED
      BY <1>4, <2>1, <2>2, <2>3 DEF DownAlone
  <1>7. CASE drift' = drift \cup {x[2]} /\ UNCHANGED <<rows, disturbed>>
    <2>1. TypeOK'
      BY <1>1, <1>2, <1>4, <1>7 DEF TypeOK, directory
    <2>2. DownAlone(p)'
      <3> SUFFICES ASSUME p \notin disturbed PROVE DownAlone(p)'
        BY <1>7 DEF DownAlone
      <3>1. ASSUME NEW y \in rows, y.id = x[1] PROVE y.v = x[2]
        <4>1. PICK z \in rows : z.id = x[1] /\ z.v = x[2]
          BY <1>2
        <4> QED
          BY <1>2, <3>1, <4>1 DEF TypeOK
      <3> QED
        BY <1>6, <1>7, <3>1
    <2> QED
      BY <1>0, <1>1, <1>2, <1>4, <1>7, <2>1, <2>2, QuietKeeps
  <1>8. CASE /\ rows' = rows \ gone /\ Disturb(p)
             /\ Doubt(p, {x[2]} \cup {y.v : y \in gone})
    <2>1. /\ \A y \in rows' : y \in rows /\ y.id # x[1]
          /\ \A y \in rows : y \in rows' \/ y.id = x[1]
      BY <1>8
    <2>2. /\ drift \subseteq drift' /\ drift' \subseteq Versions
          /\ p \in disturbed => x[2] \in drift'
          /\ p \in disturbed => \A y \in rows : y.id = x[1] => y.v \in drift'
      <3>1. \A y \in rows : y.v \in Versions
        BY <1>2 DEF TypeOK
      <3>2. drift \subseteq Versions /\ x[2] \in Versions
        BY <1>2 DEF TypeOK
      <3> QED
        BY <1>8, <3>1, <3>2 DEF Doubt
    <2> HIDE DEF gone
    <2>3. /\ disturbed' \subseteq Runs /\ disturbed \subseteq disturbed'
          /\ p \in disturbed' => p \in disturbed
          /\ \A q \in Runs \ {p} : Shape(q)' /\ UpAlone(q)' /\ DownAlone(q)'
      BY <1>4, <1>8, OthersDisturbed
    <2>4. TypeOK'
      <3>1. rows' \subseteq rows /\ (rows' # {} => rows # {})
        BY <2>1
      <3> QED
        BY <1>1, <1>2, <1>4, <2>2, <2>3, <3>1 DEF TypeOK, directory
    <2>5. DownAlone(p)'
      <3> SUFFICES ASSUME p \notin disturbed PROVE DownAlone(p)'
        BY <2>3 DEF DownAlone
      <3> QED
        BY <1>6, <2>1, <2>2
    <2>6. /\ \A w : Doubted(w) => Doubted(w)'
          /\ \A w : InDoubt(w) => InDoubt(w)' \/ w = x[2]
      BY <1>0, <1>1, <1>2, <1>4, <2>2, <2>3, DoubtsStay
    <2>7. BatchesBounded' /\ BatchesGrow'
      BY <2>1, <2>2 DEF MigrationsInv, BatchesBounded, BatchesGrow
    <2>8. p \notin disturbed => \A y \in rows : y.id = x[1] <=> y.v = x[2]
      <3> SUFFICES ASSUME p \notin disturbed, NEW y \in rows
                   PROVE  y.id = x[1] <=> y.v = x[2]
        OBVIOUS
      <3>1. PICK z \in rows : z.id = x[1] /\ z.v = x[2]
        BY <1>2
      <3>2. \A a, b \in rows : a.id = b.id \/ a.v = b.v => a = b
        BY <1>2 DEF TypeOK
      <3> QED
        BY <3>1, <3>2
    <2>9. ReferencesFirst'
      <3>1. SUFFICES ASSUME NEW z \in rows', NEW w \in Needs[z.v]
                     PROVE  \/ Doubted(w)' \/ Doubted(z.v)'
                            \/ \E y \in rows' : y.v = w /\ y.id < z.id
        BY DEF ReferencesFirst
      <3>2. \/ Doubted(w) \/ Doubted(z.v)
            \/ \E y \in rows : y.v = w /\ y.id < z.id
        BY <2>1, <3>1 DEF MigrationsInv, ReferencesFirst
      <3>3. CASE Doubted(w) \/ Doubted(z.v)
        BY <2>6, <3>3
      <3>4. ASSUME NEW y \in rows, y.v = w, y.id < z.id
            PROVE  \/ Doubted(w)' \/ Doubted(z.v)'
                   \/ \E a \in rows' : a.v = w /\ a.id < z.id
        <4>1. CASE y \in rows'
          BY <3>4, <4>1
        <4>2. CASE y \notin rows' /\ p \in disturbed
          <5>1. w \in drift'
            BY <2>1, <2>2, <3>4, <4>2
          <5> QED
            BY <5>1 DEF Doubted
        <4>3. CASE y \notin rows' /\ p \notin disturbed
          <5>1. w = x[2]
            BY <2>1, <2>8, <3>4, <4>3
          <5>2. CASE x[2] \in drift
            BY <2>2, <5>1, <5>2 DEF Doubted
          <5>3. CASE Doubted(z.v)
            BY <2>6, <5>3
          <5>4. z \in rows
            BY <2>1
          <5> QED
            BY <1>3, <3>1, <4>3, <5>1, <5>2, <5>3, <5>4
        <4> QED
          BY <4>1, <4>2, <4>3
      <3> QED
        BY <3>2, <3>3, <3>4
    <2>10. DriftExplained'
      <3>1. ASSUME NEW w \in Versions PROVE (w \in schema' <=> Tracked(w)') \/ InDoubt(w)'
        <4>1. (w \in schema <=> Tracked(w)) \/ InDoubt(w)
          BY DEF MigrationsInv, DriftExplained
        <4>2. CASE w \in drift'
          BY <4>2 DEF InDoubt
        <4>3. CASE w \notin drift' /\ p \in disturbed
          <5>1. \A y \in rows : y.v = w => y \in rows'
            BY <2>1, <2>2, <4>3
          <5>2. Tracked(w)' <=> Tracked(w)
            BY <2>1, <5>1 DEF Tracked
          <5>3. w # x[2]
            BY <2>2, <4>3
          <5> QED
            BY <1>1, <2>6, <4>1, <5>2, <5>3
        <4>4. CASE w \notin drift' /\ p \notin disturbed /\ w # x[2]
          <5>1. \A y \in rows : y.v = w => y \in rows'
            BY <2>1, <2>8, <4>4
          <5>2. Tracked(w)' <=> Tracked(w)
            BY <2>1, <5>1 DEF Tracked
          <5> QED
            BY <1>1, <2>6, <4>1, <4>4, <5>2
        <4>5. CASE w \notin drift' /\ p \notin disturbed /\ w = x[2]
          <5>1. w \notin schema
            BY <1>3, <2>2, <4>5
          <5>2. ~Tracked(w)'
            BY <2>1, <2>8, <4>5 DEF Tracked
          <5> QED
            BY <1>1, <5>1, <5>2
        <4> QED
          BY <4>2, <4>3, <4>4, <4>5
      <3> QED
        BY <3>1 DEF DriftExplained
    <2>11. \A q \in Runs : Shape(q)' /\ UpAlone(q)' /\ DownAlone(q)'
      BY <1>4, <2>3, <2>5
    <2> QED
      BY <2>4, <2>7, <2>9, <2>10, <2>11 DEF MigrationsInv
  <1> QED
    BY <1>5, <1>7, <1>8

-----------------------------------------------------------------------------
(* The invariant, and the properties it holds.                             *)

LEMMA MigrationsInit == Init => MigrationsInv
  <1> SUFFICES ASSUME Init PROVE MigrationsInv
    OBVIOUS
  <1> DEFINE r == Memory("idle")
  <1>1. r \in RunState /\ r.pc = "idle" /\ r.kind = "up" /\ r.todo = {}
    BY DEF Memory, RunState
  <1>2. run = [q \in Runs |-> r]
    BY DEF Init
  <1> HIDE DEF r
  <1>3. TypeOK
    BY <1>1, <1>2 DEF Init, TypeOK
  <1>4. \A q \in Runs : run[q] = r
    BY <1>2
  <1>5. \A q \in Runs : Shape(q)
    BY <1>1, <1>4 DEF Shape, r
  <1>6. \A q \in Runs : UpAlone(q) /\ DownAlone(q)
    BY <1>1, <1>4 DEF UpAlone, DownAlone
  <1>7. BatchesBounded /\ BatchesGrow /\ ReferencesFirst /\ DriftExplained
    BY DEF Init, BatchesBounded, BatchesGrow, ReferencesFirst, DriftExplained, Tracked
  <1> QED
    BY <1>3, <1>5, <1>6, <1>7 DEF MigrationsInv

LEMMA MigrationsStep == MigrationsInv /\ [Next]_vars => MigrationsInv'
  <1> SUFFICES ASSUME MigrationsInv, [Next]_vars PROVE MigrationsInv'
    OBVIOUS
  <1>1. ASSUME NEW p \in Runs, RunStep(p) PROVE MigrationsInv'
    BY <1>1, BeginUpKeeps, OpenTableKeeps, ReadBatchKeeps, CheckFileKeeps, ExecUpKeeps,
       TrackKeeps, BeginDownKeeps, ListBatchKeeps, ExecDownKeeps, UntrackKeeps,
       DropSchemaKeeps, CreateSchemaKeeps DEF RunStep
  <1>2. ASSUME NEW v \in Versions, AddFile(v) \/ WriteFile(v) PROVE MigrationsInv'
    <2>1. files \subseteq Versions /\ written \subseteq files /\ blank \subseteq files \ written
      BY DEF MigrationsInv, TypeOK
    <2>2. /\ files' \subseteq Versions /\ written' \subseteq files'
          /\ blank' \subseteq files' \ written'
      BY <1>2, <2>1 DEF AddFile, WriteFile
    <2> QED
      BY <1>2, <2>2, FilesKeep DEF AddFile, WriteFile
  <1>3. CASE UNCHANGED vars
    <2>1. /\ files' \subseteq Versions /\ written' \subseteq files'
          /\ blank' \subseteq files' \ written'
      BY <1>3 DEF MigrationsInv, TypeOK, vars
    <2> QED
      BY <1>3, <2>1, FilesKeep DEF vars, database
  <1> QED
    BY <1>1, <1>2, <1>3, KillKeeps DEF Next

\* MigrationsInv holds in every reachable state: however runs of the command
\* overlap, fail and are killed.
THEOREM MigrationsInvariant == Spec => []MigrationsInv
  <1> QED
    BY MigrationsInit, MigrationsStep, PTL DEF Spec

\* The tracking table keeps its keys, for any number of runs.
THEOREM TypeCorrect == Spec => []TypeOK
  <1>1. MigrationsInv => TypeOK
    BY DEF MigrationsInv
  <1> QED
    BY <1>1, MigrationsInvariant, PTL

\* The tracking table says what is in effect, except where one of the reasons
\* DriftExplained names applies: there is no other.
THEOREM DriftAlwaysExplained == Spec => []DriftExplained
  <1>1. MigrationsInv => DriftExplained
    BY DEF MigrationsInv
  <1> QED
    BY <1>1, MigrationsInvariant, PTL

-----------------------------------------------------------------------------
(* The action properties.                                                  *)

\* Only two steps take rows away, and both disturb the others.
LEMMA WhoRemovesRows ==
  ASSUME [Next]_vars
  PROVE  \/ rows \subseteq rows'
         \/ \E q \in Runs : Disturb(q) /\ (Untrack(q) \/ (run[q].pc = "idle" /\ DropSchema(q)))
  <1>1. ASSUME NEW q \in Runs, RunStep(q)
        PROVE  \/ rows \subseteq rows'
               \/ Disturb(q) /\ (Untrack(q) \/ (run[q].pc = "idle" /\ DropSchema(q)))
    <2>1. CASE Untrack(q)
      BY <2>1 DEF Untrack
    <2>2. CASE DropSchema(q)
      BY <2>2 DEF DropSchema, database
    <2>3. CASE Track(q)
      BY <2>3 DEF Track
    <2>4. CASE BeginUp(q) \/ OpenTable(q) \/ ReadBatch(q) \/ CheckFile(q) \/ BeginDown(q)
                 \/ ListBatch(q)
      BY <2>4 DEF BeginUp, OpenTable, ReadBatch, CheckFile, BeginDown, ListBatch, database
    <2>5. CASE ExecUp(q) \/ ExecDown(q) \/ CreateSchema(q)
      BY <2>5 DEF ExecUp, ExecDown, CreateSchema
    <2> QED
      BY <1>1, <2>1, <2>2, <2>3, <2>4, <2>5 DEF RunStep
  <1>2. ASSUME NEW q \in Runs, Kill(q) PROVE rows \subseteq rows'
    BY <1>2 DEF Kill, database
  <1>3. ASSUME NEW v \in Versions, AddFile(v) \/ WriteFile(v) PROVE rows \subseteq rows'
    BY <1>3 DEF AddFile, WriteFile, database
  <1>4. CASE UNCHANGED vars
    BY <1>4 DEF vars
  <1> QED
    BY <1>1, <1>2, <1>3, <1>4 DEF Next

LEMMA DisturbedGrows ==
  ASSUME [Next]_vars
  PROVE  disturbed \subseteq disturbed'
  <1>1. ASSUME NEW q \in Runs, RunStep(q) PROVE disturbed \subseteq disturbed'
    <2>1. CASE Untrack(q) \/ DropSchema(q) \/ Track(q) \/ ExecUp(q) \/ ExecDown(q)
                 \/ CreateSchema(q)
      BY <2>1 DEF Untrack, DropSchema, Track, ExecUp, ExecDown, CreateSchema, Disturb
    <2>2. CASE BeginUp(q) \/ OpenTable(q) \/ ReadBatch(q) \/ CheckFile(q) \/ BeginDown(q)
                 \/ ListBatch(q)
      BY <2>2 DEF BeginUp, OpenTable, ReadBatch, CheckFile, BeginDown, ListBatch
    <2> QED
      BY <1>1, <2>1, <2>2 DEF RunStep
  <1>2. ASSUME NEW q \in Runs, Kill(q) PROVE disturbed \subseteq disturbed'
    BY <1>2 DEF Kill
  <1>3. ASSUME NEW v \in Versions, AddFile(v) \/ WriteFile(v)
        PROVE  disturbed \subseteq disturbed'
    BY <1>3 DEF AddFile, WriteFile
  <1>4. CASE UNCHANGED vars
    BY <1>4 DEF vars
  <1> QED
    BY <1>1, <1>2, <1>3, <1>4 DEF Next

\* Only a down that passes over a migration says that it failed to.
LEMMA WhoSkips ==
  ASSUME TypeOK, [Next]_vars, NEW p \in Runs, Shape(p), run[p].kind = "down",
         NEW v \in run'[p].skipped \ run[p].skipped
  PROVE  run[p].pc = "revert" /\ run[p].todo # {} /\ v = Foremost(p)[2]
  <1> DEFINE claim == run[p].pc = "revert" /\ run[p].todo # {} /\ v = Foremost(p)[2]
  <1>0. run \in [Runs -> RunState]
    BY DEF TypeOK
  <1>1. ASSUME NEW q \in Runs, Ends(q) PROVE FALSE
    BY <1>0, <1>1 DEF Ends, Memory
  <1>2. ASSUME NEW q \in Runs, NEW pc, Goes(q, pc) PROVE FALSE
    BY <1>0, <1>2 DEF Goes, RunState
  <1>3. ASSUME NEW q \in Runs, RunStep(q) PROVE claim
    <2>1. CASE BeginUp(q)
      BY <1>0, <2>1 DEF BeginUp, RunState
    <2>2. CASE OpenTable(q)
      <3>1. CASE Ends(q)
        BY <1>1, <3>1
      <3>2. CASE run' = [run EXCEPT ![q].pc = "batch", ![q].found = files,
                                    ![q].todo = {<<w, w>> : w \in files}]
        BY <1>0, <3>2 DEF RunState
      <3> QED
        BY <2>2, <3>1, <3>2 DEF OpenTable
    <2>3. CASE ReadBatch(q)
      BY <1>0, <1>1, <2>3 DEF ReadBatch, RunState
    <2>4. CASE CheckFile(q)
      <3>1. CASE run' = [run EXCEPT ![q].todo = @ \ {Foremost(q)}]
        BY <1>0, <3>1 DEF RunState
      <3> QED
        BY <1>1, <1>2, <2>4, <3>1 DEF CheckFile
    <2>5. CASE ExecUp(q)
      <3>1. CASE run[q].pc = "exec" /\ Skip(q)
        <4>1. PICK x, next : run' = [run EXCEPT ![q].pc = next, ![q].todo = @ \ {x},
                                                ![q].skipped = @ \cup {x[2]}]
          BY <3>1 DEF Skip
        <4>2. p = q
          BY <1>0, <4>1 DEF RunState
        <4> QED
          BY <3>1, <4>2 DEF Shape
      <3> QED
        BY <1>1, <1>2, <2>5, <3>1 DEF ExecUp
    <2>6. CASE Track(q)
      BY <1>0, <2>6 DEF Track, RunState
    <2>7. CASE BeginDown(q)
      BY <1>0, <1>1, <2>7 DEF BeginDown, RunState
    <2>8. CASE ListBatch(q)
      <3>1. ASSUME NEW listed, NEW broken, List(q, listed, broken) PROVE FALSE
        <4>1. PICK found, todo : run' = [run EXCEPT ![q].pc = "revert", ![q].found = found,
                                             ![q].broken = broken, ![q].todo = todo]
          BY <3>1 DEF List
        <4> QED
          BY <1>0, <4>1 DEF RunState
      <3> QED
        BY <1>1, <2>8, <3>1 DEF ListBatch
    <2>9. CASE ExecDown(q)
      <3>1. CASE run[q].pc = "revert" /\ run[q].todo # {} /\ Skip(q)
        <4>1. PICK x : x = Foremost(q)
          OBVIOUS
        <4>2. PICK next : run' = [run EXCEPT ![q].pc = next, ![q].todo = @ \ {x},
                                             ![q].skipped = @ \cup {x[2]}]
          BY <3>1, <4>1 DEF Skip
        <4>3. p = q /\ v = x[2]
          BY <1>0, <4>2 DEF RunState
        <4> QED
          BY <3>1, <4>1, <4>3
      <3> QED
        BY <1>1, <1>2, <2>9, <3>1 DEF ExecDown
    <2>10. CASE Untrack(q)
      BY <1>0, <2>10 DEF Untrack, RunState
    <2>11. CASE DropSchema(q)
      BY <1>0, <1>1, <2>11 DEF DropSchema, RunState
    <2>12. CASE CreateSchema(q)
      BY <1>1, <1>2, <2>12 DEF CreateSchema
    <2> HIDE DEF claim
    <2> QED
      BY <1>3, <2>1, <2>2, <2>3, <2>4, <2>5, <2>6, <2>7, <2>8, <2>9, <2>10, <2>11, <2>12
         DEF RunStep
  <1>4. ASSUME NEW q \in Runs, Kill(q) PROVE FALSE
    BY <1>1, <1>4 DEF Kill
  <1>5. ASSUME NEW w \in Versions, AddFile(w) \/ WriteFile(w) PROVE FALSE
    BY <1>5 DEF AddFile, WriteFile
  <1>6. CASE UNCHANGED vars
    BY <1>6 DEF vars
  <1> QED
    BY <1>3, <1>4, <1>5, <1>6 DEF Next

LEMMA UpStep ==
  ASSUME MigrationsInv, NEW p \in Runs \ disturbed,
         run[p].pc = "check", run[p].todo = {}, NEW v \in run[p].found \ run[p].skipped
  PROVE  (Tracked(v) /\ v \in schema) \/ InDoubt(v)
  <1>1. v \in Versions
    BY DEF MigrationsInv, TypeOK, RunState
  <1>2. Tracked(v) \/ v \in drift
    BY DEF MigrationsInv, UpAlone
  <1>3. (v \in schema <=> Tracked(v)) \/ InDoubt(v)
    BY <1>1 DEF MigrationsInv, DriftExplained
  <1> QED
    BY <1>2, <1>3 DEF InDoubt

LEMMA DownStep ==
  ASSUME MigrationsInv, [Next]_vars, NEW p \in Runs \ disturbed', run[p].kind = "down"
  PROVE  /\ run[p].pc = "untrack" => \A x \in rows \ rows' :
              /\ x.batch = run[p].batch
              /\ \A y \in rows : y.batch = x.batch /\ y.id > x.id => LeftBehind(p, y.v)
         /\ run[p].pc = "revert" /\ run[p].todo = {}
            => \A x \in rows : x.batch = run[p].batch =>
                 \/ LeftBehind(p, x.v)
                 \/ run[p].broken /\ x.v \notin run[p].found
  <1>1. p \notin disturbed
    BY DisturbedGrows
  <1>2. ASSUME run[p].pc = "untrack", NEW x \in rows \ rows'
        PROVE  /\ x.batch = run[p].batch
               /\ \A y \in rows : y.batch = x.batch /\ y.id > x.id => LeftBehind(p, y.v)
    <2>1. PICK q \in Runs :
            Disturb(q) /\ (Untrack(q) \/ (run[q].pc = "idle" /\ DropSchema(q)))
      BY <1>2, WhoRemovesRows
    <2>2. q = p
      BY <1>2, <2>1 DEF Disturb, Over
    <2>3. Untrack(p)
      BY <1>2, <2>1, <2>2
    <2>4. x.id = Foremost(p)[1]
      BY <1>2, <2>3 DEF Untrack
    <2>5. /\ Foremost(p) \in run[p].todo
          /\ \A y \in run[p].todo : y[1] <= Foremost(p)[1]
          /\ \E y \in rows : y.id = Foremost(p)[1] /\ y.batch = run[p].batch
          /\ \A y \in rows : y.batch = run[p].batch => Accounted(p, y)
      BY <1>1, <1>2, RevertFacts
    <2>6. x.batch = run[p].batch
      BY <2>4, <2>5 DEF MigrationsInv, TypeOK
    <2>7. ASSUME NEW y \in rows, y.batch = x.batch, y.id > x.id PROVE LeftBehind(p, y.v)
      <3>1. y.id \in Nat /\ x.id \in Nat
        BY DEF MigrationsInv, TypeOK
      <3>2. ~(y.id <= Foremost(p)[1])
        BY <2>4, <2>7, <3>1
      <3>3. <<y.id, y.v>> \notin run[p].todo
        <4>1. <<y.id, y.v>>[1] = y.id
          OBVIOUS
        <4> QED
          BY <2>5, <3>2, <4>1
      <3>4. ~Unlisted(p, y)
        <4>1. Unlisted(p, y) => y.id < x.id
          BY <2>4, <2>5 DEF Unlisted
        <4> QED
          BY <2>7, <3>1, <4>1
      <3> QED
        BY <2>5, <2>6, <2>7, <3>3, <3>4 DEF Accounted, LeftBehind, InDoubt
    <2> QED
      BY <2>6, <2>7
  <1>3. ASSUME run[p].pc = "revert", run[p].todo = {}, NEW x \in rows,
               x.batch = run[p].batch
        PROVE  LeftBehind(p, x.v) \/ (run[p].broken /\ x.v \notin run[p].found)
    <2>1. Accounted(p, x)
      BY <1>1, <1>3, RevertFacts
    <2> QED
      BY <1>3, <2>1 DEF Accounted, Unlisted, LeftBehind, InDoubt
  <1> QED
    BY <1>2, <1>3

LEMMA OrderStep ==
  ASSUME MigrationsInv, [Next]_vars, NEW p \in Runs \ disturbed, run[p].kind = "down",
         NEW v \in run'[p].skipped \ run[p].skipped, ~InDoubt(v),
         NEW w \in Dependents(v), ~InDoubt(w)
  PROVE  w \in run[p].skipped
  <1>1. /\ TypeOK /\ run[p].pc = "revert" /\ run[p].todo # {} /\ v = Foremost(p)[2]
    BY WhoSkips DEF MigrationsInv
  <1>2. /\ Foremost(p) \in run[p].todo /\ Foremost(p) \in Nat \X Versions
        /\ \A y \in run[p].todo : y[1] <= Foremost(p)[1]
        /\ \A y \in rows : y.batch <= run[p].batch
        /\ \E y \in rows : y.id = Foremost(p)[1] /\ y.v = v /\ y.batch = run[p].batch
        /\ \A y \in rows : y.batch = run[p].batch => Accounted(p, y)
    BY <1>1, RevertFacts
  <1>3. PICK x \in rows : x.id = Foremost(p)[1] /\ x.v = v /\ x.batch = run[p].batch
    BY <1>2
  <1>4. w \in schema /\ v \in Needs[w] /\ w \in Versions
    BY <1>1 DEF Dependents, TypeOK
  <1>5. Tracked(w)
    BY <1>4 DEF MigrationsInv, DriftExplained
  <1>6. PICK y \in rows : y.v = w
    BY <1>5 DEF Tracked
  <1>7. ~Doubted(v) /\ ~Doubted(w) /\ w \notin drift
    BY <1>1, DoubtedInDoubt DEF InDoubt
  <1>8. x.id < y.id
    <2>1. PICK z \in rows : z.v = v /\ z.id < y.id
      BY <1>4, <1>6, <1>7 DEF MigrationsInv, ReferencesFirst
    <2>2. z = x
      BY <1>1, <1>3, <2>1 DEF TypeOK
    <2> QED
      BY <2>1, <2>2
  <1>9. x.batch <= y.batch
    BY <1>6, <1>7, <1>8 DEF MigrationsInv, BatchesGrow
  <1>10. x.batch \in Nat /\ y.batch \in Nat /\ x.id \in Nat /\ y.id \in Nat
    BY <1>1 DEF TypeOK
  <1>11. y.batch = run[p].batch
    <2>1. y.batch <= run[p].batch
      BY <1>2
    <2> QED
      BY <1>3, <1>9, <1>10, <2>1
  <1>12. <<y.id, y.v>> \notin run[p].todo
    <2>1. <<y.id, y.v>> \in run[p].todo => y.id <= x.id
      BY <1>2, <1>3
    <2> QED
      BY <1>8, <1>10, <2>1
  <1>13. ~Unlisted(p, y)
    <2>1. Unlisted(p, y) => y.id < x.id
      BY <1>2, <1>3 DEF Unlisted
    <2> QED
      BY <1>8, <1>10, <2>1
  <1> QED
    BY <1>2, <1>6, <1>7, <1>11, <1>12, <1>13 DEF Accounted

\* A run of up, down or fresh that nobody disturbs leaves in the database what
\* UpDelivers and DownDelivers say, whatever fails and however many others ran before:
\* an up misses empty files only, a down reverts its batch from the last migration on
\* and misses only what it reported or what a broken listing kept from it.
THEOREM CommandsDeliver == Spec => CommandDelivers
  <1>1. MigrationsInv /\ [Next]_vars =>
          \A p \in Runs \ disturbed :
            run[p].pc = "check" /\ run[p].todo = {} /\ run'[p].pc = "over"
            => \A v \in run[p].found \ run[p].skipped :
                 (Tracked(v) /\ v \in schema) \/ InDoubt(v)
    BY UpStep
  <1>2. MigrationsInv /\ [Next]_vars =>
          \A p \in Runs \ disturbed' :
            run[p].kind = "down"
            => /\ run[p].pc = "untrack" => \A x \in rows \ rows' :
                    /\ x.batch = run[p].batch
                    /\ \A y \in rows :
                         y.batch = x.batch /\ y.id > x.id => LeftBehind(p, y.v)
               /\ run[p].pc = "revert" /\ run[p].todo = {} /\ run'[p].pc = "over"
                  => \A x \in rows : x.batch = run[p].batch =>
                       \/ LeftBehind(p, x.v)
                       \/ run[p].broken /\ x.v \notin run[p].found
    BY DownStep
  <1>3. Spec => UpDelivers
    BY <1>1, MigrationsInvariant, PTL DEF Spec, UpDelivers
  <1>4. Spec => DownDelivers
    BY <1>2, MigrationsInvariant, PTL DEF Spec, DownDelivers
  <1> QED
    BY <1>3, <1>4, PTL DEF CommandDelivers

\* A down that nobody disturbs reverts what references a migration before the
\* migration, for any references between any number of versions.
THEOREM RollbacksInOrder == Spec => RollbackOrder
  <1>1. MigrationsInv /\ [Next]_vars =>
          \A p \in Runs \ disturbed : \A v \in run'[p].skipped \ run[p].skipped :
            run[p].kind = "down"
            => InDoubt(v) \/ \A w \in Dependents(v) : w \in run[p].skipped \/ InDoubt(w)
    BY OrderStep
  <1> QED
    BY <1>1, MigrationsInvariant, PTL DEF Spec, RollbackOrder

=============================================================================
