-------------------------- MODULE StateStorageProofs --------------------------
(***************************************************************************)
(* Proofs about StateStorage for any processes, resources and accounts, on *)
(* either backend.                                                         *)
(***************************************************************************)
EXTENDS StateStorage, TLAPS

\* A process is between the lock of its file and the release of it.
Writing(p) == op[p].at \in {"locked", "written", "synced", "replaced"}

\* Its new content is decided and not yet in place.
Preparing(p) == op[p].at \in {"locked", "written", "synced"}

HoldersLock == \A p \in Processes : Writing(p) => lock[op[p].file] = p

\* Requests are sent to S3 only, files are written only without it.
BackendOps ==
  \A p \in Processes : IF backend = "s3" THEN ~Writing(p) ELSE op[p].at # "sent"

\* S3 has answered for what it holds.
ObjectFirm == backend = "s3" => durable["baseline"] = {baseline}

\* What was checked under the lock still holds when the file is replaced.
StillMatches ==
  \A p \in Processes : op[p].file = "baseline" /\ Preparing(p) => Matches(p)

\* What was replaced is in place until the lock is released.
InPlace ==
  \A p \in Processes : op[p].at = "replaced" =>
    IF op[p].file = "baseline" THEN baseline = op[p].content
                               ELSE removed \/ flags = op[p].content

\* A mark about to be written keeps every flag of the file.
MarkGrows ==
  \A p \in Processes : op[p].does = "mark" /\ Preparing(p) =>
    removed \/ flags = Absent \/ flags \subseteq op[p].content

OnDisk == baseline \in durable["baseline"] /\ flags \in durable["flags"]

\* The inductive invariant.  The promises about the content rest on the lock: what its
\* holder has checked or read is what it replaces.
StorageInv ==
  /\ TypeOK /\ HoldersLock /\ BackendOps /\ ObjectFirm /\ StillMatches /\ InPlace
  /\ MarkGrows /\ OnDisk /\ NeverTorn /\ SavedSurvives /\ MarkedStaysMarked

LEMMA IdleOp == Idle \in Ops /\ Idle.at = "idle" /\ Idle.file = "baseline" /\ Idle.does = "none"
BY DEF Idle, Ops

\* The step of a write keeps all of it but where it is.
LEMMA WriterStep ==
  ASSUME NEW o \in Ops, o.at \in {"locked", "written", "synced"},
         NEW s \in {"written", "synced", "replaced"}
  PROVE  [o EXCEPT !.at = s] \in Ops
BY DEF Ops, Idle

LEMMA InitStorageInv == Init => StorageInv
<1> SUFFICES ASSUME Init PROVE StorageInv
  OBVIOUS
<1>1. TypeOK
  BY IdleOp DEF Init, TypeOK, Files, Contents, Flags
<1>2. HoldersLock /\ BackendOps /\ StillMatches /\ InPlace /\ MarkGrows
  BY IdleOp DEF Init, HoldersLock, BackendOps, StillMatches, InPlace, MarkGrows, Writing, Preparing
<1>3. ObjectFirm /\ OnDisk /\ NeverTorn /\ SavedSurvives /\ MarkedStaysMarked
  BY StorageAssumption DEF Init, ObjectFirm, OnDisk, NeverTorn, SavedSurvives, MarkedStaysMarked, Files
<1>. QED  BY <1>1, <1>2, <1>3 DEF StorageInv

-----------------------------------------------------------------------------
(* The lock decides: one lemma for each kind of step. *)

\* A process that is idle takes the free lock of a file and decides on a content.
LEMMA TakeLock ==
  ASSUME StorageInv, NEW p \in Processes, NEW o \in Ops, op[p] = Idle, Unlocked(o.file),
         o.at = "locked", backend = "local",
         lock' = [lock EXCEPT ![o.file] = p], op' = [op EXCEPT ![p] = o],
         UNCHANGED <<backend, baseline, flags, durable, etag, ghosts>>,
         o.file = "baseline" => Matches(p),
         o.does = "mark" => flags = Absent \/ flags \subseteq o.content
  PROVE  StorageInv'
<1>. USE DEF StorageInv, ghosts
<1>1. o.file \in Files
  BY DEF Ops, Idle, Files
<1>2. op'[p] = o /\ \A q \in Processes \ {p} : op'[q] = op[q] /\ lock[o.file] # q
  BY StorageAssumption DEF TypeOK, Unlocked
<1>3. TypeOK'
  <2>1. op' \in [Processes -> Ops] /\ lock' \in [Files -> {Free} \cup Processes]
    BY <1>1 DEF TypeOK
  <2>2. \A f \in Files : lock'[f] # Free => op'[lock'[f]].at \notin {"idle", "sent"} /\ op'[lock'[f]].file = f
    <3> SUFFICES ASSUME NEW f \in Files, lock'[f] # Free
                 PROVE  op'[lock'[f]].at \notin {"idle", "sent"} /\ op'[lock'[f]].file = f
      OBVIOUS
    <3>1. CASE f = o.file
      BY <1>1, <1>2, <3>1 DEF TypeOK
    <3>2. CASE f # o.file
      <4>1. lock'[f] = lock[f] /\ lock[f] \in Processes
        BY <1>1, <3>2 DEF TypeOK
      <4>2. lock[f] # p
        BY <4>1, IdleOp DEF TypeOK
      <4>. QED  BY <1>2, <4>1, <4>2 DEF TypeOK
    <3>. QED  BY <3>1, <3>2
  <2>. QED  BY <2>1, <2>2 DEF TypeOK
<1>4. HoldersLock'
  <2>1. \A q \in Processes \ {p} : Writing(q) => op[q].file # o.file
    BY <1>2 DEF HoldersLock
  <2>2. \A q \in Processes \ {p} : op[q].file \in Files
    BY IdleOp DEF TypeOK, Ops, Files
  <2>. QED  BY <1>1, <1>2, <2>1, <2>2 DEF HoldersLock, Writing, TypeOK
<1>5. BackendOps' /\ StillMatches' /\ InPlace' /\ MarkGrows'
  BY <1>2 DEF BackendOps, StillMatches, InPlace, MarkGrows, Writing, Preparing, Matches
<1>6. ObjectFirm' /\ OnDisk' /\ NeverTorn' /\ SavedSurvives' /\ MarkedStaysMarked'
  BY DEF ObjectFirm, OnDisk, NeverTorn, SavedSurvives, MarkedStaysMarked
<1>. QED  BY <1>3, <1>4, <1>5, <1>6

\* A write goes on to its next step before the rename.
LEMMA Prepare ==
  ASSUME StorageInv, NEW p \in Processes, NEW s \in {"written", "synced"},
         op[p].at \in {"locked", "written"}, op' = [op EXCEPT ![p].at = s],
         UNCHANGED <<backend, baseline, flags, durable, lock, etag, ghosts>>
  PROVE  StorageInv'
<1>. USE DEF StorageInv, ghosts
<1>1. op[p] \in Ops /\ op'[p] = [op[p] EXCEPT !.at = s] /\ op'[p] \in Ops
  BY WriterStep DEF TypeOK
<1>2. /\ op'[p].at = s /\ op'[p].file = op[p].file /\ op'[p].does = op[p].does
      /\ op'[p].content = op[p].content
      /\ \A q \in Processes \ {p} : op'[q] = op[q]
  BY <1>1 DEF TypeOK, Ops, Idle
<1>3. TypeOK'
  BY <1>1, <1>2 DEF TypeOK
<1>4. HoldersLock' /\ BackendOps' /\ StillMatches' /\ InPlace' /\ MarkGrows'
  BY <1>2 DEF HoldersLock, BackendOps, StillMatches, InPlace, MarkGrows, Writing, Preparing, Matches
<1>5. ObjectFirm' /\ OnDisk' /\ NeverTorn' /\ SavedSurvives' /\ MarkedStaysMarked'
  BY DEF ObjectFirm, OnDisk, NeverTorn, SavedSurvives, MarkedStaysMarked
<1>. QED  BY <1>3, <1>4, <1>5

\* No other process is at the file whose lock `p' holds.
LEMMA Alone ==
  ASSUME StorageInv, NEW p \in Processes, Writing(p)
  PROVE  \A q \in Processes \ {p} : Writing(q) => op[q].file # op[p].file
BY DEF StorageInv, HoldersLock, TypeOK

\* The rename puts in place what was prepared.
LEMMA ReplaceKeeps ==
  ASSUME StorageInv, NEW p \in Processes, Replace(p)
  PROVE  StorageInv'
<1>. USE DEF StorageInv
<1>. DEFINE f == op[p].file
            c == op[p].content
<1>1. op[p].at = "synced" /\ op[p] \in Ops
  BY DEF Replace, MayReplace, TypeOK
<1>2. f \in Files /\ backend = "local" /\ lock[f] = p
  BY <1>1 DEF Ops, Idle, Files, HoldersLock, BackendOps, Writing, TypeOK
<1>3. /\ op' = [op EXCEPT ![p].at = "replaced"]
      /\ durable' = [durable EXCEPT ![f] = @ \cup {c}]
      /\ baseline' = IF f = "baseline" THEN c ELSE baseline
      /\ flags' = IF f = "flags" THEN c ELSE flags
      /\ saved' = IF f = "baseline" THEN Unseen ELSE saved
      /\ marked' = IF f = "flags" /\ op[p].does # "mark" THEN marked \cap c ELSE marked
      /\ UNCHANGED <<backend, lock, etag, removed>>
  BY <1>1 DEF Replace
<1>4. /\ op'[p] \in Ops /\ op'[p].at = "replaced" /\ op'[p].file = f
      /\ op'[p].does = op[p].does /\ op'[p].content = c
      /\ \A q \in Processes \ {p} : op'[q] = op[q]
  BY <1>1, <1>3, WriterStep DEF TypeOK, Ops, Idle
<1>5. /\ f = "baseline" => c \in Contents
      /\ f = "flags" => c \in Flags
  BY <1>1 DEF Ops, Idle
<1>6. TypeOK'
  <2>1. /\ DOMAIN durable' = Files
        /\ durable'["baseline"] \subseteq {Absent, Torn} \cup Contents
        /\ durable'["flags"] \subseteq {Absent, Torn} \cup Flags
    BY <1>2, <1>3, <1>5 DEF TypeOK, Files
  <2>2. /\ baseline' \in {Absent, Torn} \cup Contents /\ flags' \in {Absent, Torn} \cup Flags
        /\ saved' \in {Unseen} \cup Contents /\ marked' \in Flags
    BY <1>3, <1>5 DEF TypeOK, Flags
  <2>3. op' \in [Processes -> Ops]
    BY <1>3, <1>4 DEF TypeOK
  <2>4. \A g \in Files : lock'[g] # Free => op'[lock'[g]].at \notin {"idle", "sent"} /\ op'[lock'[g]].file = g
    BY <1>3, <1>4 DEF TypeOK
  <2>. QED  BY <1>3, <2>1, <2>2, <2>3, <2>4 DEF TypeOK
<1>7. HoldersLock' /\ BackendOps'
  BY <1>1, <1>2, <1>3, <1>4 DEF HoldersLock, BackendOps, Writing
<1>8. \A q \in Processes \ {p} : Writing(q) => op[q].file # f
  BY <1>1, Alone DEF Writing
<1>9. StillMatches' /\ InPlace' /\ MarkGrows'
  <2>1. \A q \in Processes \ {p} : Preparing(q) => Writing(q)
    BY DEF Preparing, Writing
  <2>2. StillMatches'
    BY <1>3, <1>4, <1>8, <2>1 DEF StillMatches, Preparing, Matches
  <2>3. InPlace'
    <3>1. \A q \in Processes : op[q].file \in Files
      BY DEF TypeOK, Ops, Idle, Files
    <3>. QED  BY <1>2, <1>3, <1>4, <1>8, <3>1 DEF InPlace, Writing, Files
  <2>4. MarkGrows'
    <3>1. \A q \in Processes : op[q].does = "mark" => op[q].file = "flags"
      BY DEF TypeOK, Ops, Idle
    <3>. QED  BY <1>3, <1>4, <1>8, <2>1, <3>1 DEF MarkGrows, Preparing
  <2>. QED  BY <2>2, <2>3, <2>4
<1>10. ObjectFirm' /\ OnDisk' /\ NeverTorn' /\ SavedSurvives'
  <2>1. c # Torn
    BY <1>2, <1>5, StorageAssumption DEF Files
  <2>. QED  BY <1>2, <1>3, <2>1 DEF ObjectFirm, OnDisk, NeverTorn, SavedSurvives, Files, TypeOK
<1>11. MarkedStaysMarked'
  <2>1. CASE f = "baseline"
    BY <1>3, <2>1 DEF MarkedStaysMarked, Files, TypeOK
  <2>2. CASE f = "flags" /\ ~removed /\ marked' # {}
    <3>1. marked' \subseteq marked /\ marked # {}
      BY <1>3, <2>2
    <3>2. \A d \in {flags} \cup durable["flags"] : d \notin {Absent, Torn} /\ marked \subseteq d
      BY <2>2, <3>1 DEF MarkedStaysMarked
    <3>3. marked' \subseteq c
      BY <1>1, <1>3, <2>2, <3>2 DEF MarkGrows, Preparing
    <3>4. c \notin {Absent, Torn}
      BY <1>5, <2>2, StorageAssumption
    <3>5. {flags'} \cup durable'["flags"] \subseteq {flags, c} \cup durable["flags"]
      BY <1>3, <2>2 DEF TypeOK, Files
    <3>. QED  BY <3>1, <3>2, <3>3, <3>4, <3>5 DEF MarkedStaysMarked
  <2>. QED  BY <1>2, <1>3, <2>1, <2>2 DEF MarkedStaysMarked, Files
<1>. QED  BY <1>6, <1>7, <1>9, <1>10, <1>11

\* The directory is flushed and the lock released.
LEMMA FinishKeeps ==
  ASSUME StorageInv, NEW p \in Processes, FinishWrite(p)
  PROVE  StorageInv'
<1>. USE DEF StorageInv
<1>. DEFINE f == op[p].file
<1>1. op[p].at = "replaced" /\ op[p] \in Ops /\ Writing(p)
  BY DEF FinishWrite, TypeOK, Writing
<1>2. f \in Files /\ backend = "local" /\ lock[f] = p
  BY <1>1 DEF Ops, Idle, Files, HoldersLock, BackendOps, TypeOK
<1>3. /\ op' = [op EXCEPT ![p] = Idle] /\ lock' = [lock EXCEPT ![f] = Free]
      /\ UNCHANGED <<backend, baseline, flags, removed>>
  BY DEF FinishWrite
<1>4. op'[p] = Idle /\ \A q \in Processes \ {p} : op'[q] = op[q]
  BY <1>3 DEF TypeOK
<1>5. CASE f = "baseline"
  <2>1. /\ baseline = op[p].content /\ op[p].content \in Contents
        /\ durable' = [durable EXCEPT !["baseline"] = {baseline}]
        /\ etag' = [etag EXCEPT ![p] = op[p].content]
        /\ saved' = op[p].content /\ marked' = marked
    BY <1>1, <1>5 DEF FinishWrite, Settled, Answered, InPlace, Ops, Idle
  <2>2. TypeOK'
    <3>1. op' \in [Processes -> Ops] /\ lock' \in [Files -> {Free} \cup Processes]
      BY <1>2, <1>3, IdleOp DEF TypeOK
    <3>2. \A g \in Files : lock'[g] # Free => op'[lock'[g]].at \notin {"idle", "sent"} /\ op'[lock'[g]].file = g
      BY <1>2, <1>3, <1>4 DEF TypeOK
    <3>. QED  BY <1>3, <2>1, <3>1, <3>2 DEF TypeOK, Files
  <2>3. HoldersLock' /\ BackendOps' /\ StillMatches' /\ InPlace' /\ MarkGrows'
    <3>1. \A q \in Processes : Preparing(q) => Writing(q)
      BY DEF Preparing, Writing
    <3>. QED
      BY <1>1, <1>2, <1>3, <1>4, <1>5, <2>1, <3>1, Alone, IdleOp
      DEF HoldersLock, BackendOps, StillMatches, InPlace, MarkGrows, Writing, Preparing, Matches, TypeOK
  <2>4. ObjectFirm' /\ OnDisk' /\ NeverTorn' /\ SavedSurvives' /\ MarkedStaysMarked'
    BY <1>3, <2>1, StorageAssumption
    DEF ObjectFirm, OnDisk, NeverTorn, SavedSurvives, MarkedStaysMarked, Files, TypeOK
  <2>. QED  BY <2>2, <2>3, <2>4
<1>6. CASE f = "flags"
  <2>1. /\ removed \/ flags = op[p].content
        /\ op[p].content \in Flags
        /\ durable' = [durable EXCEPT !["flags"] = {flags}]
        /\ marked' = IF op[p].does = "mark" THEN marked \cup op[p].content ELSE marked
        /\ UNCHANGED <<etag, saved>>
    BY <1>1, <1>6 DEF FinishWrite, Settled, InPlace, Ops, Idle
  <2>2. TypeOK'
    <3>1. op' \in [Processes -> Ops] /\ lock' \in [Files -> {Free} \cup Processes]
      BY <1>2, <1>3, IdleOp DEF TypeOK
    <3>2. \A g \in Files : lock'[g] # Free => op'[lock'[g]].at \notin {"idle", "sent"} /\ op'[lock'[g]].file = g
      BY <1>2, <1>3, <1>4 DEF TypeOK
    <3>. QED  BY <1>3, <2>1, <3>1, <3>2 DEF TypeOK, Files, Flags
  <2>3. HoldersLock' /\ BackendOps' /\ StillMatches' /\ InPlace' /\ MarkGrows'
    <3>1. \A q \in Processes : Preparing(q) => Writing(q)
      BY DEF Preparing, Writing
    <3>. QED
      BY <1>1, <1>2, <1>3, <1>4, <2>1, <3>1, Alone, IdleOp
      DEF HoldersLock, BackendOps, StillMatches, InPlace, MarkGrows, Writing, Preparing, Matches, TypeOK
  <2>4. ObjectFirm' /\ OnDisk' /\ NeverTorn' /\ SavedSurvives'
    BY <1>3, <2>1 DEF ObjectFirm, OnDisk, NeverTorn, SavedSurvives, Files, TypeOK
  <2>5. MarkedStaysMarked'
    BY <1>3, <2>1, StorageAssumption DEF MarkedStaysMarked, Files, TypeOK
  <2>. QED  BY <2>2, <2>3, <2>4, <2>5
<1>. QED  BY <1>2, <1>5, <1>6 DEF Files

\* A process that ends leaves the files as they are, and no lock.
LEMMA StoppedKeeps ==
  ASSUME StorageInv, NEW p \in Processes, Stopped(p)
  PROVE  StorageInv'
<1>. USE DEF StorageInv, ghosts
<1>1. op'[p] = Idle /\ \A q \in Processes \ {p} : op'[q] = op[q] /\ etag'[q] = etag[q]
  BY DEF Stopped, TypeOK
<1>2. TypeOK'
  <2>1. op' \in [Processes -> Ops] /\ etag' \in [Processes -> {Unseen, Torn} \cup Contents]
    BY IdleOp DEF Stopped, TypeOK
  <2>2. lock' \in [Files -> {Free} \cup Processes]
    BY DEF Stopped, HolderAfter, TypeOK
  <2>3. \A g \in Files : lock'[g] # Free => op'[lock'[g]].at \notin {"idle", "sent"} /\ op'[lock'[g]].file = g
    BY <1>1 DEF Stopped, HolderAfter, TypeOK
  <2>. QED  BY <2>1, <2>2, <2>3 DEF Stopped, TypeOK
<1>3. HoldersLock' /\ BackendOps' /\ StillMatches' /\ InPlace' /\ MarkGrows'
  <2>1. \A q \in Processes \ {p} : Writing(q) => lock'[op[q].file] = q
    <3>1. \A q \in Processes : Writing(q) => op[q].file \in Files
      BY DEF TypeOK, Ops, Idle, Files, Writing
    <3>. QED  BY <3>1 DEF Stopped, HolderAfter, HoldersLock, TypeOK
  <2>. QED
    BY <1>1, <2>1, IdleOp
    DEF Stopped, HoldersLock, BackendOps, StillMatches, InPlace, MarkGrows, Writing, Preparing, Matches
<1>4. ObjectFirm' /\ OnDisk' /\ NeverTorn' /\ SavedSurvives' /\ MarkedStaysMarked'
  BY DEF Stopped, ObjectFirm, OnDisk, NeverTorn, SavedSurvives, MarkedStaysMarked
<1>. QED  BY <1>2, <1>3, <1>4

\* After a crash every file has a content that was possible, and nobody works on it.
LEMMA CrashKeeps == StorageInv /\ Crash => StorageInv'
<1> SUFFICES ASSUME StorageInv, Crash PROVE StorageInv'
  OBVIOUS
<1>. USE DEF StorageInv, ghosts
<1>1. \A q \in Processes : op'[q] = Idle /\ etag'[q] = Unseen
  BY DEF Crash
<1>2. baseline' \in durable["baseline"] /\ flags' \in durable["flags"]
  BY DEF Crash
<1>3. durable'["baseline"] = {baseline'} /\ durable'["flags"] = {flags'} /\ DOMAIN durable' = Files
  BY DEF Crash, Files
<1>4. TypeOK'
  BY <1>2, <1>3, IdleOp DEF Crash, TypeOK, Files
<1>5. HoldersLock' /\ BackendOps' /\ StillMatches' /\ InPlace' /\ MarkGrows'
  BY <1>1, IdleOp DEF HoldersLock, BackendOps, StillMatches, InPlace, MarkGrows, Writing, Preparing
<1>6. NeverTorn'
  BY <1>2, <1>3 DEF NeverTorn, Files
<1>7. SavedSurvives' /\ ObjectFirm' /\ OnDisk'
  BY <1>2, <1>3 DEF Crash, SavedSurvives, ObjectFirm, OnDisk
<1>8. MarkedStaysMarked'
  BY <1>2, <1>3 DEF Crash, MarkedStaysMarked
<1>. QED  BY <1>4, <1>5, <1>6, <1>7, <1>8

\* Whatever S3 holds has been answered or is being answered for, and no file is written.
LEMMA PutKeeps ==
  ASSUME StorageInv, NEW p \in Processes, NEW c \in Contents, Put(p, c), backend = "s3",
         op' \in [Processes -> Ops], \A q \in Processes : op'[q].at \in {"idle", "sent"},
         UNCHANGED <<backend, flags, lock, etag, marked, removed>>
  PROVE  StorageInv'
<1>. USE DEF StorageInv
<1>1. /\ baseline' = c /\ saved' = Unseen
      /\ durable'["baseline"] = {c} /\ durable'["flags"] = durable["flags"]
      /\ DOMAIN durable' = Files
  BY DEF Put, TypeOK, Files
<1>2. \A f \in Files : lock[f] = Free
  BY DEF BackendOps, HoldersLock, Writing, TypeOK, Ops, Idle
<1>3. TypeOK'
  BY <1>1, <1>2 DEF TypeOK
<1>4. HoldersLock' /\ BackendOps' /\ StillMatches' /\ InPlace' /\ MarkGrows'
  BY DEF HoldersLock, BackendOps, StillMatches, InPlace, MarkGrows, Writing, Preparing
<1>5. ObjectFirm' /\ OnDisk' /\ NeverTorn' /\ SavedSurvives' /\ MarkedStaysMarked'
  BY <1>1, StorageAssumption
  DEF ObjectFirm, OnDisk, NeverTorn, SavedSurvives, MarkedStaysMarked, Files
<1>. QED  BY <1>3, <1>4, <1>5

\* The other steps on S3 end a request.
LEMMA AnswerKeeps ==
  ASSUME StorageInv, NEW p \in Processes,
         AnswerS3(p) \/ (RetryS3(p) /\ op' = [op EXCEPT ![p] = Idle] /\ UNCHANGED <<baseline, durable, saved>>)
  PROVE  StorageInv'
<1>. USE DEF StorageInv
<1>1. /\ op[p].at = "sent" /\ op[p].content \in Contents
      /\ op' = [op EXCEPT ![p] = Idle] /\ etag' \in {etag, [etag EXCEPT ![p] = op[p].content]}
      /\ saved' = saved \/ (saved' = baseline /\ baseline = op[p].content)
      /\ UNCHANGED <<backend, baseline, flags, durable, lock, marked, removed>>
  BY DEF AnswerS3, RetryS3, Answered, TypeOK, Ops, Idle
<1>2. backend = "s3" /\ \A f \in Files : lock[f] = Free
  BY <1>1 DEF BackendOps, HoldersLock, Writing, TypeOK, Ops, Idle
<1>3. \A q \in Processes : op'[q] \in {op[q], Idle} /\ op'[q].at \in {"idle", "sent"}
  BY <1>1, <1>2, IdleOp DEF BackendOps, Writing, TypeOK, Ops
<1>4. TypeOK'
  <2>1. op' \in [Processes -> Ops] /\ etag' \in [Processes -> {Unseen, Torn} \cup Contents]
    BY <1>1, IdleOp DEF TypeOK
  <2>2. saved' \in {Unseen} \cup Contents
    BY <1>1 DEF TypeOK
  <2>. QED  BY <1>1, <1>2, <2>1, <2>2 DEF TypeOK
<1>5. HoldersLock' /\ BackendOps' /\ StillMatches' /\ InPlace' /\ MarkGrows'
  BY <1>3, <1>1, <1>2 DEF HoldersLock, BackendOps, StillMatches, InPlace, MarkGrows, Writing, Preparing
<1>6. ObjectFirm' /\ OnDisk' /\ NeverTorn' /\ SavedSurvives' /\ MarkedStaysMarked'
  BY <1>1, <1>2 DEF ObjectFirm, OnDisk, NeverTorn, SavedSurvives, MarkedStaysMarked
<1>. QED  BY <1>4, <1>5, <1>6

\* A load and a deletion happen while nobody holds the lock of the baseline.
LEMMA LoadDeleteKeeps ==
  ASSUME StorageInv, NEW p \in Processes, LoadSnapshot(p) \/ DeleteSnapshot(p)
  PROVE  StorageInv'
<1>. USE DEF StorageInv, ghosts
<1>1. op[p] = Idle /\ lock["baseline"] = Free /\ baseline # Absent
  BY DEF LoadSnapshot, DeleteSnapshot, Unlocked
<1>2. \A q \in Processes : Writing(q) => op[q].file # "baseline"
  BY <1>1, StorageAssumption DEF HoldersLock
<1>3. \A q \in Processes : Preparing(q) => Writing(q)
  BY DEF Preparing, Writing
<1>4. CASE LoadSnapshot(p)
  <2>1. TypeOK'
    BY <1>1, <1>4 DEF LoadSnapshot, TypeOK
  <2>2. HoldersLock' /\ BackendOps' /\ StillMatches' /\ InPlace' /\ MarkGrows'
    BY <1>2, <1>3, <1>4
    DEF LoadSnapshot, HoldersLock, BackendOps, StillMatches, InPlace, MarkGrows, Writing, Preparing
  <2>3. ObjectFirm' /\ OnDisk' /\ NeverTorn' /\ SavedSurvives' /\ MarkedStaysMarked'
    BY <1>4 DEF LoadSnapshot, ObjectFirm, OnDisk, NeverTorn, SavedSurvives, MarkedStaysMarked
  <2>. QED  BY <2>1, <2>2, <2>3
<1>5. CASE DeleteSnapshot(p)
  <2>1. TypeOK'
    BY <1>5 DEF DeleteSnapshot, TypeOK, Files
  <2>2. HoldersLock' /\ BackendOps' /\ StillMatches' /\ InPlace' /\ MarkGrows'
    BY <1>2, <1>3, <1>5
    DEF DeleteSnapshot, HoldersLock, BackendOps, StillMatches, InPlace, MarkGrows, Writing, Preparing
  <2>3. ObjectFirm' /\ OnDisk' /\ NeverTorn' /\ SavedSurvives' /\ MarkedStaysMarked'
    BY <1>5, StorageAssumption
    DEF DeleteSnapshot, ObjectFirm, OnDisk, NeverTorn, SavedSurvives, MarkedStaysMarked, Files, TypeOK
  <2>. QED  BY <2>1, <2>2, <2>3
<1>. QED  BY <1>4, <1>5

\* Without its flags file, nothing is promised of the flags any more.
LEMMA LoseKeeps == StorageInv /\ LoseFlags => StorageInv'
<1> SUFFICES ASSUME StorageInv, LoseFlags PROVE StorageInv'
  OBVIOUS
<1>. USE DEF StorageInv
<1>1. TypeOK'
  BY DEF LoseFlags, TypeOK, Files
<1>2. HoldersLock' /\ BackendOps' /\ StillMatches' /\ InPlace' /\ MarkGrows'
  BY DEF LoseFlags, HoldersLock, BackendOps, StillMatches, InPlace, MarkGrows, Writing, Preparing, Matches
<1>3. ObjectFirm' /\ OnDisk' /\ NeverTorn' /\ SavedSurvives' /\ MarkedStaysMarked'
  BY StorageAssumption
  DEF LoseFlags, ObjectFirm, OnDisk, NeverTorn, SavedSurvives, MarkedStaysMarked, Files, TypeOK
<1>. QED  BY <1>1, <1>2, <1>3
-----------------------------------------------------------------------------

LEMMA NextStorageInv == StorageInv /\ [Next]_vars => StorageInv'
<1> SUFFICES ASSUME StorageInv, [Next]_vars PROVE StorageInv'
  OBVIOUS
<1>1. ASSUME NEW p \in Processes, LoadSnapshot(p) \/ DeleteSnapshot(p) PROVE StorageInv'
  BY <1>1, LoadDeleteKeeps
<1>2. ASSUME NEW p \in Processes, SaveLocal(p) PROVE StorageInv'
  <2>1. PICK c \in Contents :
          op' = [op EXCEPT ![p] = [at |-> "locked", file |-> "baseline", does |-> "save", content |-> c]]
    BY <1>2 DEF SaveLocal
  <2>. DEFINE o == [at |-> "locked", file |-> "baseline", does |-> "save", content |-> c]
  <2>2. o \in Ops
    BY DEF Ops
  <2>3. /\ backend = "local" /\ op[p] = Idle /\ Unlocked(o.file) /\ Matches(p)
        /\ lock' = [lock EXCEPT ![o.file] = p]
        /\ UNCHANGED <<backend, baseline, flags, durable, etag, ghosts>>
    BY <1>2 DEF SaveLocal
  <2>4. op' = [op EXCEPT ![p] = o] /\ o.at = "locked" /\ o.does # "mark"
    BY <2>1
  <2>. HIDE DEF o
  <2>. QED  BY <2>2, <2>3, <2>4, TakeLock
<1>3. ASSUME NEW p \in Processes, NEW does \in {"mark", "clear", "initialize"},
             NEW content \in Flags, ChangeFlags(p, does, content),
             does = "mark" => flags = Absent \/ flags \subseteq content
      PROVE  StorageInv'
  <2>. DEFINE o == [at |-> "locked", file |-> "flags", does |-> does, content |-> content]
  <2>1. o \in Ops
    BY DEF Ops
  <2>2. /\ backend = "local" /\ op[p] = Idle /\ Unlocked(o.file)
        /\ lock' = [lock EXCEPT ![o.file] = p] /\ op' = [op EXCEPT ![p] = o]
        /\ UNCHANGED <<backend, baseline, flags, durable, etag, ghosts>>
    BY <1>3 DEF ChangeFlags
  <2>3. o.at = "locked" /\ o.file # "baseline" /\ o.does = does /\ o.content = content
    OBVIOUS
  <2>. HIDE DEF o
  <2>. QED  BY <1>3, <2>1, <2>2, <2>3, TakeLock
<1>4. ASSUME NEW p \in Processes, Mark(p) PROVE StorageInv'
  <2>1. PICK a \in Accounts : ChangeFlags(p, "mark", (IF flags = Absent THEN {} ELSE flags) \cup {a})
    BY <1>4 DEF Mark
  <2>2. flags = Absent \/ flags \in Flags
    BY <1>4 DEF Mark, StorageInv, TypeOK
  <2>3. (IF flags = Absent THEN {} ELSE flags) \cup {a} \in Flags
    BY <2>2 DEF Flags
  <2>. QED  BY <1>3, <2>1, <2>3
<1>5. ASSUME NEW p \in Processes, Clear(p) PROVE StorageInv'
  <2>1. PICK a \in Accounts : ChangeFlags(p, "clear", flags \ {a})
    BY <1>5 DEF Clear
  <2>2. flags \ {a} \in Flags
    BY <1>5 DEF Clear, StorageInv, TypeOK, Flags
  <2>. QED  BY <1>3, <2>1, <2>2
<1>6. ASSUME NEW p \in Processes, Initialize(p) PROVE StorageInv'
  BY <1>3, <1>6 DEF Initialize, Flags
<1>7. ASSUME NEW p \in Processes, WriteTemporary(p) \/ FlushTemporary(p) PROVE StorageInv'
  BY <1>7, Prepare DEF WriteTemporary, FlushTemporary
<1>8. ASSUME NEW p \in Processes, SaveS3(p) PROVE StorageInv'
  <2>1. PICK c \in Contents :
          /\ Put(p, c)
          /\ op' = [op EXCEPT ![p] = [at |-> "sent", file |-> "baseline", does |-> "save", content |-> c]]
    BY <1>8 DEF SaveS3
  <2>2. op' \in [Processes -> Ops] /\ \A q \in Processes : op'[q].at \in {"idle", "sent"}
    BY <1>8, <2>1 DEF SaveS3, StorageInv, TypeOK, BackendOps, Writing, Ops, Idle
  <2>. QED  BY <1>8, <2>1, <2>2, PutKeeps DEF SaveS3
<1>9. ASSUME NEW p \in Processes, AnswerS3(p) \/ RetryS3(p) PROVE StorageInv'
  <2>1. CASE RetryS3(p) /\ Put(p, op[p].content) /\ UNCHANGED op
    <3>1. backend = "s3" /\ op[p].content \in Contents
      BY <2>1 DEF RetryS3, StorageInv, TypeOK, BackendOps, Ops, Idle
    <3>2. op' \in [Processes -> Ops] /\ \A q \in Processes : op'[q].at \in {"idle", "sent"}
      BY <2>1, <3>1 DEF StorageInv, TypeOK, BackendOps, Writing, Ops, Idle
    <3>. QED  BY <2>1, <3>1, <3>2, PutKeeps DEF RetryS3
  <2>. QED  BY <1>9, <2>1, AnswerKeeps DEF RetryS3
<1>10. ASSUME NEW p \in Processes, Replace(p) \/ FinishWrite(p) \/ Stopped(p) PROVE StorageInv'
  BY <1>10, ReplaceKeeps, FinishKeeps, StoppedKeeps
<1>11. CASE UNCHANGED vars
  BY <1>11
  DEF vars, ghosts, StorageInv, TypeOK, HoldersLock, BackendOps, ObjectFirm, StillMatches, InPlace,
      MarkGrows, OnDisk, NeverTorn, SavedSurvives, MarkedStaysMarked, Writing, Preparing, Matches
<1>. QED
  BY <1>1, <1>2, <1>4, <1>5, <1>6, <1>7, <1>8, <1>9, <1>10, <1>11, CrashKeeps, LoseKeeps DEF Next

THEOREM StorageInvariant == Spec => []StorageInv
BY InitStorageInv, NextStorageInv, PTL DEF Spec

\* Every variable keeps its type, and no lock outlives the write it was taken for.
THEOREM StorageTypes == Spec => []TypeOK
BY StorageInvariant, PTL DEF StorageInv

\* Whatever is interrupted, no file is left whose content never reached the disk.
THEOREM FilesNeverTorn == Spec => []NeverTorn
BY StorageInvariant, PTL DEF StorageInv

\* A baseline whose save returned survives every crash until it is replaced or deleted.
THEOREM SavesSurvive == Spec => []SavedSurvives
BY StorageInvariant, PTL DEF StorageInv

\* A flag whose mark returned is kept by every other change of the file.
THEOREM MarksSurvive == Spec => []MarkedStaysMarked
BY StorageInvariant, PTL DEF StorageInv

-----------------------------------------------------------------------------
(* The baseline implements SnapshotRegister. *)

\* The operations that only prepare a write, or that are about the flags, do not show.
LEMMA PlacingOf ==
  ASSUME StorageInv, NEW p \in Processes, NEW o \in Ops, op' = [op EXCEPT ![p] = o]
  PROVE  Placing' = [Placing EXCEPT ![p] =
           IF o.file = "baseline" /\ o.at \in {"replaced", "sent"} THEN o.content ELSE Unseen]
BY DEF Placing, StorageInv, TypeOK

LEMMA StepRefines == StorageInv /\ StorageInv' /\ [Next]_vars => [Register!Next]_(Register!vars)
<1> SUFFICES ASSUME StorageInv, StorageInv', [Next]_vars PROVE [Register!Next]_(Register!vars)
  OBVIOUS
<1>. USE DEF ghosts
<1>1. ASSUME UNCHANGED <<baseline, etag>>, durable'["baseline"] = durable["baseline"],
             Placing' = Placing
      PROVE  UNCHANGED Register!vars
  BY <1>1 DEF Register!vars
<1>2. ASSUME NEW p \in Processes, NEW o \in Ops, op' = [op EXCEPT ![p] = o],
             op[p].file = "flags" \/ op[p].at \notin {"replaced", "sent"},
             o.file = "flags" \/ o.at \notin {"replaced", "sent"}
      PROVE  Placing' = Placing
  BY <1>2 DEF Placing, StorageInv, TypeOK
<1>3. ASSUME NEW p \in Processes, LoadSnapshot(p) PROVE Register!Next
  <2>1. Placing' = Placing
    BY <1>3 DEF LoadSnapshot, Placing
  <2>. QED  BY <1>3, <2>1 DEF LoadSnapshot, Register!Next, Register!Load
<1>4. ASSUME NEW p \in Processes, SaveLocal(p) PROVE UNCHANGED Register!vars
  <2>1. PICK c \in Contents :
          op' = [op EXCEPT ![p] = [at |-> "locked", file |-> "baseline", does |-> "save", content |-> c]]
    BY <1>4 DEF SaveLocal
  <2>2. [at |-> "locked", file |-> "baseline", does |-> "save", content |-> c] \in Ops
    BY DEF Ops
  <2>3. Placing' = Placing
    BY <1>2, <1>4, <2>1, <2>2, IdleOp DEF SaveLocal
  <2>. QED  BY <1>1, <1>4, <2>3 DEF SaveLocal
<1>5. ASSUME NEW p \in Processes, NEW does, NEW content, ChangeFlags(p, does, content)
      PROVE  UNCHANGED Register!vars
  <2>1. /\ op[p].at = "idle" /\ op'[p].file = "flags"
        /\ \A q \in Processes \ {p} : op'[q] = op[q]
    BY <1>5, IdleOp DEF ChangeFlags, StorageInv, TypeOK
  <2>2. Placing' = Placing
    BY <2>1 DEF Placing
  <2>. QED  BY <1>1, <1>5, <2>2 DEF ChangeFlags
<1>5a. ASSUME NEW p \in Processes, Mark(p) \/ Clear(p) \/ Initialize(p)
       PROVE  UNCHANGED Register!vars
  <2>1. CASE Mark(p)
    BY <2>1, <1>5 DEF Mark
  <2>2. CASE Clear(p)
    BY <2>2, <1>5 DEF Clear
  <2>3. CASE Initialize(p)
    BY <2>3, <1>5 DEF Initialize
  <2>. QED  BY <1>5a, <2>1, <2>2, <2>3
<1>6. ASSUME NEW p \in Processes, WriteTemporary(p) \/ FlushTemporary(p)
      PROVE  UNCHANGED Register!vars
  <2>1. /\ op[p].at \in {"locked", "written"} /\ op'[p].at \in {"written", "synced"}
        /\ \A q \in Processes \ {p} : op'[q] = op[q]
    BY <1>6 DEF WriteTemporary, FlushTemporary, StorageInv, TypeOK, Ops, Idle
  <2>2. Placing' = Placing
    BY <2>1 DEF Placing
  <2>. QED  BY <1>1, <1>6, <2>2 DEF WriteTemporary, FlushTemporary
<1>7. ASSUME NEW p \in Processes, NEW c \in Contents, Matches(p), baseline' = c, etag' = etag,
             Placing' = [Placing EXCEPT ![p] = c]
      PROVE  Register!Next
  <2>1. Register!Place(p, c)
    BY <1>7 DEF Register!Place, Matches
  <2>. QED  BY <2>1 DEF Register!Next
<1>8. ASSUME NEW p \in Processes, SaveS3(p) PROVE Register!Next
  <2>1. PICK c \in Contents :
          /\ Put(p, c)
          /\ op' = [op EXCEPT ![p] = [at |-> "sent", file |-> "baseline", does |-> "save", content |-> c]]
    BY <1>8 DEF SaveS3
  <2>2. [at |-> "sent", file |-> "baseline", does |-> "save", content |-> c] \in Ops
    BY DEF Ops
  <2>3. Placing' = [Placing EXCEPT ![p] = c]
    BY <2>1, <2>2, PlacingOf
  <2>. QED  BY <1>7, <1>8, <2>1, <2>3 DEF SaveS3, Put
<1>9. ASSUME NEW p \in Processes, Replace(p) PROVE [Register!Next]_(Register!vars)
  <2>. DEFINE c == op[p].content
  <2>1. /\ op[p].at = "synced" /\ op[p] \in Ops /\ UNCHANGED etag
        /\ op' = [op EXCEPT ![p] = [op[p] EXCEPT !.at = "replaced"]]
    BY <1>9 DEF Replace, MayReplace, StorageInv, TypeOK
  <2>2. [op[p] EXCEPT !.at = "replaced"] \in Ops
    BY <2>1, WriterStep
  <2>3. CASE op[p].file = "baseline"
    <3>1. c \in Contents /\ Matches(p) /\ baseline' = c
      BY <1>9, <2>1, <2>3 DEF Replace, StorageInv, StillMatches, Preparing, Ops, Idle
    <3>2. Placing' = [Placing EXCEPT ![p] = c]
      BY <2>1, <2>2, <2>3, PlacingOf DEF Ops, Idle
    <3>. QED  BY <1>7, <2>1, <3>1, <3>2
  <2>4. CASE op[p].file = "flags"
    <3>1. Placing' = Placing
      BY <1>2, <2>1, <2>2, <2>4 DEF Ops, Idle
    <3>2. baseline' = baseline /\ durable'["baseline"] = durable["baseline"]
      BY <1>9, <2>4 DEF Replace, StorageInv, TypeOK
    <3>. QED  BY <1>1, <2>1, <3>1, <3>2
  <2>. QED  BY <2>1, <2>3, <2>4 DEF Ops, Idle
<1>10. ASSUME NEW p \in Processes, op[p].file = "baseline", op[p].at \in {"replaced", "sent"},
              op' = [op EXCEPT ![p] = Idle], etag' = [etag EXCEPT ![p] = op[p].content],
              baseline' = baseline, durable'["baseline"] = {baseline}
       PROVE  Register!Next
  <2>1. Placing[p] = op[p].content
    BY <1>10 DEF Placing
  <2>2. op[p].content # Unseen
    <3>1. op[p] \in Ops
      BY DEF StorageInv, TypeOK
    <3>2. op[p].content \in Contents
      BY <1>10, <3>1 DEF Ops, Idle
    <3>. QED  BY <3>2, StorageAssumption
  <2>3. Placing' = [Placing EXCEPT ![p] = Unseen]
    BY <1>10, IdleOp, PlacingOf
  <2>4. Register!Learn(p)
    BY <1>10, <2>1, <2>2, <2>3 DEF Register!Learn
  <2>. QED  BY <2>4 DEF Register!Next
<1>11. ASSUME NEW p \in Processes, FinishWrite(p) PROVE [Register!Next]_(Register!vars)
  <2>1. op[p].at = "replaced" /\ op' = [op EXCEPT ![p] = Idle] /\ UNCHANGED baseline
    BY <1>11 DEF FinishWrite
  <2>2. CASE op[p].file = "baseline"
    <3>1. etag' = [etag EXCEPT ![p] = op[p].content] /\ durable'["baseline"] = {baseline}
      BY <1>11, <2>2 DEF FinishWrite, Settled, Answered, StorageInv, TypeOK, Files
    <3>. QED  BY <1>10, <2>1, <2>2, <3>1
  <2>3. CASE op[p].file = "flags"
    <3>1. Placing' = Placing
      BY <1>2, <2>1, <2>3, IdleOp
    <3>2. etag' = etag /\ durable'["baseline"] = durable["baseline"]
      BY <1>11, <2>3 DEF FinishWrite, StorageInv, TypeOK, Files
    <3>. QED  BY <1>1, <2>1, <3>1, <3>2
  <2>. QED  BY <2>1, <2>2, <2>3 DEF StorageInv, TypeOK, Ops, Idle
<1>12. ASSUME NEW p \in Processes, AnswerS3(p) PROVE Register!Next
  <2>1. op[p].file = "baseline" /\ backend = "s3"
    BY <1>12 DEF AnswerS3, StorageInv, TypeOK, BackendOps, Ops, Idle
  <2>2. durable'["baseline"] = {baseline}
    BY <1>12, <2>1 DEF AnswerS3, StorageInv, ObjectFirm
  <2>. QED  BY <1>10, <1>12, <2>1, <2>2 DEF AnswerS3, Answered
<1>13. ASSUME NEW p \in Processes, op' = [op EXCEPT ![p] = Idle],
              etag' \in {etag, [etag EXCEPT ![p] = Unseen]}, UNCHANGED <<baseline, durable>>
       PROVE  Register!Next
  <2>1. Placing' = [Placing EXCEPT ![p] = Unseen]
    BY <1>13, IdleOp, PlacingOf
  <2>2. Register!Fail(p)
    BY <1>13, <2>1 DEF Register!Fail
  <2>. QED  BY <2>2 DEF Register!Next
<1>14. ASSUME NEW p \in Processes, RetryS3(p) PROVE Register!Next
  <2>1. CASE Put(p, op[p].content) /\ UNCHANGED op
    <3>1. op[p] \in Ops /\ op[p].file = "baseline" /\ op[p].at = "sent" /\ op[p].content \in Contents
      BY <1>14 DEF RetryS3, StorageInv, TypeOK, Ops, Idle
    <3>2. Placing' = Placing /\ Placing[p] = op[p].content
      BY <2>1, <3>1 DEF Placing
    <3>3. Placing' = [Placing EXCEPT ![p] = op[p].content]
      BY <3>2 DEF Placing
    <3>. QED  BY <1>7, <1>14, <2>1, <3>1, <3>3 DEF RetryS3, Put
  <2>2. CASE op' = [op EXCEPT ![p] = Idle] /\ UNCHANGED <<baseline, durable, saved>>
    BY <1>13, <1>14, <2>2 DEF RetryS3
  <2>. QED  BY <1>14, <2>1, <2>2 DEF RetryS3
<1>15. ASSUME NEW p \in Processes, DeleteSnapshot(p) PROVE Register!Next
  <2>1. Placing' = Placing
    BY <1>15 DEF DeleteSnapshot, Placing
  <2>2. Register!Delete
    BY <1>15, <2>1 DEF DeleteSnapshot, Register!Delete
  <2>. QED  BY <2>2 DEF Register!Next
<1>16. ASSUME NEW p \in Processes, Stopped(p) PROVE Register!Next
  BY <1>13, <1>16 DEF Stopped
<1>17. CASE Crash
  <2>1. Placing' = [p \in Processes |-> Unseen] /\ etag' = [p \in Processes |-> Unseen]
    BY <1>17, IdleOp DEF Crash, Placing
  <2>2. /\ baseline' \in durable["baseline"] /\ durable'["baseline"] = {baseline'}
    BY <1>17 DEF Crash, Files
  <2>3. baseline' = Absent \/ baseline' \in Contents
    BY <2>2 DEF StorageInv, TypeOK, NeverTorn, Files
  <2>4. Register!Crash
    BY <2>1, <2>2, <2>3 DEF Register!Crash
  <2>. QED  BY <2>4 DEF Register!Next
<1>18. CASE LoseFlags
  <2>1. Placing' = Placing
    BY <1>18 DEF LoseFlags, Placing
  <2>. QED  BY <1>1, <1>18, <2>1 DEF LoseFlags, StorageInv, TypeOK
<1>19. CASE UNCHANGED vars
  <2>1. Placing' = Placing
    BY <1>19 DEF vars, Placing
  <2>. QED  BY <1>1, <1>19, <2>1 DEF vars
<1>. QED
  BY <1>3, <1>4, <1>5a, <1>6, <1>8, <1>9, <1>11, <1>12, <1>14, <1>15, <1>16, <1>17, <1>18, <1>19 DEF Next

\* The baseline is a register with compare-and-set, under both backends, every crash and
\* every lost answer.
THEOREM StorageImplementsRegister == Spec => RegisterSpec
<1>1. Init => Register!Init
  BY IdleOp DEF Init, Register!Init, Placing, Files
<1>. QED
  BY <1>1, StorageInvariant, StepRefines, PTL DEF Spec, RegisterSpec, Register!Spec
=============================================================================
