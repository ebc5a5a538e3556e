----------------------------- MODULE StateStorage -----------------------------
(***************************************************************************)
(* The state that aws-bench processes share: the baseline of an account,   *)
(* an object in S3 or a file (resource_management/storage), read and       *)
(* written through SnapshotManager's cached ETags, and, for preexisting    *)
(* accounts, the file of contamination flags (account_management/          *)
(* preexisting.py).                                                        *)
(*                                                                         *)
(* A file is replaced under its lock: write a temporary file, flush it,    *)
(* rename it, flush the directory.  A process may be killed between any    *)
(* two steps, which frees its lock; the host may crash, after which a file *)
(* has any content that is not yet superseded on disk.  The baseline is    *)
(* the set of resources it lists, the flags file the set of accounts.      *)
(* ETags are hashes of the content, so a content is its own ETag.          *)
(***************************************************************************)
EXTENDS FiniteSets

CONSTANTS Processes,
          Resources,   \* what a baseline may list
          Accounts,    \* what may be flagged
          Absent,      \* no file, no object
          Torn,        \* a file whose data never reached the disk
          Unseen,      \* no ETag
          Free         \* no holder of a lock

Contents == SUBSET Resources
Flags == SUBSET Accounts

ASSUME StorageAssumption ==
  /\ \A x \in {Absent, Torn, Unseen}, c \in Contents \cup Flags : x # c
  /\ Absent # Torn
  /\ Free \notin Processes

VARIABLES backend,   \* "s3" or "local"
          baseline,  \* the stored baseline
          flags,     \* the flags file
          durable,   \* file -> the contents it may have after a crash of the host
          lock,      \* file -> the process that holds its lock
          op,        \* process -> the write it is in
          etag,      \* process -> its cached ETag of the baseline
          saved,     \* the baseline whose save returned last, while nobody touched it since
          marked,    \* the accounts that were in the file when a mark returned, not cleared since
          removed    \* the flags file was moved away by hand

vars == <<backend, baseline, flags, durable, lock, op, etag, saved, marked, removed>>
ghosts == <<saved, marked, removed>>

Files == {"baseline", "flags"}
Idle == [at |-> "idle", file |-> "baseline", does |-> "none", content |-> {}]

Ops == {Idle} \cup
  [at : {"locked", "written", "synced", "replaced", "sent"}, file : {"baseline"},
   does : {"save"}, content : Contents] \cup
  [at : {"locked", "written", "synced", "replaced"}, file : {"flags"},
   does : {"mark", "clear", "initialize"}, content : Flags]

Init ==
  /\ backend \in {"s3", "local"}
  /\ baseline = Absent /\ flags = Absent
  /\ durable = [f \in Files |-> {Absent}]
  /\ lock = [f \in Files |-> Free]
  /\ op = [p \in Processes |-> Idle]
  /\ etag = [p \in Processes |-> Unseen]
  /\ saved = Unseen /\ marked = {} /\ removed = FALSE

TypeOK ==
  /\ backend \in {"s3", "local"}
  /\ baseline \in {Absent, Torn} \cup Contents
  /\ flags \in {Absent, Torn} \cup Flags
  /\ DOMAIN durable = Files
  /\ durable["baseline"] \subseteq {Absent, Torn} \cup Contents
  /\ durable["flags"] \subseteq {Absent, Torn} \cup Flags
  /\ lock \in [Files -> {Free} \cup Processes]
  /\ op \in [Processes -> Ops]
  /\ etag \in [Processes -> {Unseen, Torn} \cup Contents]
  /\ saved \in {Unseen} \cup Contents
  /\ marked \in Flags
  /\ removed \in BOOLEAN
  /\ \A f \in Files : lock[f] # Free => op[lock[f]].at \notin {"idle", "sent"} /\ op[lock[f]].file = f

-----------------------------------------------------------------------------
(* The baseline *)

\* Seeded fault: the lock of a file is not waited for.
UnlockedAnyway(f) == TRUE

\* file_lock can be taken: it is polled without a timeout until the holder lets go.
Unlocked(f) == lock[f] = Free

\* load_snapshot remembers the ETag of what it read, before it parses it.
LoadSnapshot(p) ==
  /\ op[p] = Idle
  /\ Unlocked("baseline") /\ baseline # Absent
  /\ etag' = [etag EXCEPT ![p] = baseline]
  /\ UNCHANGED <<backend, baseline, flags, durable, lock, op, ghosts>>

\* Seeded fault: the write is not conditioned on the ETag read before.
MatchesRegardless(p) == TRUE

\* The condition of a save: without a cached ETag it replaces whatever is there.  When it
\* fails, save raises a conflict, or that the key is gone, and nothing changes.
Matches(p) == etag[p] \in {Unseen, baseline}

\* LocalStorageBackend.save up to the check under the lock.
SaveLocal(p) ==
  /\ backend = "local" /\ op[p] = Idle
  /\ Unlocked("baseline") /\ Matches(p)
  /\ lock' = [lock EXCEPT !["baseline"] = p]
  /\ \E c \in Contents :
       op' = [op EXCEPT ![p] = [at |-> "locked", file |-> "baseline", does |-> "save", content |-> c]]
  /\ UNCHANGED <<backend, baseline, flags, durable, etag, ghosts>>

\* S3StorageBackend.save: the object is replaced in one step, if it matches.
Put(p, c) ==
  /\ Matches(p)
  /\ baseline' = c
  /\ durable' = [durable EXCEPT !["baseline"] = {c}]
  /\ saved' = Unseen

SaveS3(p) ==
  /\ backend = "s3" /\ op[p] = Idle
  /\ \E c \in Contents :
       /\ Put(p, c)
       /\ op' = [op EXCEPT ![p] = [at |-> "sent", file |-> "baseline", does |-> "save", content |-> c]]
  /\ UNCHANGED <<backend, flags, lock, etag, marked, removed>>

\* The ETag that a save returns, kept for the next one.
Answered(p) == op[p].content

\* The answer arrives and is what the caller is told.
AnswerS3(p) ==
  /\ op[p].at = "sent"
  /\ etag' = [etag EXCEPT ![p] = Answered(p)]
  /\ saved' = IF baseline = op[p].content THEN baseline ELSE saved
  /\ op' = [op EXCEPT ![p] = Idle]
  /\ UNCHANGED <<backend, baseline, flags, durable, lock, marked, removed>>

\* The answer is lost and boto3 sends the request again.  A conditional one may then be
\* refused because of its own first write, which is reported as a conflict; so is every
\* other failure, of which the caller learns nothing but the error.
RetryS3(p) ==
  /\ op[p].at = "sent"
  /\ \/ Put(p, op[p].content) /\ UNCHANGED op
     \/ op' = [op EXCEPT ![p] = Idle] /\ UNCHANGED <<baseline, durable, saved>>
  /\ UNCHANGED <<backend, flags, lock, etag, marked, removed>>

\* delete_snapshot: the object or the file goes; neither the directory is flushed nor the
\* cached ETag dropped.
DeleteSnapshot(p) ==
  /\ op[p] = Idle
  /\ Unlocked("baseline") /\ baseline # Absent
  /\ baseline' = Absent
  /\ durable' = [durable EXCEPT !["baseline"] =
                   IF backend = "s3" THEN {Absent} ELSE @ \cup {Absent}]
  /\ saved' = Unseen
  /\ UNCHANGED <<backend, flags, lock, op, etag, marked, removed>>

-----------------------------------------------------------------------------
(* The flags *)

\* A change of the flags: the file is read and the new content decided under its lock.
ChangeFlags(p, does, content) ==
  /\ backend = "local" /\ op[p] = Idle
  /\ Unlocked("flags")
  /\ lock' = [lock EXCEPT !["flags"] = p]
  /\ op' = [op EXCEPT ![p] = [at |-> "locked", file |-> "flags", does |-> does, content |-> content]]
  /\ UNCHANGED <<backend, baseline, flags, durable, etag, ghosts>>

\* mark takes an absent file for an empty one.
Mark(p) ==
  /\ flags # Torn
  /\ \E a \in Accounts :
       ChangeFlags(p, "mark", (IF flags = Absent THEN {} ELSE flags) \cup {a})

\* clear fails closed on a file that is absent or unreadable, as contaminated does.
Clear(p) ==
  /\ flags \notin {Absent, Torn}
  /\ \E a \in Accounts : ChangeFlags(p, "clear", flags \ {a})

\* initialize creates an absent file, and discards whatever flags it used to hold.
Initialize(p) == flags = Absent /\ ChangeFlags(p, "initialize", {})

-----------------------------------------------------------------------------
(* _write_atomic and _write_unlocked: the same steps for either file *)

WriteTemporary(p) ==
  /\ op[p].at = "locked"
  /\ op' = [op EXCEPT ![p].at = "written"]
  /\ UNCHANGED <<backend, baseline, flags, durable, lock, etag, ghosts>>

FlushTemporary(p) ==
  /\ op[p].at = "written"
  /\ op' = [op EXCEPT ![p].at = "synced"]
  /\ UNCHANGED <<backend, baseline, flags, durable, lock, etag, ghosts>>

\* Seeded fault: the temporary file is renamed although it may not be on disk.
MayReplaceUnflushed(p) == op[p].at \in {"written", "synced"}

\* Flushed before the rename, so that a crash cannot publish empty content.
MayReplace(p) == op[p].at = "synced"

\* os.replace: everybody sees the new content, the disk has the old one or the new.
Replace(p) ==
  /\ MayReplace(p)
  /\ LET f == op[p].file
         c == op[p].content
     IN /\ op' = [op EXCEPT ![p].at = "replaced"]
        /\ durable' = [durable EXCEPT ![f] =
                         @ \cup (IF op[p].at = "synced" THEN {c} ELSE {c, Torn})]
        /\ baseline' = IF f = "baseline" THEN c ELSE baseline
        /\ flags' = IF f = "flags" THEN c ELSE flags
        /\ saved' = IF f = "baseline" THEN Unseen ELSE saved
        /\ marked' = IF f = "flags" /\ op[p].does # "mark" THEN marked \cap c ELSE marked
  /\ UNCHANGED <<backend, lock, etag, removed>>

\* Seeded fault: the rename itself is not flushed.
SettledLater(f, now) == durable[f]

\* What a crash may leave once the directory is flushed.
Settled(f, now) == {now}

\* fsync_dir, the release of the lock and the return.
FinishWrite(p) ==
  /\ op[p].at = "replaced"
  /\ lock' = [lock EXCEPT ![op[p].file] = Free]
  /\ op' = [op EXCEPT ![p] = Idle]
  /\ IF op[p].file = "baseline"
     THEN /\ durable' = [durable EXCEPT !["baseline"] = Settled("baseline", baseline)]
          /\ etag' = [etag EXCEPT ![p] = Answered(p)]
          /\ saved' = op[p].content
          /\ UNCHANGED marked
     ELSE /\ durable' = [durable EXCEPT !["flags"] = Settled("flags", flags)]
          /\ marked' = IF op[p].does = "mark" THEN marked \cup op[p].content ELSE marked
          /\ UNCHANGED <<etag, saved>>
  /\ UNCHANGED <<backend, baseline, flags, removed>>

-----------------------------------------------------------------------------
(* Failures *)

\* Who holds a lock once `p' has ended: the kernel frees those of `p'.
HolderAfter(f, p) == IF lock[f] = p THEN Free ELSE lock[f]

\* A process ends at any point, or its write raises, which leaves its ETags as they are.
Stopped(p) ==
  /\ op' = [op EXCEPT ![p] = Idle]
  /\ etag' \in {etag, [etag EXCEPT ![p] = Unseen]}
  /\ lock' = [f \in Files |-> HolderAfter(f, p)]
  /\ UNCHANGED <<backend, baseline, flags, durable, ghosts>>

\* The host crashes: every process ends, and the disk decides what the files hold.
Crash ==
  /\ op' = [p \in Processes |-> Idle]
  /\ etag' = [p \in Processes |-> Unseen]
  /\ lock' = [f \in Files |-> Free]
  /\ baseline' \in durable["baseline"] /\ flags' \in durable["flags"]
  /\ durable' = [f \in Files |-> {IF f = "baseline" THEN baseline' ELSE flags'}]
  /\ UNCHANGED <<backend, ghosts>>

\* Somebody moves the flags file away, although it is needed.
LoseFlags ==
  /\ flags # Absent
  /\ flags' = Absent
  /\ durable' = [durable EXCEPT !["flags"] = {Absent}]
  /\ removed' = TRUE
  /\ UNCHANGED <<backend, baseline, lock, op, etag, saved, marked>>

Next ==
  \/ \E p \in Processes :
       \/ LoadSnapshot(p) \/ SaveLocal(p) \/ SaveS3(p) \/ AnswerS3(p) \/ RetryS3(p)
       \/ DeleteSnapshot(p)
       \/ Mark(p) \/ Clear(p) \/ Initialize(p)
       \/ WriteTemporary(p) \/ FlushTemporary(p) \/ Replace(p) \/ FinishWrite(p)
       \/ Stopped(p)
  \/ Crash \/ LoseFlags

Spec == Init /\ [][Next]_vars

-----------------------------------------------------------------------------
(* Properties *)

\* No crash, now or later, leaves a file whose content never reached the disk.
NeverTorn == \A f \in Files : Torn \notin durable[f]

\* A save that returned is on disk, and stays until somebody replaces or deletes it.
SavedSurvives == saved = Unseen \/ (baseline = saved /\ durable["baseline"] = {saved})

\* A flag whose mark returned is in the file, whoever changes another account's flag
\* meanwhile and whatever crashes, until it is cleared or the file is taken away.
MarkedStaysMarked ==
  removed \/ marked = {} \/
    \A c \in {flags} \cup durable["flags"] : c \notin {Absent, Torn} /\ marked \subseteq c

\* The baseline is a register with compare-and-set, on either backend.
Placing == [p \in Processes |->
  IF op[p].file = "baseline" /\ op[p].at \in {"replaced", "sent"} THEN op[p].content ELSE Unseen]

Register == INSTANCE SnapshotRegister WITH
  value <- baseline, firm <- durable["baseline"] = {baseline}, seen <- etag, placing <- Placing

RegisterSpec == Register!Spec

=============================================================================
