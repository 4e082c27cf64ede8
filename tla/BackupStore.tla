---------------------------- MODULE BackupStore ----------------------------
(***************************************************************************)
(* Where recovery bundles go (scripts/server-backup-helper.py): creating a *)
(* bundle and publishing it at each destination, the local copy kept when  *)
(* a destination is not good enough, retention, and the round trip that    *)
(* registers a destination.                                                *)
(*                                                                         *)
(* One worker at a time mutates, under the lock of ServerRestore.  A       *)
(* bundle is three files at a destination: the archive, its .tectac.json   *)
(* sidecar and its .sha256 companion.  A transfer may fail, the answer to  *)
(* a rename may be lost after the rename happened, and the worker may die. *)
(***************************************************************************)
EXTENDS Naturals, FiniteSets, FiniteSetsExt

CONSTANTS Destinations,   \* ids a request may name
          DestTypes,      \* the settings: id -> "local", "rclone", "ftp" or "scp"
          HashSupport,    \* id -> the remote can hash (rclone only asks)
          MaxBundles,     \* how many bundles a behaviour creates
          Keep,           \* retention policy: class -> how many to keep
          StoreBudgets    \* faults a behaviour may meet

LocalStore == "local-staging"    \* DEFAULT_LOCAL_RECOVERY_ROOT
Stores == Destinations \cup {LocalStore}
Bundles == 1..MaxBundles         \* by creation time, as their names are
BackupClasses == {"daily", "manual"}
VARIABLES dest,       \* store -> bundle -> the files there
          cls,        \* bundle -> the class its sidecar records
          wk,         \* the worker that holds the mutation lock
          dtype,      \* destination -> its adapter, as configured
          probe,      \* destinations a validation object lies at
          known,      \* registered destinations
          storeLeft   \* faults left to happen

storeVars == <<dest, cls, wk, dtype, probe, known, storeLeft>>

TypeOf(d) == IF d = LocalStore THEN "local" ELSE dtype[d]

NoCopy == [arch |-> "none", side |-> FALSE, hash |-> FALSE]
Complete(d, n) == dest[d][n] = [arch |-> "good", side |-> TRUE, hash |-> TRUE]
Visible(d, n) == dest[d][n].arch # "none"

Idle == [op |-> "none", pc |-> "idle", n |-> 0, wanted |-> {}, todo |-> {},
         at |-> LocalStore, copy |-> "good", weak |-> FALSE, bad |-> {},
         fallback |-> "no", doomed |-> {}, unread |-> {}]

InitStore == /\ dest = [d \in Stores |-> [n \in Bundles |-> NoCopy]]
             /\ cls = [n \in Bundles |-> "none"]
             /\ wk = Idle /\ probe = {} /\ known = {}
             /\ dtype \in DestTypes
             /\ storeLeft \in StoreBudgets

StoreFault == storeLeft.fault > 0 /\ storeLeft' = [storeLeft EXCEPT !.fault = @ - 1]
NoStoreFault == storeLeft' = storeLeft
AtStore(o, p) == wk.op = o /\ wk.pc = p

----------------------------------------------------------------------------
(* operation_create_backup                                                 *)

Made == {n \in Bundles : cls[n] # "none"}

\* The components are packed and the bundle validated in private staging; a
\* failure up to there leaves nothing behind.
create_recovery_bundle ==
  /\ wk.op = "none" /\ Made # Bundles
  /\ \E n \in {Cardinality(Made) + 1}, c \in BackupClasses, ds \in SUBSET Destinations :
       /\ cls' = [cls EXCEPT ![n] = c]
       /\ wk' = [Idle EXCEPT !.op = "create", !.pc = "next", !.n = n,
                             !.wanted = ds, !.todo = ds]
  /\ NoStoreFault /\ UNCHANGED <<dest, dtype, probe, known>>

Holds(d, n, f, v) == dest' = [dest EXCEPT ![d][n] = [@ EXCEPT ![f] = v]]
Put(r) == dest' = [dest EXCEPT ![wk.at][wk.n] = r]
Here == dest[wk.at][wk.n]

\* The copy at wk.at is done (or given up): back to the loop, or to the report
\* when it was the local one.
Stored == wk' = [wk EXCEPT !.pc = IF wk.at = LocalStore THEN "report" ELSE "next",
                           !.fallback = IF wk.at = LocalStore THEN "kept" ELSE @]
StoreRaises == wk' = [wk EXCEPT !.pc = IF wk.at = LocalStore THEN "report" ELSE "next",
                                !.fallback = IF wk.at = LocalStore THEN "error" ELSE @,
                                !.bad = IF wk.at = LocalStore THEN @ ELSE @ \cup {wk.at}]
StoreUnchanged == UNCHANGED <<cls, dtype, probe, known>>

\* The loop over the requested destinations; final names are immutable.
store_destination ==
  /\ AtStore("create", "next") /\ wk.todo # {}
  /\ \E d \in wk.todo :
       wk' = [wk EXCEPT !.todo = @ \ {d}, !.at = d, !.copy = "good",
                        !.pc = IF dest[d][wk.n] = NoCopy THEN "upload" ELSE "next",
                        !.bad = IF dest[d][wk.n] = NoCopy THEN @ ELSE @ \cup {d}]
  /\ NoStoreFault /\ UNCHANGED dest /\ StoreUnchanged

\* After the loop: without destinations, with a failed one, or with a copy
\* that could only be checked by size, the bundle is also stored locally.
RetainIf(weak) ==
  /\ AtStore("create", "next") /\ wk.todo = {}
  /\ wk' = IF wk.wanted = {} \/ wk.bad # {} \/ weak
           THEN [wk EXCEPT !.at = LocalStore, !.pc = "upload", !.copy = "good"]
           ELSE [wk EXCEPT !.pc = "report"]
  /\ NoStoreFault /\ UNCHANGED dest /\ StoreUnchanged
RetainFailedOnly == RetainIf(FALSE)   \* Mutant: a size check is good enough.
retain_local_fallback == RetainIf(wk.weak)

\* Copy to the .partial names and verify: every adapter compares the bytes'
\* hash, except rclone on a remote that cannot hash, which compares the size.
UploadPartial ==
  /\ AtStore("create", "upload")
  /\ \/ /\ NoStoreFault
        /\ wk' = [wk EXCEPT !.pc = "sidecar",
                            !.weak = @ \/ (TypeOf(wk.at) = "rclone" /\ ~HashSupport[wk.at])]
     \/ /\ StoreFault /\ TypeOf(wk.at) = "rclone" /\ ~HashSupport[wk.at]
        /\ wk' = [wk EXCEPT !.pc = "sidecar", !.copy = "bad", !.weak = TRUE]
     \/ StoreFault /\ StoreRaises
  /\ UNCHANGED dest /\ StoreUnchanged

PublishSidecar ==
  /\ AtStore("create", "sidecar")
  /\ \/ /\ NoStoreFault /\ Put([Here EXCEPT !.side = TRUE])
        /\ wk' = [wk EXCEPT !.pc = "hash"]
     \/ StoreFault /\ StoreRaises /\ UNCHANGED dest
  /\ StoreUnchanged

\* What the cleanup of a failed publication may leave of the companions: the
\* local one removes them, the remote ones try to.
Cleaned(t, r) == IF t = "local" THEN {[r EXCEPT !.side = FALSE, !.hash = FALSE]}
                 ELSE {r, [r EXCEPT !.side = FALSE, !.hash = FALSE]}

\* FTP and SCP leave a published sidecar when the companion's rename fails.
PublishHash ==
  /\ AtStore("create", "hash")
  /\ \/ /\ NoStoreFault /\ Put([Here EXCEPT !.hash = TRUE])
        /\ wk' = [wk EXCEPT !.pc = "archive"]
     \/ /\ StoreFault /\ StoreRaises
        /\ IF TypeOf(wk.at) \in {"ftp", "scp"} THEN UNCHANGED dest
           ELSE \E r \in Cleaned(TypeOf(wk.at), Here) : Put(r)
  /\ StoreUnchanged

\* The archive's own rename comes last.  When it did not happen the companions
\* are removed.  When it happened and only the answer was lost, rclone looks
\* and goes on, SCP reports a failure, and FTP removes the companions.
PublishArchive ==
  LET published == [Here EXCEPT !.arch = wk.copy]
      t == TypeOf(wk.at) IN
  /\ AtStore("create", "archive")
  /\ \/ NoStoreFault /\ Put(published) /\ Stored
     \/ StoreFault /\ StoreRaises /\ \E r \in Cleaned(t, Here) : Put(r)
     \/ /\ StoreFault /\ t # "local"
        /\ \/ t = "rclone" /\ Put(published) /\ Stored
           \/ t = "scp" /\ Put(published) /\ StoreRaises
           \/ t = "ftp" /\ StoreRaises /\ \E r \in Cleaned(t, published) : Put(r)
  /\ StoreUnchanged

\* OperationFailed when a destination failed; an error while keeping the local
\* copy fails the job too, except that a failed destination hides it.
CreateOutcome == IF wk.bad # {} \/ wk.fallback = "error" THEN "failed" ELSE "succeeded"

ReportCreate == /\ AtStore("create", "report")
                /\ wk' = Idle
                /\ NoStoreFault /\ UNCHANGED dest /\ StoreUnchanged

----------------------------------------------------------------------------
(* operation_apply_retention                                               *)

\* The class retention counts a row under: its sidecar's, manual and missing
\* ones as unclassified.
retention_class(d, n) == IF dest[d][n].side /\ cls[n] = "daily" THEN "daily"
                         ELSE "unclassified"

\* Per class, all but the newest Keep[class] rows; rows whose sidecar could
\* not be read are protected.
DoomedBeyond(spare, d, unread) ==
  {n \in Bundles : /\ Visible(d, n) /\ n \notin unread
                   /\ Cardinality({m \in Bundles : /\ m > n /\ Visible(d, m)
                                                   /\ m \notin unread
                                                   /\ retention_class(d, m) = retention_class(d, n)})
                      >= Keep[retention_class(d, n)] - spare}
DoomedOneMore(d, unread) == DoomedBeyond(1, d, unread)   \* Mutant: off by one.
Doomed(d, unread) == DoomedBeyond(0, d, unread)

list_destination(d) ==
  /\ wk.op = "none" /\ \E n \in Bundles : Visible(d, n)
  /\ \E unread \in SUBSET {n \in Bundles : Visible(d, n) /\ dest[d][n].side} :
       /\ IF unread = {} THEN NoStoreFault ELSE StoreFault
       /\ wk' = [Idle EXCEPT !.op = "retain", !.pc = "delete", !.at = d,
                             !.doomed = Doomed(d, unread), !.unread = unread]
  /\ UNCHANGED dest /\ StoreUnchanged

\* delete_destination: the archive first, then its two companions as well as
\* can be; a failure is recorded and the next row follows.
DeleteFirst(f, gone) ==
  /\ AtStore("retain", "delete") /\ wk.doomed # {}
  /\ LET n == Max(wk.doomed) IN
     \/ /\ NoStoreFault /\ Holds(wk.at, n, f, gone)
        /\ wk' = [wk EXCEPT !.pc = "companions", !.n = n]
     \/ /\ StoreFault /\ UNCHANGED dest
        /\ wk' = [wk EXCEPT !.doomed = @ \ {n}]
  /\ StoreUnchanged

DeleteSidecarFirst == DeleteFirst("side", FALSE)   \* Mutant: the archive goes last.
delete_destination == DeleteFirst("arch", "none")

DeleteCompanions ==
  /\ AtStore("retain", "companions")
  /\ \/ NoStoreFault /\ Put(NoCopy)
     \/ StoreFault /\ \E r \in {Here, [Here EXCEPT !.side = FALSE]} : Put(r)
  /\ wk' = [wk EXCEPT !.pc = "delete", !.doomed = @ \ {wk.n}]
  /\ StoreUnchanged

ReportRetention == /\ AtStore("retain", "delete") /\ wk.doomed = {}
                   /\ wk' = Idle
                   /\ NoStoreFault /\ UNCHANGED dest /\ StoreUnchanged

----------------------------------------------------------------------------
(* operation_validate_destination                                          *)

\* Connect, write a probe object, read it back: the object is there unless
\* the write itself failed.
ProbeWrite(d) ==
  /\ wk.op = "none" /\ d \notin known
  /\ \/ /\ NoStoreFault /\ probe' = probe \cup {d}
        /\ wk' = [Idle EXCEPT !.op = "probe", !.pc = "remove", !.at = d]
     \/ StoreFault /\ UNCHANGED <<wk, probe>>
  /\ UNCHANGED <<dest, cls, dtype, known>>

\* Delete it and make sure it is gone; the "finally" of a round trip that
\* failed after the write tries once more.  Only a complete one registers.
ProbeRemove ==
  /\ AtStore("probe", "remove")
  /\ \/ NoStoreFault /\ probe' = probe \ {wk.at} /\ wk' = [wk EXCEPT !.pc = "register"]
     \/ StoreFault /\ wk' = Idle /\ probe' \in {probe, probe \ {wk.at}}
  /\ UNCHANGED <<dest, cls, dtype, known>>

register_destination == /\ AtStore("probe", "register")
                        /\ known' = known \cup {wk.at} /\ wk' = Idle
                        /\ NoStoreFault /\ UNCHANGED <<dest, cls, dtype, probe>>

\* The worker dies; its private staging goes with it.
WorkerDies == /\ wk.op # "none" /\ storeLeft.crash > 0
              /\ storeLeft' = [storeLeft EXCEPT !.crash = @ - 1]
              /\ wk' = Idle
              /\ UNCHANGED dest /\ StoreUnchanged

CreateStep == \/ create_recovery_bundle \/ store_destination \/ retain_local_fallback
              \/ UploadPartial \/ PublishSidecar \/ PublishHash \/ PublishArchive
              \/ ReportCreate
RetainStep == delete_destination \/ DeleteCompanions \/ ReportRetention
              \/ \E d \in Stores : list_destination(d)
ProbeStep == ProbeRemove \/ register_destination \/ \E d \in Destinations : ProbeWrite(d)

NextStore == CreateStep \/ RetainStep \/ ProbeStep \/ WorkerDies
SpecStore == InitStore /\ [][NextStore]_storeVars

----------------------------------------------------------------------------
\* Types of the store state.
StoreTypeOK ==
  /\ dest \in [Stores -> [Bundles -> [arch : {"none", "good", "bad"},
                                      side : BOOLEAN, hash : BOOLEAN]]]
  /\ cls \in [Bundles -> BackupClasses \cup {"none"}]
  /\ wk.at \in Stores /\ wk.todo \subseteq wk.wanted /\ wk.doomed \subseteq Bundles
  /\ probe \subseteq Destinations /\ known \subseteq Destinations

\* store_local, store_rclone, store_scp and delete_destination: an archive that
\* a listing can see has its sidecar and its companion, whatever failed and
\* wherever the worker died.  (An FTP rename whose answer is lost is the
\* exception: ftp_store removes the companions of an archive it did publish.)
VisibleIsComplete ==
  \A d \in Stores, n \in Bundles :
    Visible(d, n) /\ TypeOf(d) # "ftp" => dest[d][n].side /\ dest[d][n].hash

\* operation_create_backup: success means a checked copy everywhere it was
\* asked for or one kept locally, and a visible copy at every destination; a
\* failed destination leaves a checked local copy unless keeping it failed.
BundleIsKept ==
  AtStore("create", "report") =>
    LET n == wk.n IN
    /\ CreateOutcome = "succeeded" =>
         /\ \A d \in wk.wanted : Visible(d, n)
         /\ Complete(LocalStore, n) \/ (wk.wanted # {} /\ \A d \in wk.wanted : Complete(d, n))
    /\ CreateOutcome = "failed" /\ wk.fallback # "error" => Complete(LocalStore, n)

\* operation_apply_retention: an archive is deleted only when its sidecar was
\* readable or missing and Keep newer ones of its class stay visible.
RetentionKeepsNewest ==
  \A d \in Stores, n \in Bundles :
    Visible(d, n) /\ ~Visible(d, n)' =>
      /\ n \notin wk.unread
      /\ Cardinality({m \in Bundles : /\ m > n /\ Visible(d, m)'
                                      /\ retention_class(d, m) = retention_class(d, n)})
         >= Keep[retention_class(d, n)]

\* operation_validate_destination: a destination is registered only after the
\* probe object of that round trip is gone from it.
RegisteredIsClean == \A d \in known' \ known : d \notin probe

\* No step loses what was stored: a bundle reported created is kept, retention
\* deletes no archive it was asked to keep, and only a destination that gives
\* and takes objects is registered.
BackupsAreKept == [][BundleIsKept' /\ RetentionKeepsNewest /\ RegisteredIsClean]_storeVars
=============================================================================
