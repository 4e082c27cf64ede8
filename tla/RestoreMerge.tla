---------------------------- MODULE RestoreMerge ----------------------------
(***************************************************************************)
(* What a restore makes of the trust and policy already on the server      *)
(* (scripts/server-backup-helper.py, _capture_restore_security_state and   *)
(* _merge_restore_security_state): one publisher directory, the update     *)
(* trust floor and the account-protection switch of the target are merged  *)
(* with the ones the archive brought.  /etc/tec-tac is not cleared before  *)
(* extraction, so the archive's files land over the target's.              *)
(*                                                                         *)
(* A publisher directory: its status, its key records (status and name of  *)
(* the public-key file) and the key files.                                 *)
(***************************************************************************)
EXTENDS Naturals

CONSTANTS KeyIds, KeyFiles, KeyBytes

Missing == "missing"
KeyStatus == {"active", "revoked"}
KeyRecords == [status : KeyStatus, file : KeyFiles]
NoDir == [status |-> Missing]

\* A publisher directory the tools write: every key record names a file there.
PublisherDirs ==
  {p \in [status : KeyStatus, keys : [KeyIds -> KeyRecords \cup {[status |-> Missing]}],
          files : [KeyFiles -> KeyBytes \cup {Missing}]] :
     \A k \in KeyIds : p.keys[k].status # Missing => p.files[p.keys[k].file] # Missing}

NoFloor == 0
TrustFloors == NoFloor..2                   \* TRUST_LEVEL_RANK, and none readable
Protections == {Missing, "unreadable", "on", "off"}

VARIABLES sides,    \* what the target had, what the archive holds, both ids
          outcome   \* the directory, floor and switch after the merge

mergeVars == <<sides, outcome>>

Unmerged == [dir |-> Missing]
Knows(p, k) == p # NoDir /\ p.keys[k].status # Missing

\* safe_extract_payload_tar: what /etc/tec-tac holds after the extraction.
Extracted(new, old) == IF new = Missing THEN old ELSE new
ExtractedDir(new, old) ==
  IF new = NoDir THEN old ELSE IF old = NoDir THEN new
  ELSE [new EXCEPT !.files = [f \in KeyFiles |-> Extracted(new.files[f], old.files[f])]]

----------------------------------------------------------------------------
\* Mutant: every restored-only key is kept.
KeptAny(res, cur, k) == Knows(res, k)

\* A restored-only key whose file name the target uses for other bytes is
\* dropped before the target's files are copied over it.
KeptKey(res, cur, k) ==
  Knows(res, k) /\ cur.files[res.keys[k].file] \in {Missing, res.files[res.keys[k].file]}

\* The target's record for the keys it knows, revoked if either side says so,
\* and the restored-only keys that were kept.
MergeRevoking(status, res, cur) ==
  [status |-> IF "revoked" \in {res.status, cur.status} THEN "revoked" ELSE cur.status,
   keys |-> [k \in KeyIds |->
     IF Knows(cur, k)
     THEN IF res.keys[k].status = status THEN [cur.keys[k] EXCEPT !.status = "revoked"]
                                            ELSE cur.keys[k]
     ELSE IF KeptKey(res, cur, k) THEN res.keys[k] ELSE [status |-> Missing]]]

MergeTargetKeys(res, cur) == MergeRevoking("", res, cur)   \* Mutant: the target's record as it is.
_merge_publisher_json(res, cur) == MergeRevoking("revoked", res, cur)

replacement_server(s) == "none" \notin {s.target, s.source} /\ s.target # s.source

\* Mutant: what only the archive has is always kept.
MergeUnion(res, cur, s) == IF cur = NoDir THEN res ELSE cur

\* The publisher part of _merge_restore_security_state: on one installation
\* the target's directory replaces the restored one and a restored-only one is
\* removed; on a replacement server policies merge, the target's files win.
merge_publisher(res, cur, s) ==
  IF ~s.authoritative THEN res
  ELSE IF cur = NoDir THEN IF replacement_server(s) THEN res ELSE NoDir
  ELSE IF ~replacement_server(s) THEN cur
  ELSE LET policy == _merge_publisher_json(res, cur) IN
       [status |-> policy.status, keys |-> policy.keys,
        files |-> [f \in KeyFiles |-> Extracted(cur.files[f], res.files[f])]]

\* The stricter floor of the sides that have a readable one.
merge_floor(res, cur) == IF cur > res THEN cur ELSE res

\* Mutant: only a readable switch counts.
MergeReadable(res, cur) == IF "on" \in {res, cur} THEN "on" ELSE "off"

\* Untouched when neither side is readable; else on when either side is on or
\* exists unreadable.
merge_protection(res, cur) ==
  IF {res, cur} \subseteq {Missing, "unreadable"} THEN res
  ELSE IF {res, cur} \cap {"on", "unreadable"} # {} THEN "on" ELSE "off"

_merge_restore_security_state ==
  /\ outcome = Unmerged
  /\ LET res == [dir   |-> ExtractedDir(sides.archive.dir, sides.current.dir),
                 floor |-> IF sides.archive.floor = NoFloor THEN sides.current.floor
                                                            ELSE sides.archive.floor,
                 switch |-> Extracted(sides.archive.switch, sides.current.switch)]
         cur == sides.current IN
     outcome' = [dir    |-> merge_publisher(res.dir, cur.dir, sides),
                 floor  |-> merge_floor(res.floor, cur.floor),
                 switch |-> merge_protection(res.switch, cur.switch)]
  /\ UNCHANGED sides

\* The directory and the two policies do not influence each other: one varies
\* while the others stay at their defaults.
Sides == {[dir |-> d, floor |-> NoFloor, switch |-> Missing] : d \in PublisherDirs \cup {NoDir}}
Policies == [dir : {NoDir}, floor : TrustFloors, switch : Protections]

InitMerge ==
  /\ \E part \in {Sides, Policies} : \E c, a \in part :
       \E t \in {"none", "here"}, s \in {"here", "there"}, auth \in BOOLEAN :
         /\ auth \/ c.dir = NoDir         \* an entry means the trust root exists
         /\ sides = [current |-> c, archive |-> a, target |-> t, source |-> s,
                     authoritative |-> auth]
  /\ outcome = Unmerged

SpecMerge == InitMerge /\ [][_merge_restore_security_state]_mergeVars

----------------------------------------------------------------------------
Done == outcome # Unmerged
Bytes(p, k) == p.files[p.keys[k].file]
Effective(switch) == switch \in {"on", "unreadable"}      \* protection_enabled

\* A key id keeps its meaning: every key of the merged directory resolves to
\* the bytes it had on the target, or in the archive when the target did not
\* know it (_merge_publisher_json drops colliding restored-only keys before
\* the target's files are copied over the restored ones).
KeyKeepsItsBytes ==
  Done => \A k \in KeyIds : Knows(outcome.dir, k) =>
    Bytes(outcome.dir, k) = IF Knows(sides.current.dir, k) THEN Bytes(sides.current.dir, k)
                                                          ELSE Bytes(sides.archive.dir, k)

\* A revocation outlives the restore: a publisher or key the target revoked is
\* never active again, whatever the archive says, and a replacement server
\* keeps the archive's revocations as well.
RevocationSurvives ==
  Done /\ outcome.dir # NoDir =>
    LET from == {sides.current.dir} \cup
                (IF replacement_server(sides) THEN {sides.archive.dir} ELSE {}) IN
    \A p \in from \ {NoDir} :
      /\ p.status = "revoked" => outcome.dir.status = "revoked"
      /\ \A k \in KeyIds : p.keys[k].status = "revoked" /\ Knows(outcome.dir, k)
                             => outcome.dir.keys[k].status = "revoked"

\* A restore never weakens policy: the account guard stays on when it was on
\* (an unreadable policy counts as on, as protection_enabled reads it) and
\* the trust floor does not drop.
PolicyNeverWeakens ==
  Done => /\ Effective(sides.current.switch) => Effective(outcome.switch)
          /\ outcome.floor >= sides.current.floor

\* On one installation a removed publisher or key stays removed.
RemovedStaysRemoved ==
  Done /\ sides.authoritative /\ ~replacement_server(sides) => outcome.dir = sides.current.dir

\* A restore never makes the server trust more than it did
\* (_merge_restore_security_state).
MergeKeepsTrust == KeyKeepsItsBytes /\ RevocationSurvives /\ PolicyNeverWeakens /\ RemovedStaysRemoved
=============================================================================
