------------------------------ MODULE Evidence ------------------------------
(***************************************************************************)
(* The evidence cache of crates/uni-evidence: what one evidence file       *)
(* records, and when a later run may reuse it.  Pure operators only; the   *)
(* file system they are applied to is in Verify.tla.                       *)
(*                                                                         *)
(* Hashes are the hashed values themselves: two hashes are equal exactly   *)
(* when the texts are.                                                     *)
(***************************************************************************)
EXTENDS Naturals

CONSTANT NoHash   \* an empty hash field, an absent Option, a file that is not there

ValidState   == "Valid"
InvalidState == "Invalid"
StaleState   == "Stale"
EvidenceState == {ValidState, InvalidState, StaleState}

\* The dimensions of the Verification Context a proof can drift on.
StaleReason ==
  {"commit_changed", "uncommitted_changes", "subject_changed",
   "contract_changed", "verifier_config_changed", "platform_changed",
   "authorization_changed", "expired"}

(***************************************************************************)
(* is_stale: the re-check made right after a verifier ran.                 *)
(***************************************************************************)
IsStale(ev, sha, dirty) ==
  ev.commit_sha # sha \/ ev.workspace_dirty # dirty

(***************************************************************************)
(* One dimension of a stored proof against the current context.  Dimensions *)
(* a proof never recorded (an empty hash) do not drift.                    *)
(***************************************************************************)
Drifted(reason, ev, ctx, now) ==
  \/ /\ reason = "commit_changed"
     /\ ev.commit_sha # ctx.commit_sha
  \/ /\ reason = "uncommitted_changes"
     /\ ev.workspace_dirty # ctx.workspace_dirty
  \/ /\ reason = "subject_changed"
     /\ ev.artifact_hash \notin {NoHash, ctx.artifact_hash}
  \/ /\ reason = "contract_changed"
     /\ ev.contract_hash \notin {NoHash, ctx.contract_hash}
  \/ /\ reason = "verifier_config_changed"
     /\ ev.registry_hash \notin {NoHash, ctx.registry_hash}
  \/ /\ reason = "platform_changed"
     /\ ev.platform \notin {NoHash, ctx.platform}
  \/ /\ reason = "authorization_changed"
     /\ ev.binding_hash \notin {NoHash, ctx.binding_hash}
  \/ /\ reason = "expired"
     /\ ev.expires_at # NoHash
     /\ ev.expires_at <= now

\* Mutants of StaleReasons: a dimension that is not looked at.
StaleReasonsButFiles(ev, ctx, now) ==
  {r \in StaleReason \ {"subject_changed"} : Drifted(r, ev, ctx, now)}
StaleReasonsButAuthorization(ev, ctx, now) ==
  {r \in StaleReason \ {"authorization_changed"} : Drifted(r, ev, ctx, now)}
StaleReasonsButRegistry(ev, ctx, now) ==
  {r \in StaleReason \ {"verifier_config_changed"} : Drifted(r, ev, ctx, now)}

StaleReasons(ev, ctx, now) == {r \in StaleReason : Drifted(r, ev, ctx, now)}

(***************************************************************************)
(* load_valid_for_claim on the content of the file at the claim and        *)
(* fingerprint's path: every drifted dimension is collected first, only    *)
(* then is the recorded state looked at.                                   *)
(***************************************************************************)
CacheOutcome(file, ctx, now) ==
  IF file = NoHash THEN "Miss"
  ELSE IF file.fingerprint # ctx.fingerprint THEN "Miss"
  ELSE IF StaleReasons(file, ctx, now) # {} THEN "Stale"
  ELSE IF file.state = InvalidState THEN "Miss"
  ELSE "Hit"
=============================================================================
