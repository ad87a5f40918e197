------------------------------- MODULE Bundle -------------------------------
(***************************************************************************)
(* Evidence bundles of crates/uni-cli/src/bundle.rs: `uni bundle export`   *)
(* reads one file of the workspace after the other, without the lock,      *)
(* while `uni verify`, `uni bind` and people change them; the bundle       *)
(* travels; `uni bundle verify` checks it offline.                         *)
(*                                                                         *)
(* Texts and hashes are model values: a contract is its text, a config is  *)
(* the text of config.toml.  What `uni verify` leaves on disk is kept, how *)
(* it gets there is the matter of Verify; `run` tells its proofs apart.  A *)
(* verification is a pair <<claim, verifier>>; a claim may have several of *)
(* them, or none.  A setting is what else makes the fingerprint of a run:  *)
(* the actor it goes as and the selectors that are authorized.             *)
(***************************************************************************)
EXTENDS Naturals, Sequences, FiniteSets, SequencesExt

CONSTANTS
  Contract, Config, Verifier, Setting,
  IntentOf,      \* [contract -> intent id]
  ClaimsOf,      \* [contract -> its claims]
  VerificationsOf,  \* [contract -> its verifications]
  RequiresOf,    \* [contract -> the claims with a REQUIRE, in order]
  Policies,      \* the policy files
  Paths,         \* the files of .uni/evidence in the order of their names
  Fingerprint,   \* [<<verifier, config, setting>> -> fingerprint of its runs]
  None,
  MaxRuns, MaxEdits, MaxTampering   \* bounds

Claim == UNION {ClaimsOf[c] : c \in Contract}

Verification == UNION {VerificationsOf[c] : c \in Contract}

\* The evidence file of a verification, and what it is called while written.
PathOf(v, k, s) == <<v[1], Fingerprint[<<v[2], k, s>>]>>
TempOf(path) == <<"tmp", path>>

(***************************************************************************)
(* What a file or a line of a bundle may say: a proof, a decision and what *)
(* it rests on, a record of each kind, a header and its records.           *)
(***************************************************************************)
Proofs == [by : Verification, contract : Contract, config : Config, setting : Setting, run : Nat]
Bases == UNION {[VerificationsOf[c] -> Nat] : c \in Contract}
IntentIds == {IntentOf[c] : c \in Contract}
Decisions == [intent : IntentIds, claims : SUBSET Claim, basis : Bases]

ContractBodies == [text : Contract, claims : SUBSET Claim, requires : Seq(Claim)]
AnyBody ==
  ContractBodies \cup [text : Config] \cup [text : Range(Policies)]
  \cup Proofs \cup [claim : Claim] \cup Decisions

RecordsOf(kind, bodies) == [kind : {kind}, sha256 : bodies, body : bodies]

\* "other": a kind that verify has no case for.
Records ==
  RecordsOf("contract", ContractBodies)
  \cup RecordsOf("registry", [text : Config])
  \cup RecordsOf("policy", [text : Range(Policies)])
  \cup RecordsOf("evidence", Proofs)
  \cup RecordsOf("binding", [claim : Claim])
  \cup RecordsOf("decision", Decisions)
  \cup RecordsOf("other", AnyBody)

Notes == {"written", "rewritten"}
Headers ==
  [body : [intent : IntentIds, registry_hash : Config, contract_hash : Contract,
           records : Nat, created_at : Notes, tool : Notes],
   sha256 : IntentIds \X Config \X Contract]
Bundles == [header : Headers, records : Seq(Records)]

\* A verification is of a claim of its contract; each proof has a file, which is
\* named for its claim and, in the fingerprint, its verifier; what is absent is
\* none of what may be there.
ASSUME BundleAssumption ==
  /\ \A c \in Contract : VerificationsOf[c] \subseteq ClaimsOf[c] \X Verifier
  /\ \A c \in Contract : RequiresOf[c] \in Seq(ClaimsOf[c])
  /\ \A u, w \in Verifier, k, g \in Config, s, t \in Setting :
       Fingerprint[<<u, k, s>>] = Fingerprint[<<w, g, t>>] => u = w
  /\ Paths \in Seq(Range(Paths))
  /\ \A v \in Verification, k \in Config, s \in Setting :
       /\ PathOf(v, k, s) \in Range(Paths)
       /\ TempOf(PathOf(v, k, s)) \in Range(Paths)
       /\ \A w \in Verification, g \in Config, t \in Setting :
            PathOf(v, k, s) # TempOf(PathOf(w, g, t))
  /\ Policies \in Seq(Range(Policies))
  /\ None \notin Proofs /\ None \notin Decisions /\ None \notin Bundles

VARIABLES
  contract, config,   \* the contract file and config.toml
  evidence,           \* [path -> proof, or None]
  bound,              \* the claims bindings.toml authorizes
  last,               \* decisions/last.json, or None
  verify,             \* a `uni verify` at work
  export,             \* a `uni bundle export` at work
  bundle,             \* the transport file, or None
  runs, edits, tampering,
  history

files == <<contract, config, evidence, bound, last>>
vars == <<files, verify, export, bundle, runs, edits, tampering, history>>

Idle == [pc |-> "idle"]

Init ==
  /\ contract \in Contract /\ config \in Config
  /\ evidence = [p \in Range(Paths) |-> None]
  /\ bound = {} /\ last = None
  /\ verify = Idle /\ export = Idle /\ bundle = None
  /\ runs = 0 /\ edits = 0 /\ tampering = 0
  /\ history = [settled |-> FALSE, calm |-> TRUE, persisted |-> FALSE, made |-> None]

(***************************************************************************)
(* history is read by no action.                                           *)
(*   settled: the last decision is about the contract and config as they   *)
(*     are, and no verify has persisted anything since                     *)
(*   calm: nobody changed a file since the export began                    *)
(*   persisted: a verify that has not decided persisted evidence, or one   *)
(*     decided during the export                                           *)
(*   made: these when the bundle was written, whether proofs of another    *)
(*     contract or config were left over, and what the bundle said         *)
(***************************************************************************)
Disturbed == [history EXCEPT !.calm = FALSE]

-----------------------------------------------------------------------------
(***************************************************************************)
(* The writers.  A proof at the path of a verification, of the same        *)
(* contract and config, may be reused.                                     *)
(***************************************************************************)
Found(v, s) == evidence[PathOf(v, config, s)]
Reusable(s) ==
  {v \in VerificationsOf[contract] :
     Found(v, s) # None /\ Found(v, s).contract = contract /\ Found(v, s).config = config}

VerifyStart ==
  /\ verify = Idle
  /\ runs < MaxRuns
  /\ Range(RequiresOf[contract]) \subseteq bound
  /\ \E s \in Setting : \E reused \in SUBSET Reusable(s) :
       verify' = [pc |-> "persist", contract |-> contract, config |-> config, setting |-> s,
                  todo |-> VerificationsOf[contract] \ reused, writing |-> {},
                  basis |-> [v \in VerificationsOf[contract] |->
                    IF v \in reused THEN Found(v, s).run ELSE runs + 1]]
  /\ runs' = runs + 1
  /\ UNCHANGED <<files, export, bundle, edits, tampering, history>>

\* Evidence is written to a temporary file beside its own, then renamed.
OwnPath(v) == PathOf(v, verify.config, verify.setting)
OwnProof(v) ==
  [by |-> v, contract |-> verify.contract, config |-> verify.config,
   setting |-> verify.setting, run |-> verify.basis[v]]
Undecided == [Disturbed EXCEPT !.settled = FALSE, !.persisted = TRUE]

WriteEvidence(v) ==
  /\ verify # Idle
  /\ v \in verify.todo /\ verify.writing = {}
  /\ evidence' = [evidence EXCEPT ![TempOf(OwnPath(v))] = OwnProof(v)]
  /\ verify' = [verify EXCEPT !.writing = {v}]
  /\ history' = Undecided
  /\ UNCHANGED <<contract, config, bound, last, export, bundle, runs, edits, tampering>>

RenameEvidence(v) ==
  /\ verify # Idle
  /\ v \in verify.writing
  /\ evidence' = [evidence EXCEPT ![OwnPath(v)] = OwnProof(v), ![TempOf(OwnPath(v))] = None]
  /\ verify' = [verify EXCEPT !.todo = @ \ {v}, !.writing = {}]
  /\ history' = Undecided
  /\ UNCHANGED <<contract, config, bound, last, export, bundle, runs, edits, tampering>>

\* The decision is about every claim, those without a verification too.
PersistDecision ==
  /\ verify # Idle
  /\ verify.todo = {}
  /\ last' = [intent |-> IntentOf[verify.contract], claims |-> ClaimsOf[verify.contract],
              basis |-> verify.basis]
  /\ verify' = Idle
  /\ history' = [Disturbed EXCEPT
       !.settled = contract = verify.contract /\ config = verify.config,
       !.persisted = export # Idle]
  /\ UNCHANGED <<contract, config, evidence, bound, export, bundle, runs, edits, tampering>>

\* A temporary file stays when the verify is killed before the rename.
Killed ==
  /\ verify # Idle
  /\ verify' = Idle
  /\ UNCHANGED <<files, export, bundle, runs, edits, tampering, history>>

\* A binding that no contract requires is nothing an export reads.
Required == UNION {Range(RequiresOf[c]) : c \in Contract}

Bind(c) ==
  /\ c \notin bound
  /\ bound' = bound \cup {c}
  /\ history' = Disturbed
  /\ UNCHANGED <<contract, config, evidence, last, verify, export, bundle, runs, edits, tampering>>

Edit ==
  /\ edits < MaxEdits
  /\ edits' = edits + 1
  /\ \/ contract' \in Contract \ {contract} /\ UNCHANGED config
     \/ config' \in Config \ {config} /\ UNCHANGED contract
  /\ history' = [Disturbed EXCEPT !.settled = FALSE]
  /\ UNCHANGED <<evidence, bound, last, verify, export, bundle, runs, tampering>>

-----------------------------------------------------------------------------
(***************************************************************************)
(* export: contract, registry and policies, evidence, bindings, decision,  *)
(* each read at its own moment.  A record carries the hash of its body.    *)
(***************************************************************************)
Record(kind, body) == [kind |-> kind, sha256 |-> body, body |-> body]
Pushed(record) == [export EXCEPT !.records = Append(@, record)]
Exporting(pc) == export # Idle /\ export.pc = pc

ReadContract ==
  /\ export = Idle /\ bundle = None
  /\ export' = [pc |-> "registry", contract |-> contract, config |-> None, listed |-> {}, at |-> 1,
       records |-> <<Record("contract",
         [text |-> contract, claims |-> ClaimsOf[contract], requires |-> RequiresOf[contract]])>>]
  /\ history' = [history EXCEPT !.calm = TRUE]
  /\ UNCHANGED <<files, verify, bundle, runs, edits, tampering>>

ReadRegistry ==
  /\ Exporting("registry")
  /\ export' = [export EXCEPT !.pc = "list", !.config = config,
       !.records = @ \o <<Record("registry", [text |-> config])>>
                     \o [i \in DOMAIN Policies |-> Record("policy", [text |-> Policies[i]])]]

\* The directory is listed first, the temporary files in it too.
ListEvidence ==
  /\ Exporting("list")
  /\ export' = [export EXCEPT !.pc = "evidence",
       !.listed = {p \in Range(Paths) : evidence[p] # None}]

\* Mutant of Wanted: every evidence file goes in.
WantedAny(proof) == proof # None

\* Only evidence of a claim of this contract; a file gone since the listing is
\* passed over.
Wanted(proof) == proof # None /\ proof.by[1] \in ClaimsOf[export.contract]

\* The files listed are read in the order of their names.
ReadEvidence ==
  /\ Exporting("evidence")
  /\ \/ export.listed = {} /\ export' = [export EXCEPT !.pc = "binding"]
     \/ \E n \in DOMAIN Paths :
          /\ Paths[n] \in export.listed
          /\ \A m \in 1..n - 1 : Paths[m] \notin export.listed
          /\ LET proof == evidence[Paths[n]] IN
             export' = [(IF Wanted(proof) THEN Pushed(Record("evidence", proof)) ELSE export)
                          EXCEPT !.listed = @ \ {Paths[n]}]

ReadBinding ==
  /\ Exporting("binding")
  /\ IF export.at > Len(RequiresOf[export.contract])
     THEN export' = [export EXCEPT !.pc = "decision"]
     ELSE LET c == RequiresOf[export.contract][export.at] IN
          export' = [(IF c \in bound THEN Pushed(Record("binding", [claim |-> c])) ELSE export)
                       EXCEPT !.at = @ + 1]

\* The last decision, if it belongs to this intent.
ReadDecision ==
  /\ Exporting("decision")
  /\ export' = [(IF last # None /\ last.intent = IntentOf[export.contract]
                 THEN Pushed(Record("decision", last)) ELSE export) EXCEPT !.pc = "write"]

HeaderBody == bundle.header.body
HeaderHash(h) == <<h.intent, h.registry_hash, h.contract_hash>>

Header ==
  LET h == [intent |-> IntentOf[export.contract], registry_hash |-> export.config,
            contract_hash |-> export.contract, records |-> Len(export.records),
            created_at |-> "written", tool |-> "written"]
  IN  [body |-> h, sha256 |-> HeaderHash(h)]

\* What the hashes of a bundle cover, and how many records it has.
Contents(b) ==
  [bodies |-> {b.records[i].body : i \in DOMAIN b.records}, records |-> Len(b.records),
   hashed |-> HeaderHash(b.header.body)]

\* Proofs of this contract's claims from another contract or config, and claims
\* of it that nothing verifies.
Leftover ==
  {p \in Range(Paths) : /\ evidence[p] # None
                        /\ evidence[p].by[1] \in ClaimsOf[export.contract]
                        /\ \/ evidence[p].contract # export.contract
                           \/ evidence[p].config # export.config}
Unverified == ClaimsOf[export.contract] \ {v[1] : v \in VerificationsOf[export.contract]}

WriteBundle ==
  /\ Exporting("write")
  /\ bundle' = [header |-> Header, records |-> export.records]
  /\ history' = [history EXCEPT !.made =
       [calm |-> history.calm, settled |-> history.settled,
        persisted |-> history.persisted, leftover |-> Leftover # {},
        unverified |-> Unverified # {}, contents |-> Contents(bundle')]]
  /\ export' = Idle
  /\ UNCHANGED <<files, verify, runs, edits, tampering>>

Export ==
  /\ ReadRegistry \/ ListEvidence \/ ReadEvidence \/ ReadBinding \/ ReadDecision
  /\ UNCHANGED <<files, verify, bundle, runs, edits, tampering, history>>

(***************************************************************************)
(* Transport: the list of records, one record or one field of the header   *)
(* is changed on the way.                                                  *)
(***************************************************************************)
ChangeList ==
  \E i \in DOMAIN bundle.records :
    \/ bundle' = [bundle EXCEPT !.records = RemoveAt(@, i)]
    \/ bundle' = [bundle EXCEPT !.records = Append(@, bundle.records[i])]
    \/ \E k \in DOMAIN bundle.records \ {i} :
         bundle' = [bundle EXCEPT !.records[i] = bundle.records[k], !.records[k] = bundle.records[i]]

ChangeRecord ==
  \E i \in DOMAIN bundle.records :
    \/ /\ bundle.records[i].kind = "evidence"
       /\ \E k \in Config \ {bundle.records[i].body.config} :
            bundle' = [bundle EXCEPT !.records[i].body.config = k]
    \/ /\ bundle.records[i].kind = "contract"
       /\ \E c \in Contract \ {bundle.records[i].body.text} :
            bundle' = [bundle EXCEPT !.records[i].body.text = c]
    \/ /\ bundle.records[i].kind # "other"
       /\ bundle' = [bundle EXCEPT !.records[i].kind = "other"]

ChangeHeader ==
  \/ \E k \in Config \ {HeaderBody.registry_hash} :
       bundle' = [bundle EXCEPT !.header.body.registry_hash = k]
  \/ \E x \in IntentIds \ {HeaderBody.intent} : bundle' = [bundle EXCEPT !.header.body.intent = x]
  \/ bundle' = [bundle EXCEPT !.header.body.records = @ + 1]
  \/ bundle' = [bundle EXCEPT !.header.body.created_at = "rewritten"]
  \/ bundle' = [bundle EXCEPT !.header.body.tool = "rewritten"]

Transport ==
  /\ bundle # None
  /\ tampering < MaxTampering
  /\ tampering' = tampering + 1
  /\ ChangeList \/ ChangeRecord \/ ChangeHeader
  /\ UNCHANGED <<files, verify, export, runs, edits, history>>

Next ==
  \/ VerifyStart \/ PersistDecision \/ Killed \/ Edit
  \/ \E v \in Verification : WriteEvidence(v) \/ RenameEvidence(v)
  \/ \E c \in Required : Bind(c)
  \/ ReadContract \/ Export \/ WriteBundle \/ Transport

Spec == Init /\ [][Next]_vars

-----------------------------------------------------------------------------
(***************************************************************************)
(* verify: reads the bundle only, and reports.                             *)
(***************************************************************************)
Bodies(kind) ==
  {bundle.records[i].body : i \in {n \in DOMAIN bundle.records : bundle.records[n].kind = kind}}

ContractClaims == UNION {b.claims : b \in Bodies("contract")}
Requirements == UNION {Range(b.requires) : b \in Bodies("contract")}
EvidenceClaims == {b.by[1] : b \in Bodies("evidence")}
DecisionClaims == UNION {b.claims : b \in Bodies("decision")}

\* Mutant of IntegrityErrors: the records are not counted.
IntegrityErrorsUncounted ==
  (IF HeaderHash(HeaderBody) # bundle.header.sha256 THEN {"header"} ELSE {})
  \cup {bundle.records[i].kind : i \in {n \in DOMAIN bundle.records :
                                          bundle.records[n].sha256 # bundle.records[n].body}}

IntegrityErrors ==
  (IF HeaderHash(HeaderBody) # bundle.header.sha256 THEN {"header"} ELSE {})
  \cup {bundle.records[i].kind : i \in {n \in DOMAIN bundle.records :
                                          bundle.records[n].sha256 # bundle.records[n].body}}
  \cup (IF \E b \in Bodies("contract") : b.text # HeaderBody.contract_hash THEN {"contract text"} ELSE {})
  \cup (IF \E b \in Bodies("registry") : b.text # HeaderBody.registry_hash THEN {"registry text"} ELSE {})
  \cup (IF Len(bundle.records) # HeaderBody.records THEN {"records"} ELSE {})

\* Mutant of CrossCheckErrors: the registry of the evidence is not looked at.
CrossCheckErrorsButRegistry ==
  {b \in Bodies("evidence") : b.contract # HeaderBody.contract_hash}
  \cup (Requirements \ {b.claim : b \in Bodies("binding")})
  \cup (DecisionClaims \ EvidenceClaims)
  \cup (EvidenceClaims \ ContractClaims)

CrossCheckErrors ==
  {b \in Bodies("evidence") : b.config # HeaderBody.registry_hash \/ b.contract # HeaderBody.contract_hash}
  \cup (Requirements \ {b.claim : b \in Bodies("binding")})
  \cup (DecisionClaims \ EvidenceClaims)
  \cup (EvidenceClaims \ ContractClaims)

Consistent == IntegrityErrors = {} /\ CrossCheckErrors = {}
Covered == ContractClaims \cap EvidenceClaims

-----------------------------------------------------------------------------
Untouched == bundle # None /\ tampering = 0

(***************************************************************************)
(* Exported from a workspace at rest after a decision, and left alone on   *)
(* the way, a bundle carries the decision, and it is consistent just when  *)
(* no proof of another contract or config of the same claims was left in   *)
(* .uni/evidence, temporary files included, and every claim has a VERIFY;  *)
(* it then covers every claim.                                             *)
(***************************************************************************)
HonestExportPasses ==
  Untouched /\ history.made.calm /\ history.made.settled =>
    /\ Bodies("decision") # {}
    /\ Consistent <=> ~history.made.leftover /\ ~history.made.unverified
    /\ Consistent => Covered = ContractClaims

(***************************************************************************)
(* docs/evidence.md: cross-checks reject bundles whose pieces do not       *)
(* belong together.  Whatever was written, edited or killed while export   *)
(* read, the proofs of a consistent bundle are all of the contract and the *)
(* registry in it, and every proof its decision rests on is one of them,   *)
(* unless a verify persisted evidence it had not decided on, or decided    *)
(* during the export.                                                      *)
(***************************************************************************)
PiecesBelongTogether ==
  Untouched /\ Consistent =>
    /\ \A b \in Bodies("evidence") :
         /\ \A c \in Bodies("contract") : b.contract = c.text
         /\ \A r \in Bodies("registry") : b.config = r.text
    /\ ~history.made.persisted =>
         \A decision \in Bodies("decision") : \A v \in DOMAIN decision.basis :
           \E b \in Bodies("evidence") : b.by = v /\ b.run = decision.basis[v]

(***************************************************************************)
(* What the hashes seal: after one change on the way that leaves no error, *)
(* the bodies of the records, their number and the hashed fields of the    *)
(* header are those that were exported.  The order and the kind of records *)
(* and the rest of the header are not sealed.                              *)
(***************************************************************************)
HashedPartsSealed ==
  bundle # None /\ tampering = 1 /\ IntegrityErrors = {} =>
    Contents(bundle) = history.made.contents
=============================================================================
