---------------------------- MODULE BundleProofs ----------------------------
(***************************************************************************)
(* What a bundle is worth, for any contracts, registries and evidence, and *)
(* however verify, bind and people interleave with the export.             *)
(***************************************************************************)
EXTENDS Bundle, TLAPS

HistoryOK == history \in [settled : BOOLEAN, calm : BOOLEAN, persisted : BOOLEAN, made : {history.made}]

\* The proof in the file of a verification is its own, and every proof is of a
\* verification of its contract.
FilesOK ==
  /\ contract \in Contract /\ config \in Config
  /\ evidence \in [Range(Paths) -> Proofs \cup {None}]
  /\ \A v \in Verification, k \in Config, s \in Setting :
       evidence[PathOf(v, k, s)] # None => evidence[PathOf(v, k, s)].by = v
  /\ \A p \in Range(Paths) :
       evidence[p] # None => evidence[p].by \in VerificationsOf[evidence[p].contract]
  /\ bound \subseteq Claim
  /\ last \in Decisions \cup {None}
  /\ runs \in Nat
  /\ HistoryOK

Runs ==
  [pc : {"persist"}, contract : Contract, config : Config, setting : Setting,
   todo : SUBSET Verification, writing : SUBSET Verification, basis : Bases]

\* There is a proof of run n of verification v on disk.
OnDisk(v, n) ==
  \E p \in Range(Paths) : evidence[p] # None /\ evidence[p].by = v /\ evidence[p].run = n

\* What a verify at work need not persist any more is on disk.
VerifyOK ==
  verify # Idle =>
    /\ verify \in Runs
    /\ verify.writing \subseteq verify.todo
    /\ verify.todo \subseteq VerificationsOf[verify.contract]
    /\ verify.basis \in [VerificationsOf[verify.contract] -> Nat]
    /\ Range(RequiresOf[verify.contract]) \subseteq bound
    /\ \A v \in VerificationsOf[verify.contract] \ verify.todo :
         /\ evidence[OwnPath(v)] # None
         /\ evidence[OwnPath(v)].by = v /\ evidence[OwnPath(v)].run = verify.basis[v]

\* A settled decision is about the files as they are.
SettledOK ==
  history.settled =>
    /\ last # None /\ last.intent = IntentOf[contract] /\ last.claims = ClaimsOf[contract]
    /\ Range(RequiresOf[contract]) \subseteq bound
    /\ \A v \in VerificationsOf[contract] : \E n \in Nat : OnDisk(v, n)

\* The last decision rests on proofs that are there, unless others came later.
LastOK ==
  last # None =>
    /\ \A v \in DOMAIN last.basis : v[1] \in last.claims
    /\ ~history.persisted => \A v \in DOMAIN last.basis : OnDisk(v, last.basis[v])

-----------------------------------------------------------------------------
Exports ==
  [pc : {"registry", "list", "evidence", "binding", "decision", "write"}, contract : Contract,
   config : Config \cup {None}, listed : SUBSET Range(Paths), at : Nat \ {0},
   records : Seq(Records)]

Written == Range(export.records)

BodyOfContract(x) == [text |-> x, claims |-> ClaimsOf[x], requires |-> RequiresOf[x]]

\* What a record says of the contract and the registry the export read.
Faithful(r) ==
  /\ r.sha256 = r.body
  /\ r.kind = "contract" => r.body = BodyOfContract(export.contract)
  /\ r.kind = "registry" => export.pc # "registry" /\ r.body.text = export.config
  /\ r.kind = "decision" => export.pc = "write"
  /\ r.kind = "evidence" =>
       r.body.by[1] \in ClaimsOf[export.contract] /\ export.pc \notin {"registry", "list"}

\* The records of an export are of the one contract and registry it read.
ExportOK ==
  export # Idle =>
    /\ bundle = None
    /\ export \in Exports
    /\ export.pc \in {"registry", "list", "evidence"} => export.at = 1
    /\ export.pc # "registry" => export.config \in Config
    /\ Record("contract", BodyOfContract(export.contract)) \in Written
    /\ \A r \in Written : Faithful(r)

\* A file of evidence, or the n-th requirement, has been read.
EvidenceRead(p) ==
  \/ export.pc \in {"binding", "decision", "write"}
  \/ export.pc = "evidence" /\ p \notin export.listed
BindingRead(n) ==
  \/ export.pc \in {"decision", "write"}
  \/ export.pc = "binding" /\ n < export.at

\* While no proof and no decision is written, what export read is what is there.
SnapshotOK ==
  export # Idle /\ (history.calm \/ ~history.persisted) =>
    /\ \A p \in Range(Paths) : EvidenceRead(p) /\ Wanted(evidence[p]) =>
         Record("evidence", evidence[p]) \in Written
    /\ \A r \in Written : r.kind = "decision" => r.body = last

\* While nobody writes at all, so are contract, config, bindings and decision.
CalmOK ==
  export # Idle /\ history.calm =>
    /\ contract = export.contract
    /\ export.pc # "registry" => config = export.config
    /\ \A r \in Written : r.kind = "evidence" => \E p \in Range(Paths) : r.body = evidence[p]
    /\ \A n \in DOMAIN RequiresOf[export.contract] :
         BindingRead(n) /\ RequiresOf[export.contract][n] \in bound =>
           Record("binding", [claim |-> RequiresOf[export.contract][n]]) \in Written
    /\ export.pc = "write" /\ last # None /\ last.intent = IntentOf[export.contract] =>
         Record("decision", last) \in Written

-----------------------------------------------------------------------------
\* Every body is the one its hash was taken of, the header too, and all are counted.
Sealed ==
  /\ \A i \in DOMAIN bundle.records : bundle.records[i].sha256 = bundle.records[i].body
  /\ bundle.header.sha256 = HeaderHash(HeaderBody)
  /\ HeaderBody.records = Len(bundle.records)

\* What the theorems promise of a bundle, and why one change shows.
BundleOK ==
  /\ tampering \in Nat
  /\ bundle = None => tampering = 0
  /\ bundle # None =>
       /\ bundle \in Bundles
       /\ tampering = 0 => Sealed /\ Contents(bundle) = history.made.contents
       /\ HonestExportPasses /\ PiecesBelongTogether /\ HashedPartsSealed

-----------------------------------------------------------------------------
(* Sequences as the set of their elements *)

\* Append adds one element, and none is left out.
LEMMA AppendRange ==
  ASSUME NEW S, NEW s \in Seq(S), NEW e \in S
  PROVE  /\ Append(s, e) \in Seq(S) /\ Range(Append(s, e)) = Range(s) \cup {e}
         /\ Len(Append(s, e)) = Len(s) + 1
<1> DEFINE t == Append(s, e)
<1>1. /\ t \in Seq(S) /\ Len(t) = Len(s) + 1 /\ Len(s) \in Nat
      /\ DOMAIN s = 1..Len(s) /\ DOMAIN t = 1..Len(s) + 1
      /\ \A i \in 1..Len(s) : t[i] = s[i]
      /\ t[Len(s) + 1] = e
  OBVIOUS
<1> HIDE DEF t
<1>2. ASSUME NEW x \in Range(t) PROVE x \in Range(s) \cup {e}
  <2>1. PICK i \in 1..Len(s) + 1 : x = t[i]
    BY <1>1 DEF Range
  <2>2. i \in 1..Len(s) \/ i = Len(s) + 1
    BY <1>1
  <2> QED BY <1>1, <2>1, <2>2 DEF Range
<1>3. ASSUME NEW x \in Range(s) PROVE x \in Range(t)
  <2>1. PICK i \in 1..Len(s) : x = s[i]
    BY <1>1 DEF Range
  <2>2. i \in 1..Len(s) + 1
    BY <1>1
  <2> QED BY <1>1, <2>1, <2>2 DEF Range
<1>4. e \in Range(t)
  <2>1. Len(s) + 1 \in 1..Len(s) + 1
    BY <1>1
  <2> QED BY <1>1, <2>1 DEF Range
<1> QED BY <1>1, <1>2, <1>3, <1>4 DEF t

\* The same of two sequences one after the other.
LEMMA ConcatRange ==
  ASSUME NEW S, NEW s \in Seq(S), NEW t \in Seq(S)
  PROVE  /\ s \o t \in Seq(S) /\ Range(s \o t) = Range(s) \cup Range(t)
         /\ Len(s \o t) = Len(s) + Len(t)
<1> DEFINE u == s \o t
<1>1. /\ u \in Seq(S) /\ Len(s) \in Nat /\ Len(t) \in Nat
      /\ DOMAIN s = 1..Len(s) /\ DOMAIN t = 1..Len(t) /\ DOMAIN u = 1..Len(s) + Len(t)
      /\ \A i \in 1..Len(s) : u[i] = s[i]
      /\ \A i \in 1..Len(t) : u[Len(s) + i] = t[i]
  OBVIOUS
<1> HIDE DEF u
<1>2. ASSUME NEW x \in Range(u) PROVE x \in Range(s) \cup Range(t)
  <2>1. PICK i \in 1..Len(s) + Len(t) : x = u[i]
    BY <1>1 DEF Range
  <2>2. CASE i <= Len(s)
    <3>1. i \in 1..Len(s)
      BY <1>1, <2>2
    <3> QED BY <1>1, <2>1, <3>1 DEF Range
  <2>3. CASE ~(i <= Len(s))
    <3>1. i - Len(s) \in 1..Len(t) /\ Len(s) + (i - Len(s)) = i
      BY <1>1, <2>3
    <3>2. x = t[i - Len(s)]
      BY <1>1, <2>1, <3>1
    <3> QED BY <1>1, <3>1, <3>2 DEF Range
  <2> QED BY <2>2, <2>3
<1>3. ASSUME NEW x \in Range(s) PROVE x \in Range(u)
  <2>1. PICK i \in 1..Len(s) : x = s[i]
    BY <1>1 DEF Range
  <2>2. i \in 1..Len(s) + Len(t)
    BY <1>1
  <2> QED BY <1>1, <2>1, <2>2 DEF Range
<1>4. ASSUME NEW x \in Range(t) PROVE x \in Range(u)
  <2>1. PICK i \in 1..Len(t) : x = t[i]
    BY <1>1 DEF Range
  <2>2. Len(s) + i \in 1..Len(s) + Len(t)
    BY <1>1
  <2> QED BY <1>1, <2>1, <2>2 DEF Range
<1> QED BY <1>1, <1>2, <1>3, <1>4 DEF u

-----------------------------------------------------------------------------
(* The writers *)

\* A verification is of a claim of its contract.
LEMMA ClaimVerified ==
  ASSUME NEW c \in Contract, NEW v \in VerificationsOf[c]
  PROVE  v[1] \in ClaimsOf[c] /\ v[1] \in Claim /\ v \in Verification
  BY BundleAssumption DEF Claim, Verification

\* A file is named for one verification: another's proof is in another file.
LEMMA PathsApart ==
  ASSUME NEW v \in Verification, NEW w \in Verification, NEW k \in Config, NEW g \in Config,
         NEW s \in Setting, NEW t \in Setting, PathOf(v, k, s) = PathOf(w, g, t)
  PROVE  v = w
<1>1. PICK c \in Contract : v \in VerificationsOf[c]
  BY DEF Verification
<1>2. PICK d \in Contract : w \in VerificationsOf[d]
  BY DEF Verification
<1>3. /\ v \in ClaimsOf[c] \X Verifier /\ w \in ClaimsOf[d] \X Verifier
  BY <1>1, <1>2, BundleAssumption
<1>4. v[1] = w[1] /\ Fingerprint[<<v[2], k, s>>] = Fingerprint[<<w[2], g, t>>]
  BY DEF PathOf
<1>5. v[2] = w[2]
  BY <1>3, <1>4, BundleAssumption
<1> QED BY <1>3, <1>4, <1>5

\* A proof that may be reused is one of this verification.
LEMMA ReusableProof ==
  ASSUME FilesOK, NEW s \in Setting, NEW v \in Reusable(s)
  PROVE  /\ v \in VerificationsOf[contract]
         /\ Found(v, s) # None /\ Found(v, s).by = v /\ Found(v, s).run \in Nat
<1>1. v \in VerificationsOf[contract] /\ Found(v, s) # None
  BY DEF Reusable
<1>2. v \in Verification /\ config \in Config
  BY <1>1, ClaimVerified DEF FilesOK
<1>3. PathOf(v, config, s) \in Range(Paths)
  BY <1>2, BundleAssumption
<1> QED BY <1>1, <1>2, <1>3 DEF FilesOK, Found, Proofs

\* The files are as good as they were when none of them is written.
LEMMA FilesStay ==
  ASSUME FilesOK, UNCHANGED <<contract, config, evidence, bound, last, runs>>, HistoryOK'
  PROVE  FilesOK'
  BY DEF FilesOK

\* What a starting verify need not persist, it found on disk.
LEMMA VerifyStartKeeps ==
  ASSUME FilesOK, VerifyStart
  PROVE  FilesOK' /\ VerifyOK'
<1>1. UNCHANGED <<contract, config, evidence, bound, last, history>> /\ runs' = runs + 1
  BY DEF VerifyStart, files
<1>2. FilesOK'
  BY <1>1 DEF FilesOK, HistoryOK
<1>3. PICK s \in Setting : \E reused \in SUBSET Reusable(s) :
        verify' = [pc |-> "persist", contract |-> contract, config |-> config, setting |-> s,
                   todo |-> VerificationsOf[contract] \ reused, writing |-> {},
                   basis |-> [v \in VerificationsOf[contract] |->
                     IF v \in reused THEN Found(v, s).run ELSE runs + 1]]
  BY DEF VerifyStart
<1>4. PICK reused \in SUBSET Reusable(s) :
        verify' = [pc |-> "persist", contract |-> contract, config |-> config, setting |-> s,
                   todo |-> VerificationsOf[contract] \ reused, writing |-> {},
                   basis |-> [v \in VerificationsOf[contract] |->
                     IF v \in reused THEN Found(v, s).run ELSE runs + 1]]
  BY <1>3
<1> DEFINE basis == [v \in VerificationsOf[contract] |->
                      IF v \in reused THEN Found(v, s).run ELSE runs + 1]
<1>5. basis \in [VerificationsOf[contract] -> Nat]
  <2>1. ASSUME NEW v \in VerificationsOf[contract]
        PROVE  (IF v \in reused THEN Found(v, s).run ELSE runs + 1) \in Nat
    BY ReusableProof DEF FilesOK
  <2> QED BY <2>1
<1>6. contract \in Contract /\ config \in Config
  BY DEF FilesOK
<1>7. VerificationsOf[contract] \subseteq Verification /\ basis \in Bases
  BY <1>5, <1>6 DEF Verification, Bases
<1>8. ASSUME NEW v \in VerificationsOf[contract] \ (VerificationsOf[contract] \ reused)
      PROVE  Found(v, s) # None /\ Found(v, s).by = v /\ Found(v, s).run = basis[v]
  BY <1>8, ReusableProof
<1>9. Range(RequiresOf[contract]) \subseteq bound
  BY DEF VerifyStart
<1> HIDE DEF basis
<1>10. /\ verify' = [pc |-> "persist", contract |-> contract, config |-> config, setting |-> s,
                    todo |-> VerificationsOf[contract] \ reused, writing |-> {}, basis |-> basis]
  BY <1>4 DEF basis
<1>11. verify' \in Runs
  BY <1>6, <1>7, <1>10 DEF Runs
<1>12. ASSUME NEW v \in VerificationsOf[contract] \ (VerificationsOf[contract] \ reused)
       PROVE  /\ evidence'[OwnPath(v)'] # None
              /\ evidence'[OwnPath(v)'].by = v /\ evidence'[OwnPath(v)'].run = basis[v]
  <2>1. OwnPath(v)' = PathOf(v, config, s)
    BY <1>10 DEF OwnPath, PathOf
  <2> QED BY <1>1, <1>8, <2>1 DEF Found
<1>13. VerifyOK'
  BY <1>1, <1>5, <1>9, <1>10, <1>11, <1>12 DEF VerifyOK
<1> QED BY <1>2, <1>13

\* What a verify writes is a proof of its contract, in files that have a name.
LEMMA OwnFiles ==
  ASSUME FilesOK, VerifyOK, verify # Idle, NEW v \in verify.todo
  PROVE  /\ verify \in Runs /\ v \in Verification /\ v \in VerificationsOf[verify.contract]
         /\ OwnPath(v) \in Range(Paths) /\ TempOf(OwnPath(v)) \in Range(Paths)
         /\ OwnProof(v) \in Proofs /\ OwnProof(v) # None /\ OwnProof(v).by = v
         /\ OwnProof(v).contract = verify.contract /\ OwnProof(v).run = verify.basis[v]
<1>1. /\ verify \in Runs /\ v \in VerificationsOf[verify.contract]
      /\ verify.basis \in [VerificationsOf[verify.contract] -> Nat]
  BY DEF VerifyOK
<1>2. /\ verify.contract \in Contract /\ verify.config \in Config /\ verify.setting \in Setting
      /\ verify.basis[v] \in Nat
  BY <1>1 DEF Runs
<1>3. v \in Verification
  BY <1>1, <1>2, ClaimVerified
<1>4. OwnPath(v) \in Range(Paths) /\ TempOf(OwnPath(v)) \in Range(Paths)
  BY <1>2, <1>3, BundleAssumption DEF OwnPath
<1>5. OwnProof(v) \in Proofs
  BY <1>2, <1>3 DEF Proofs, OwnProof
<1> QED BY <1>1, <1>3, <1>4, <1>5, BundleAssumption DEF OwnProof

\* No temporary file is the file of a verification.
LEMMA TempApart ==
  ASSUME VerifyOK, verify # Idle, NEW v \in verify.todo,
         NEW w \in Verification, NEW k \in Config, NEW s \in Setting
  PROVE  PathOf(w, k, s) # TempOf(OwnPath(v))
<1>1. verify \in Runs /\ v \in Verification
  BY DEF VerifyOK, Runs
<1>2. verify.config \in Config /\ verify.setting \in Setting
  BY <1>1 DEF Runs
<1> QED BY <1>1, <1>2, BundleAssumption DEF OwnPath

\* A proof in its temporary file is in nobody's way.
LEMMA WriteEvidenceKeeps ==
  ASSUME FilesOK, VerifyOK, NEW v, WriteEvidence(v)
  PROVE  FilesOK' /\ VerifyOK'
<1> DEFINE temp == TempOf(OwnPath(v))
           proof == OwnProof(v)
<1>1. /\ verify # Idle /\ v \in verify.todo /\ evidence' = [evidence EXCEPT ![temp] = proof]
      /\ verify' = [verify EXCEPT !.writing = {v}]
      /\ history' = [history EXCEPT !.calm = FALSE, !.settled = FALSE, !.persisted = TRUE]
      /\ UNCHANGED <<contract, config, bound, last, runs>>
  BY DEF WriteEvidence, Undecided, Disturbed
<1>2. /\ temp \in Range(Paths) /\ proof \in Proofs /\ v \in Verification
      /\ proof.by \in VerificationsOf[proof.contract]
  BY <1>1, OwnFiles
<1>3. /\ evidence' \in [Range(Paths) -> Proofs \cup {None}]
      /\ evidence'[temp] = proof
      /\ \A q \in Range(Paths) : q # temp => evidence'[q] = evidence[q]
  BY <1>1, <1>2 DEF FilesOK
<1>4. ASSUME NEW w \in Verification, NEW k \in Config, NEW s \in Setting
      PROVE  evidence'[PathOf(w, k, s)] = evidence[PathOf(w, k, s)]
  <2>1. PathOf(w, k, s) \in Range(Paths) /\ PathOf(w, k, s) # temp
    BY <1>1, TempApart, BundleAssumption
  <2> QED BY <1>3, <2>1
<1>5. HistoryOK'
  BY <1>1 DEF FilesOK, HistoryOK
<1> HIDE DEF temp, proof
<1>6. FilesOK'
  <2>1. \A p \in Range(Paths) :
          evidence'[p] # None => evidence'[p].by \in VerificationsOf[evidence'[p].contract]
    BY <1>2, <1>3 DEF FilesOK
  <2> QED BY <1>1, <1>3, <1>4, <1>5, <2>1 DEF FilesOK
<1>7. verify \in Runs /\ verify.todo \subseteq VerificationsOf[verify.contract]
  BY <1>1 DEF VerifyOK
<1>8. /\ verify' \in Runs /\ verify'.writing = {v} /\ verify'.todo = verify.todo
      /\ verify'.contract = verify.contract /\ verify'.config = verify.config
      /\ verify'.setting = verify.setting /\ verify'.basis = verify.basis
  BY <1>1, <1>2, <1>7 DEF Runs
<1>9. ASSUME NEW w \in VerificationsOf[verify.contract]
      PROVE  evidence'[OwnPath(w)'] = evidence[OwnPath(w)]
  <2>1. w \in Verification /\ verify.config \in Config /\ verify.setting \in Setting
    BY <1>7, ClaimVerified DEF Runs
  <2>2. OwnPath(w)' = OwnPath(w)
    BY <1>8 DEF OwnPath, PathOf
  <2> QED BY <1>4, <2>1, <2>2 DEF OwnPath
<1>10. VerifyOK'
  BY <1>1, <1>8, <1>9 DEF VerifyOK
<1> QED BY <1>6, <1>10

\* A proof renamed is in the file named for it, and no longer to do.
LEMMA RenameEvidenceKeeps ==
  ASSUME FilesOK, VerifyOK, NEW v, RenameEvidence(v)
  PROVE  FilesOK' /\ VerifyOK'
<1> DEFINE path == OwnPath(v)
           temp == TempOf(path)
           proof == OwnProof(v)
<1>1. /\ verify # Idle /\ v \in verify.writing
      /\ evidence' = [evidence EXCEPT ![path] = proof, ![temp] = None]
      /\ verify' = [verify EXCEPT !.todo = @ \ {v}, !.writing = {}]
      /\ history' = [history EXCEPT !.calm = FALSE, !.settled = FALSE, !.persisted = TRUE]
      /\ UNCHANGED <<contract, config, bound, last, runs>>
  BY DEF RenameEvidence, Undecided, Disturbed
<1>2. v \in verify.todo
  BY <1>1 DEF VerifyOK
<1>3. /\ verify \in Runs /\ path \in Range(Paths) /\ temp \in Range(Paths) /\ proof \in Proofs
      /\ v \in Verification /\ proof # None /\ proof.by = v /\ proof.run = verify.basis[v]
      /\ proof.by \in VerificationsOf[proof.contract]
  BY <1>1, <1>2, OwnFiles
<1>4. /\ verify.config \in Config /\ verify.setting \in Setting
      /\ path = PathOf(v, verify.config, verify.setting)
  BY <1>3 DEF Runs, OwnPath
<1>5. path # temp
  BY <1>1, <1>2, <1>3, <1>4, TempApart
<1> HIDE DEF path, temp, proof
<1>6. /\ evidence' \in [Range(Paths) -> Proofs \cup {None}]
      /\ evidence'[path] = proof /\ evidence'[temp] = None
      /\ \A q \in Range(Paths) : q # path /\ q # temp => evidence'[q] = evidence[q]
  BY <1>1, <1>3, <1>5 DEF FilesOK
<1>7. ASSUME NEW w \in Verification, NEW k \in Config, NEW s \in Setting
      PROVE  evidence'[PathOf(w, k, s)]
               = IF PathOf(w, k, s) = path THEN proof ELSE evidence[PathOf(w, k, s)]
  <2>1. PathOf(w, k, s) \in Range(Paths) /\ PathOf(w, k, s) # temp
    BY <1>1, <1>2, TempApart, BundleAssumption DEF temp, path
  <2> QED BY <1>6, <2>1
<1>8. HistoryOK'
  BY <1>1 DEF FilesOK, HistoryOK
<1>9. FilesOK'
  <2>1. ASSUME NEW w \in Verification, NEW k \in Config, NEW s \in Setting,
               evidence'[PathOf(w, k, s)] # None
        PROVE  evidence'[PathOf(w, k, s)].by = w
    <3>1. CASE PathOf(w, k, s) = path
      <4>1. w = v
        BY <1>3, <1>4, <3>1, PathsApart
      <4> QED BY <1>3, <1>7, <3>1, <4>1
    <3>2. CASE PathOf(w, k, s) # path
      <4>1. evidence'[PathOf(w, k, s)] = evidence[PathOf(w, k, s)]
        BY <1>7, <3>2
      <4> QED BY <2>1, <4>1 DEF FilesOK
    <3> QED BY <3>1, <3>2
  <2>2. \A p \in Range(Paths) :
          evidence'[p] # None => evidence'[p].by \in VerificationsOf[evidence'[p].contract]
    BY <1>3, <1>6 DEF FilesOK
  <2> QED BY <1>1, <1>6, <1>8, <2>1, <2>2 DEF FilesOK
<1>10. /\ verify' \in Runs /\ verify'.writing = {} /\ verify'.todo = verify.todo \ {v}
       /\ verify'.contract = verify.contract /\ verify'.config = verify.config
       /\ verify'.setting = verify.setting /\ verify'.basis = verify.basis
  BY <1>1, <1>3 DEF Runs
<1>11. ASSUME NEW w \in VerificationsOf[verify.contract] \ (verify.todo \ {v})
       PROVE  /\ evidence'[OwnPath(w)'] # None
              /\ evidence'[OwnPath(w)'].by = w /\ evidence'[OwnPath(w)'].run = verify.basis[w]
  <2>1. w \in Verification
    BY <1>3, ClaimVerified DEF Runs
  <2>2. OwnPath(w)' = PathOf(w, verify.config, verify.setting)
    BY <1>10 DEF OwnPath, PathOf
  <2>3. CASE w = v
    BY <1>3, <1>4, <1>6, <2>2, <2>3
  <2>4. CASE w # v
    <3>1. PathOf(w, verify.config, verify.setting) # path
      BY <1>3, <1>4, <2>1, <2>4, PathsApart
    <3>2. evidence'[OwnPath(w)'] = evidence[OwnPath(w)]
      BY <1>4, <1>7, <2>1, <2>2, <3>1 DEF OwnPath
    <3>3. w \in VerificationsOf[verify.contract] \ verify.todo
      BY <1>11, <2>4
    <3> QED BY <1>1, <3>2, <3>3 DEF VerifyOK
  <2> QED BY <2>3, <2>4
<1>12. VerifyOK'
  <2>1. /\ verify.todo \subseteq VerificationsOf[verify.contract]
        /\ verify.basis \in [VerificationsOf[verify.contract] -> Nat]
        /\ Range(RequiresOf[verify.contract]) \subseteq bound'
    BY <1>1 DEF VerifyOK
  <2> QED BY <1>10, <1>11, <2>1 DEF VerifyOK
<1> QED BY <1>9, <1>12

\* A decision is written when all it rests on is on disk.
LEMMA PersistDecisionKeeps ==
  ASSUME FilesOK, VerifyOK, PersistDecision
  PROVE  FilesOK' /\ VerifyOK' /\ SettledOK' /\ LastOK'
<1>1. /\ verify # Idle /\ verify.todo = {} /\ verify' = Idle
      /\ last' = [intent |-> IntentOf[verify.contract], claims |-> ClaimsOf[verify.contract],
                  basis |-> verify.basis]
      /\ history' = [history EXCEPT !.calm = FALSE,
           !.settled = contract = verify.contract /\ config = verify.config,
           !.persisted = export # Idle]
      /\ UNCHANGED <<contract, config, evidence, bound, runs>>
  BY DEF PersistDecision, Disturbed
<1>2. /\ verify \in Runs /\ verify.basis \in [VerificationsOf[verify.contract] -> Nat]
      /\ verify.contract \in Contract /\ verify.config \in Config /\ verify.setting \in Setting
      /\ Range(RequiresOf[verify.contract]) \subseteq bound
      /\ \A v \in VerificationsOf[verify.contract] :
           /\ evidence[OwnPath(v)] # None
           /\ evidence[OwnPath(v)].by = v /\ evidence[OwnPath(v)].run = verify.basis[v]
  BY <1>1 DEF VerifyOK, Runs
<1>3. last' \in Decisions
  <2>1. ClaimsOf[verify.contract] \in SUBSET Claim
    BY <1>2 DEF Claim
  <2> QED BY <1>1, <1>2, <2>1 DEF Runs, Decisions, IntentIds
<1>4. /\ HistoryOK'
      /\ history'.settled => contract = verify.contract /\ config = verify.config
  <2>1. (contract = verify.contract /\ config = verify.config) \in BOOLEAN /\ (export # Idle) \in BOOLEAN
    OBVIOUS
  <2> QED BY <1>1, <2>1 DEF FilesOK, HistoryOK
<1>5. FilesOK'
  BY <1>1, <1>3, <1>4 DEF FilesOK
<1>6. VerifyOK'
  BY <1>1 DEF VerifyOK
<1>7. ASSUME NEW v \in VerificationsOf[verify.contract]
      PROVE  /\ verify.basis[v] \in Nat /\ v[1] \in ClaimsOf[verify.contract]
             /\ \A n : n = verify.basis[v] => OnDisk(v, n)'
  <2>1. v \in Verification /\ v[1] \in ClaimsOf[verify.contract]
    BY <1>2, ClaimVerified
  <2>2. OwnPath(v) \in Range(Paths)
    BY <1>2, <2>1, BundleAssumption DEF OwnPath
  <2> QED BY <1>1, <1>2, <2>1, <2>2 DEF OnDisk
<1>8. /\ last' # None /\ last'.intent = IntentOf[verify.contract]
      /\ last'.claims = ClaimsOf[verify.contract] /\ last'.basis = verify.basis
  BY <1>1, <1>3, BundleAssumption
<1>9. SettledOK'
  <2>1. \A v \in VerificationsOf[verify.contract] : \E n \in Nat : OnDisk(v, n)'
    BY <1>7
  <2> QED BY <1>1, <1>2, <1>4, <1>8, <2>1 DEF SettledOK
<1>10. LastOK'
  <2>1. ASSUME NEW v \in DOMAIN last'.basis
        PROVE  v[1] \in last'.claims /\ \A n : n = last'.basis[v] => OnDisk(v, n)'
    <3>1. v \in VerificationsOf[verify.contract]
      BY <1>2, <1>8
    <3> QED BY <1>7, <1>8, <3>1
  <2> QED BY <2>1 DEF LastOK, OnDisk
<1> QED BY <1>5, <1>6, <1>9, <1>10

\* More bindings authorize what the bindings before did.
LEMMA BindKeeps ==
  ASSUME FilesOK, VerifyOK, SettledOK, LastOK, NEW c \in Required, Bind(c)
  PROVE  FilesOK' /\ VerifyOK' /\ SettledOK' /\ LastOK'
<1>1. /\ bound' = bound \cup {c} /\ history' = [history EXCEPT !.calm = FALSE]
      /\ UNCHANGED <<contract, config, evidence, last, runs, verify>>
  BY DEF Bind, Disturbed
<1>2. c \in Claim
  <2>1. PICK x \in Contract : c \in Range(RequiresOf[x])
    BY DEF Required
  <2>2. RequiresOf[x] \in Seq(ClaimsOf[x])
    BY BundleAssumption
  <2>3. c \in ClaimsOf[x]
    BY <2>1, <2>2 DEF Range
  <2> QED BY <2>3 DEF Claim
<1>3. /\ HistoryOK'
      /\ history'.settled = history.settled /\ history'.persisted = history.persisted
  BY <1>1 DEF FilesOK, HistoryOK
<1>4. FilesOK'
  BY <1>1, <1>2, <1>3 DEF FilesOK
<1>5. VerifyOK'
  BY <1>1 DEF VerifyOK, OwnPath
<1>6. SettledOK' /\ LastOK'
  BY <1>1, <1>3 DEF SettledOK, LastOK, OnDisk
<1> QED BY <1>4, <1>5, <1>6

\* A person's edit settles nothing and takes no proof away.
LEMMA EditKeeps ==
  ASSUME FilesOK, VerifyOK, LastOK, Edit
  PROVE  FilesOK' /\ VerifyOK' /\ SettledOK' /\ LastOK'
<1>1. /\ contract' \in Contract /\ config' \in Config
      /\ history' = [history EXCEPT !.calm = FALSE, !.settled = FALSE]
      /\ UNCHANGED <<evidence, bound, last, runs, verify>>
  BY DEF Edit, Disturbed, FilesOK
<1>2. /\ HistoryOK'
      /\ history'.settled = FALSE /\ history'.persisted = history.persisted
  BY <1>1 DEF FilesOK, HistoryOK
<1>3. FilesOK'
  BY <1>1, <1>2 DEF FilesOK
<1>4. VerifyOK'
  BY <1>1 DEF VerifyOK, OwnPath
<1>5. SettledOK' /\ LastOK'
  BY <1>1, <1>2 DEF SettledOK, LastOK, OnDisk
<1> QED BY <1>3, <1>4, <1>5

\* Evidence that is written makes both invariants about the last decision wait.
LEMMA PersistedLast ==
  ASSUME FilesOK, LastOK, last' = last, history' = Undecided
  PROVE  SettledOK' /\ LastOK'
<1>1. history'.settled = FALSE /\ history'.persisted = TRUE
  BY DEF Undecided, Disturbed, FilesOK, HistoryOK
<1> QED BY <1>1 DEF SettledOK, LastOK

\* The files are left alone: what holds of them and of the decision stays.
LEMMA LastStays ==
  ASSUME FilesOK, SettledOK, LastOK, UNCHANGED <<contract, config, evidence, bound, last>>,
         history'.settled = history.settled, history'.persisted = history.persisted
  PROVE  SettledOK' /\ LastOK'
  BY DEF SettledOK, LastOK, OnDisk

\* A verify waits while its files are left alone.
LEMMA VerifyStays ==
  ASSUME VerifyOK, UNCHANGED <<evidence, bound, verify>>
  PROVE  VerifyOK'
  BY DEF VerifyOK, OwnPath

\* All that holds of the files and of the verify that writes them.
WorkspaceOK == FilesOK /\ VerifyOK /\ SettledOK /\ LastOK

\* An export only reads, and what it remembers of the past says nothing of a
\* decision being settled.
LEMMA ReadersLeave ==
  ASSUME WorkspaceOK, UNCHANGED <<files, verify, runs>>, HistoryOK',
         history'.settled = history.settled, history'.persisted = history.persisted
  PROVE  WorkspaceOK'
<1>1. UNCHANGED <<contract, config, evidence, bound, last, runs, verify>>
  BY DEF files
<1> QED BY <1>1, FilesStay, LastStays, VerifyStays DEF WorkspaceOK

\* Every step keeps the workspace in order.
LEMMA WorkspaceStep ==
  ASSUME WorkspaceOK, [Next]_vars
  PROVE  WorkspaceOK'
<1>1. CASE VerifyStart
  <2>1. FilesOK' /\ VerifyOK'
    BY <1>1, VerifyStartKeeps DEF WorkspaceOK
  <2>2. UNCHANGED <<contract, config, evidence, bound, last, history>>
    BY <1>1 DEF VerifyStart, files
  <2> QED BY <2>1, <2>2, LastStays DEF WorkspaceOK
<1>2. ASSUME NEW v \in Verification, WriteEvidence(v) \/ RenameEvidence(v) PROVE WorkspaceOK'
  <2>1. FilesOK' /\ VerifyOK'
    BY <1>2, WriteEvidenceKeeps, RenameEvidenceKeeps DEF WorkspaceOK
  <2>2. last' = last /\ history' = Undecided
    BY <1>2 DEF WriteEvidence, RenameEvidence
  <2> QED BY <2>1, <2>2, PersistedLast DEF WorkspaceOK
<1>3. CASE PersistDecision
  BY <1>3, PersistDecisionKeeps DEF WorkspaceOK
<1>4. CASE Killed
  <2>1. UNCHANGED <<contract, config, evidence, bound, last, runs, history>> /\ verify' = Idle
    BY <1>4 DEF Killed, files
  <2>2. HistoryOK'
    BY <2>1 DEF WorkspaceOK, FilesOK, HistoryOK
  <2>3. FilesOK' /\ SettledOK' /\ LastOK'
    BY <2>1, <2>2, LastStays, FilesStay DEF WorkspaceOK
  <2> QED BY <2>1, <2>3 DEF WorkspaceOK, VerifyOK
<1>5. ASSUME NEW c \in Required, Bind(c) PROVE WorkspaceOK'
  BY <1>5, BindKeeps DEF WorkspaceOK
<1>6. CASE Edit
  BY <1>6, EditKeeps DEF WorkspaceOK
<1>7. CASE ReadContract
  <2>1. UNCHANGED <<files, verify, runs>> /\ history' = [history EXCEPT !.calm = TRUE]
    BY <1>7 DEF ReadContract
  <2>2. /\ HistoryOK'
        /\ history'.settled = history.settled /\ history'.persisted = history.persisted
    BY <2>1 DEF WorkspaceOK, FilesOK, HistoryOK
  <2> QED BY <2>1, <2>2, ReadersLeave
<1>8. CASE Export \/ Transport \/ UNCHANGED vars
  <2>1. UNCHANGED <<files, verify, runs, history>>
    BY <1>8 DEF Export, Transport, vars
  <2>2. HistoryOK'
    BY <2>1 DEF WorkspaceOK, FilesOK, HistoryOK
  <2> QED BY <2>1, <2>2, ReadersLeave
<1>9. CASE WriteBundle
  <2> DEFINE made == [calm |-> history.calm, settled |-> history.settled,
                      persisted |-> history.persisted, leftover |-> Leftover # {},
                      unverified |-> Unverified # {}, contents |-> Contents(bundle')]
  <2>1. UNCHANGED <<files, verify, runs>> /\ history' = [history EXCEPT !.made = made]
    BY <1>9 DEF WriteBundle
  <2> HIDE DEF made
  <2>2. /\ HistoryOK'
        /\ history'.settled = history.settled /\ history'.persisted = history.persisted
    BY <2>1 DEF WorkspaceOK, FilesOK, HistoryOK
  <2> QED BY <2>1, <2>2, ReadersLeave
<1> QED BY <1>1, <1>2, <1>3, <1>4, <1>5, <1>6, <1>7, <1>8, <1>9 DEF Next

-----------------------------------------------------------------------------
(* The export *)

ExportInv == ExportOK /\ SnapshotOK /\ CalmOK

\* Nothing is said of an export that is not at work.
LEMMA NoExport ==
  ASSUME export = Idle
  PROVE  ExportInv
  BY DEF ExportInv, ExportOK, SnapshotOK, CalmOK

\* Somebody else moves: what the export has read is as faithful as it was, and
\* is what is there as long as it says so.
LEMMA OthersMove ==
  ASSUME ExportInv, UNCHANGED <<export, bundle>>,
         export # Idle => history'.persisted \/ UNCHANGED <<evidence, last>>,
         export # Idle => (history.persisted => history'.persisted),
         history'.calm => UNCHANGED files /\ history.calm
  PROVE  ExportInv'
<1>1. ExportOK'
  BY DEF ExportInv, ExportOK, Written, Faithful
<1>2. SnapshotOK'
  <2>1. SUFFICES ASSUME export # Idle, history'.calm \/ ~history'.persisted
                 PROVE  SnapshotOK'
    BY DEF SnapshotOK
  <2>2. UNCHANGED <<evidence, last>> /\ (history.calm \/ ~history.persisted)
    BY <2>1 DEF files
  <2> QED BY <2>1, <2>2 DEF ExportInv, SnapshotOK, Written, EvidenceRead, Wanted
<1>3. CalmOK'
  <2>1. SUFFICES ASSUME export # Idle, history'.calm
                 PROVE  CalmOK'
    BY DEF CalmOK
  <2>2. UNCHANGED <<contract, config, evidence, bound, last>> /\ history.calm
    BY <2>1 DEF files
  <2> QED BY <2>1, <2>2 DEF ExportInv, CalmOK, Written, BindingRead
<1> QED BY <1>1, <1>2, <1>3 DEF ExportInv

\* An export begins with the contract as it is.
LEMMA ReadContractKeeps ==
  ASSUME WorkspaceOK, ReadContract
  PROVE  ExportInv'
<1> DEFINE r == Record("contract", BodyOfContract(contract))
<1>1. /\ bundle' = None /\ UNCHANGED <<contract, config, evidence, bound, last>>
      /\ export' = [pc |-> "registry", contract |-> contract, config |-> None, listed |-> {},
                    at |-> 1, records |-> <<r>>]
  BY DEF ReadContract, files, BodyOfContract
<1>2. contract \in Contract
  BY DEF WorkspaceOK, FilesOK
<1>3. r \in Records
  <2>1. ClaimsOf[contract] \in SUBSET Claim
    BY <1>2 DEF Claim
  <2>2. RequiresOf[contract] \in Seq(Claim)
    <3>1. RequiresOf[contract] \in Seq(ClaimsOf[contract])
      BY <1>2, BundleAssumption
    <3> QED BY <2>1, <3>1
  <2>3. BodyOfContract(contract) \in ContractBodies
    BY <1>2, <2>1, <2>2 DEF BodyOfContract, ContractBodies
  <2>4. r \in RecordsOf("contract", ContractBodies)
    BY <2>3 DEF RecordsOf, Record
  <2> QED BY <2>4 DEF Records
<1>4. r.kind = "contract" /\ r.body = BodyOfContract(contract) /\ r.sha256 = r.body
  BY DEF Record
<1> HIDE DEF r
<1>5. Range(<<r>>) = {r} /\ <<r>> \in Seq(Records)
  BY <1>3 DEF Range
<1>6. /\ export'.pc = "registry" /\ export'.contract = contract /\ export'.at = 1
      /\ export'.records = <<r>> /\ Written' = {r} /\ export' \in Exports
  BY <1>1, <1>2, <1>5 DEF Exports, Written
<1>7. ExportOK'
  <2>1. r = Record("contract", BodyOfContract(contract))
    BY DEF r
  <2>2. \A s \in {r} : Faithful(s)'
    BY <1>4, <1>6 DEF Faithful
  <2>3. \A s \in {r} : s.kind # "evidence"
    BY <1>4
  <2> QED BY <1>1, <1>6, <2>1, <2>2, <2>3 DEF ExportOK
<1>8. SnapshotOK'
  BY <1>4, <1>6 DEF SnapshotOK, EvidenceRead
<1>9. CalmOK'
  BY <1>1, <1>4, <1>6 DEF CalmOK, BindingRead
<1> QED BY <1>7, <1>8, <1>9 DEF ExportInv

\* The steps of an export that read one more file: nothing else moves.
Reading == UNCHANGED <<files, verify, bundle, runs, edits, tampering, history>>

\* The registry and the policies follow the contract, and no proof is read yet.
LEMMA ReadRegistryKeeps ==
  ASSUME WorkspaceOK, ExportInv, ReadRegistry, Reading
  PROVE  ExportInv'
<1> DEFINE r == Record("registry", [text |-> config])
           policies == [i \in DOMAIN Policies |-> Record("policy", [text |-> Policies[i]])]
           added == <<r>> \o policies
<1>1. /\ export # Idle /\ export.pc = "registry"
      /\ export' = [export EXCEPT !.pc = "list", !.config = config,
                      !.records = (@ \o <<r>>) \o policies]
      /\ UNCHANGED <<contract, config, evidence, bound, last, bundle, history>>
  BY DEF ReadRegistry, Exporting, Reading, files
<1>2. config \in Config /\ export \in Exports /\ export.records \in Seq(Records)
  BY <1>1 DEF WorkspaceOK, FilesOK, ExportInv, ExportOK, Exports
<1>3. r \in Records
  <2>1. r \in RecordsOf("registry", [text : Config])
    BY <1>2 DEF RecordsOf, Record
  <2> QED BY <2>1 DEF Records
<1>4. policies \in Seq(Records) /\ \A s \in Range(policies) : s.kind = "policy" /\ s.sha256 = s.body
  <2>1. Policies \in Seq(Range(Policies))
    BY BundleAssumption
  <2>2. ASSUME NEW i \in DOMAIN Policies
        PROVE  Record("policy", [text |-> Policies[i]]) \in Records
    <3>1. [text |-> Policies[i]] \in [text : Range(Policies)]
      BY DEF Range
    <3>2. Record("policy", [text |-> Policies[i]]) \in RecordsOf("policy", [text : Range(Policies)])
      BY <3>1 DEF RecordsOf, Record
    <3> QED BY <3>2 DEF Records
  <2>3. \A i \in DOMAIN Policies : /\ Record("policy", [text |-> Policies[i]]).kind = "policy"
                                   /\ Record("policy", [text |-> Policies[i]]).sha256
                                        = Record("policy", [text |-> Policies[i]]).body
    BY DEF Record
  <2> HIDE DEF Record, Records
  <2>4. policies \in Seq(Records)
    <3>1. DOMAIN Policies = 1..Len(Policies) /\ Len(Policies) \in Nat
      BY <2>1
    <3> QED BY <2>2, <3>1
  <2>5. \A s \in Range(policies) : s.kind = "policy" /\ s.sha256 = s.body
    BY <2>3 DEF Range
  <2> QED BY <2>4, <2>5
<1>5. /\ r.kind = "registry" /\ r.body.text = config /\ r.sha256 = r.body
  BY DEF Record
<1> HIDE DEF r, policies
<1>6. /\ export.records \o <<r>> \in Seq(Records)
      /\ Range(export.records \o <<r>>) = Range(export.records) \cup {r}
  <2> DEFINE one == <<r>>
  <2>1. one \in Seq(Records) /\ Range(one) = {r}
    BY <1>3 DEF Range
  <2> HIDE DEF one
  <2>2. export.records \o one \in Seq(Records)
        /\ Range(export.records \o one) = Range(export.records) \cup Range(one)
    BY <1>2, <2>1, ConcatRange
  <2> QED BY <2>1, <2>2 DEF one
<1>7. /\ export'.records \in Seq(Records)
      /\ Written' = Written \cup {r} \cup Range(policies)
  <2>1. export'.records = (export.records \o <<r>>) \o policies
    BY <1>1, <1>2 DEF Exports
  <2> DEFINE before == export.records \o <<r>>
  <2>2. before \in Seq(Records) /\ Range(before) = Written \cup {r}
    BY <1>6 DEF Written
  <2> HIDE DEF before
  <2>3. before \o policies \in Seq(Records)
        /\ Range(before \o policies) = Range(before) \cup Range(policies)
    BY <1>4, <2>2, ConcatRange
  <2> QED BY <2>1, <2>2, <2>3 DEF Written, before
<1>8. /\ export'.pc = "list" /\ export'.contract = export.contract /\ export'.config = config
      /\ export'.at = export.at /\ export' \in Exports
  BY <1>1, <1>2, <1>7 DEF Exports
<1>9. \A s \in Written : s.kind # "evidence" /\ s.kind # "registry" /\ Faithful(s)
  BY <1>1 DEF ExportInv, ExportOK, Faithful
<1>10. \A s \in Written' : s.kind # "evidence" /\ Faithful(s)'
  <2>1. ASSUME NEW s \in Written PROVE s.kind # "evidence" /\ Faithful(s)'
    BY <1>1, <1>8, <1>9 DEF Faithful
  <2>2. \A s \in {r} : s.kind # "evidence" /\ Faithful(s)'
    BY <1>5, <1>8 DEF Faithful
  <2>3. ASSUME NEW s \in Range(policies) PROVE s.kind # "evidence" /\ Faithful(s)'
    BY <1>4 DEF Faithful
  <2> QED BY <1>7, <2>1, <2>2, <2>3
<1>11. ExportOK'
  BY <1>1, <1>2, <1>7, <1>8, <1>10 DEF ExportInv, ExportOK
<1>12. SnapshotOK'
  <2>1. ~\E p : EvidenceRead(p)'
    BY <1>8 DEF EvidenceRead
  <2>2. \A s \in Written' : s.kind # "decision"
    BY <1>8, <1>10 DEF Faithful
  <2> QED BY <2>1, <2>2 DEF SnapshotOK
<1>13. CalmOK'
  <2>1. SUFFICES ASSUME history.calm PROVE CalmOK'
    BY <1>1 DEF CalmOK
  <2>2. ~\E n : BindingRead(n)'
    BY <1>8 DEF BindingRead
  <2>3. contract = export.contract
    BY <1>1, <2>1 DEF ExportInv, CalmOK
  <2> QED BY <1>1, <1>8, <1>10, <2>2, <2>3 DEF CalmOK
<1> QED BY <1>11, <1>12, <1>13 DEF ExportInv

\* A record pushed is one more record.
LEMMA Appended ==
  ASSUME export \in Exports, NEW r \in Records, export'.records = Append(export.records, r)
  PROVE  export'.records \in Seq(Records) /\ Written' = Written \cup {r}
<1>1. export.records \in Seq(Records)
  BY DEF Exports
<1> QED BY <1>1, AppendRange DEF Written

\* What an export that is past the registry carries with it to its next step.
Carried ==
  /\ export # Idle /\ bundle = None /\ export \in Exports /\ export.config \in Config
  /\ export.pc # "registry"
  /\ export.pc \in {"list", "evidence"} => export.at = 1
  /\ Record("contract", BodyOfContract(export.contract)) \in Written
  /\ \A r \in Written : Faithful(r)

\* Once the registry is read, the export carries it.
LEMMA CarriedExport ==
  ASSUME export # Idle, export.pc # "registry"
  PROVE  ExportOK <=> Carried
  BY DEF ExportOK, Carried

\* A step after the registry: what is carried along stays faithful.
LEMMA CarriedOn ==
  ASSUME Carried, bundle' = bundle, export' # Idle, export' \in Exports,
         export'.contract = export.contract, export'.config = export.config,
         export.pc # "write", export'.pc # "registry",
         export.pc # "list" => export'.pc # "list",
         export'.pc \in {"list", "evidence"} => export'.at = 1,
         NEW X, Written' = Written \cup X, \A r \in X : Faithful(r)'
  PROVE  Carried' /\ ExportOK'
<1>1. ASSUME NEW r \in Written PROVE Faithful(r)'
  <2>1. Faithful(r) /\ export.pc # "registry"
    BY DEF Carried
  <2> QED BY <2>1 DEF Faithful
<1>2. Carried'
  BY <1>1 DEF Carried
<1> QED BY <1>2 DEF ExportOK, Carried

\* The listing has every file there is, and none of them is read yet.
LEMMA ListEvidenceKeeps ==
  ASSUME WorkspaceOK, ExportInv, ListEvidence, Reading
  PROVE  ExportInv'
<1> DEFINE there == {p \in Range(Paths) : evidence[p] # None}
<1>1. /\ export # Idle /\ export.pc = "list" /\ Carried
      /\ UNCHANGED <<contract, config, evidence, bound, last, bundle, history>>
      /\ export' = [export EXCEPT !.pc = "evidence", !.listed = there]
  BY CarriedExport DEF ListEvidence, Exporting, ExportInv, Reading, files
<1> HIDE DEF there
<1>2. /\ export'.pc = "evidence" /\ export'.listed = there /\ export'.at = export.at
      /\ export'.contract = export.contract /\ export'.config = export.config
      /\ export'.records = export.records /\ export' \in Exports /\ export' # Idle
  <2>1. there \in SUBSET Range(Paths)
    BY DEF there
  <2> QED BY <1>1, <2>1 DEF Carried, Exports, Idle
<1>3. Written' = Written
  BY <1>2 DEF Written
<1>4. ExportOK'
  <2> DEFINE X == {}
  <2>1. Written' = Written \cup X /\ \A r \in X : Faithful(r)'
    BY <1>3
  <2>2. export.at = 1
    BY <1>1 DEF Carried
  <2> HIDE DEF X
  <2> QED BY <1>1, <1>2, <2>1, <2>2, CarriedOn
<1>5. \A r \in Written : r.kind # "evidence" /\ r.kind # "decision"
  BY <1>1 DEF Carried, Faithful
<1>6. SnapshotOK'
  <2>1. ASSUME NEW p \in Range(Paths), EvidenceRead(p)', Wanted(evidence[p])'
        PROVE  FALSE
    BY <1>1, <1>2, <2>1 DEF EvidenceRead, Wanted, there
  <2> QED BY <1>1, <1>3, <1>5, <2>1 DEF SnapshotOK
<1>7. CalmOK'
  <2>1. ~\E n : BindingRead(n)'
    BY <1>2 DEF BindingRead
  <2> QED BY <1>1, <1>2, <1>3, <1>5, <2>1 DEF ExportInv, CalmOK
<1> QED BY <1>4, <1>6, <1>7 DEF ExportInv

\* One file is read: a proof in it goes in, if it is wanted.
LEMMA ReadProofKeeps ==
  ASSUME WorkspaceOK, ExportInv, Reading, export # Idle, export.pc = "evidence",
         NEW p \in Range(Paths),
         export' = [(IF Wanted(evidence[p]) THEN Pushed(Record("evidence", evidence[p])) ELSE export)
                      EXCEPT !.listed = @ \ {p}]
  PROVE  ExportInv'
<1> DEFINE proof == evidence[p]
           r == Record("evidence", proof)
           wanted == Wanted(proof)
           X == IF wanted THEN {r} ELSE {}
<1>1. Carried /\ UNCHANGED <<contract, config, evidence, bound, last, bundle, history>>
  BY CarriedExport DEF ExportInv, Reading, files
<1>2. export \in Exports /\ export.at = 1
  BY <1>1 DEF Carried
<1>3. wanted => r \in Records /\ proof.by[1] \in ClaimsOf[export.contract]
  <2>1. SUFFICES ASSUME wanted PROVE r \in Records /\ proof.by[1] \in ClaimsOf[export.contract]
    OBVIOUS
  <2>2. proof \in Proofs
    BY <2>1 DEF Wanted, WorkspaceOK, FilesOK
  <2>3. r \in RecordsOf("evidence", Proofs)
    BY <2>2 DEF RecordsOf, Record
  <2> QED BY <2>1, <2>3 DEF Records, Wanted
<1>4. r.kind = "evidence" /\ r.body = proof /\ r.sha256 = proof
  BY DEF Record
<1> HIDE DEF r, proof
<1>5. export' = [(IF wanted THEN Pushed(r) ELSE export) EXCEPT !.listed = @ \ {p}]
  BY DEF r, proof
<1>6. Wanted(proof) = wanted
  OBVIOUS
<1> HIDE DEF wanted
<1>7. /\ export'.pc = "evidence" /\ export'.contract = export.contract
      /\ export'.config = export.config /\ export'.at = 1
      /\ export'.listed = export.listed \ {p}
      /\ export' \in Exports /\ export' # Idle /\ Written' = Written \cup X
  <2>1. CASE wanted
    <3>1. export' = [export EXCEPT !.records = Append(@, r), !.listed = @ \ {p}]
      BY <1>2, <1>5, <2>1 DEF Pushed, Exports
    <3>2. export'.records = Append(export.records, r)
      BY <1>2, <3>1 DEF Exports
    <3>3. export'.records \in Seq(Records) /\ Written' = Written \cup {r}
      BY <1>2, <1>3, <2>1, <3>2, Appended
    <3>4. export' = [pc |-> export.pc, contract |-> export.contract, config |-> export.config,
                     listed |-> export.listed \ {p}, at |-> export.at, records |-> export'.records]
      BY <1>2, <3>1, <3>2 DEF Exports
    <3>5. export' \in Exports
      BY <1>2, <3>3, <3>4 DEF Exports
    <3> QED BY <1>2, <2>1, <3>3, <3>4, <3>5 DEF Idle
  <2>2. CASE ~wanted
    BY <1>2, <1>5, <2>2 DEF Exports, Idle, Written
  <2> QED BY <2>1, <2>2
<1>8. ExportOK'
  <2>1. \A s \in X : Faithful(s)'
    BY <1>3, <1>4, <1>7 DEF Faithful
  <2>2. export'.pc # "list" /\ export'.pc # "registry" /\ export.pc # "write"
    BY <1>7
  <2> HIDE DEF X
  <2> QED BY <1>1, <1>7, <2>1, <2>2, CarriedOn
<1>9. SnapshotOK'
  <2>1. SUFFICES ASSUME history.calm \/ ~history.persisted PROVE SnapshotOK'
    BY <1>1 DEF SnapshotOK
  <2>2. ASSUME NEW q \in Range(Paths), EvidenceRead(q)', Wanted(evidence[q])'
        PROVE  Record("evidence", evidence[q]) \in Written \cup X
    <3>1. Wanted(evidence[q])
      BY <1>1, <1>7, <2>2 DEF Wanted
    <3>2. CASE q = p
      <4>1. wanted
        BY <1>6, <3>1, <3>2 DEF proof
      <4> QED BY <3>2, <4>1 DEF r, proof
    <3>3. CASE q # p
      <4>1. EvidenceRead(q)
        BY <1>7, <2>2, <3>3 DEF EvidenceRead
      <4> QED BY <2>1, <3>1, <4>1 DEF ExportInv, SnapshotOK
    <3> QED BY <3>2, <3>3
  <2>3. \A s \in Written \cup X : s.kind # "decision"
    BY <1>1, <1>4 DEF Carried, Faithful
  <2> HIDE DEF X
  <2> QED BY <1>1, <1>7, <2>2, <2>3 DEF SnapshotOK
<1>10. CalmOK'
  <2>1. SUFFICES ASSUME history.calm PROVE CalmOK'
    BY <1>1 DEF CalmOK
  <2>2. \A s \in Written \cup X : s.kind = "evidence" => \E q \in Range(Paths) : s.body = evidence[q]
    BY <1>4, <2>1 DEF ExportInv, CalmOK, proof
  <2>3. ~\E n : BindingRead(n)'
    BY <1>7 DEF BindingRead
  <2> HIDE DEF X
  <2> QED BY <1>1, <1>7, <2>1, <2>2, <2>3 DEF ExportInv, CalmOK
<1> QED BY <1>8, <1>9, <1>10 DEF ExportInv

\* All files listed are read: the evidence is done with.
LEMMA EvidenceDoneKeeps ==
  ASSUME WorkspaceOK, ExportInv, Reading, export # Idle, export.pc = "evidence",
         export.listed = {}, export' = [export EXCEPT !.pc = "binding"]
  PROVE  ExportInv'
<1>1. Carried /\ UNCHANGED <<contract, config, evidence, bound, last, bundle, history>>
  BY CarriedExport DEF ExportInv, Reading, files
<1>2. /\ export'.pc = "binding" /\ export'.at = 1
      /\ export'.contract = export.contract /\ export'.config = export.config
      /\ export'.records = export.records /\ export' \in Exports /\ export' # Idle
  BY <1>1 DEF Carried, Exports, Idle
<1>3. Written' = Written
  BY <1>2 DEF Written
<1>4. ExportOK'
  <2> DEFINE X == {}
  <2>1. Written' = Written \cup X /\ \A r \in X : Faithful(r)'
    BY <1>3
  <2>2. export'.pc # "list" /\ export'.pc # "registry" /\ export.pc # "write"
    BY <1>2
  <2> HIDE DEF X
  <2> QED BY <1>1, <1>2, <2>1, <2>2, CarriedOn
<1>5. SnapshotOK'
  <2>1. ASSUME NEW p \in Range(Paths), Wanted(evidence[p])'
        PROVE  EvidenceRead(p) /\ Wanted(evidence[p])
    BY <1>1, <1>2, <2>1 DEF EvidenceRead, Wanted
  <2> QED BY <1>1, <1>3, <2>1 DEF ExportInv, SnapshotOK
<1>6. CalmOK'
  <2>1. ~\E n \in DOMAIN RequiresOf[export.contract] : BindingRead(n)'
    <3>1. RequiresOf[export.contract] \in Seq(ClaimsOf[export.contract])
      BY <1>1, BundleAssumption DEF Carried, Exports
    <3>2. DOMAIN RequiresOf[export.contract] = 1..Len(RequiresOf[export.contract])
      BY <3>1
    <3> QED BY <1>2, <3>2 DEF BindingRead
  <2> QED BY <1>1, <1>2, <1>3, <2>1 DEF ExportInv, CalmOK
<1> QED BY <1>4, <1>5, <1>6 DEF ExportInv

\* The next file of evidence is read, or there is none.
LEMMA ReadEvidenceKeeps ==
  ASSUME WorkspaceOK, ExportInv, ReadEvidence, Reading
  PROVE  ExportInv'
<1>1. export # Idle /\ export.pc = "evidence"
  BY DEF ReadEvidence, Exporting
<1>2. CASE export.listed = {} /\ export' = [export EXCEPT !.pc = "binding"]
  BY <1>1, <1>2, EvidenceDoneKeeps
<1>3. ASSUME NEW n \in DOMAIN Paths,
             export' = [(IF Wanted(evidence[Paths[n]])
                         THEN Pushed(Record("evidence", evidence[Paths[n]])) ELSE export)
                          EXCEPT !.listed = @ \ {Paths[n]}]
      PROVE  ExportInv'
  <2>1. Paths[n] \in Range(Paths)
    BY DEF Range
  <2> QED BY <1>1, <1>3, <2>1, ReadProofKeeps
<1> QED BY <1>2, <1>3 DEF ReadEvidence

\* After the evidence is read nothing more is said of it.
LEMMA SnapshotOn ==
  ASSUME Reading, export.pc \in {"binding", "decision"}, export'.contract = export.contract,
         SnapshotOK, export # Idle, NEW X, Written' = Written \cup X,
         \A r \in X : r.kind = "decision" => r.body = last
  PROVE  SnapshotOK'
<1>1. UNCHANGED <<evidence, last, history>>
  BY DEF Reading, files
<1>2. SUFFICES ASSUME history.calm \/ ~history.persisted PROVE SnapshotOK'
  BY <1>1 DEF SnapshotOK
<1>3. ASSUME NEW p \in Range(Paths), Wanted(evidence[p])'
      PROVE  Record("evidence", evidence[p]) \in Written
  <2>1. Wanted(evidence[p]) /\ EvidenceRead(p)
    BY <1>1, <1>3 DEF Wanted, EvidenceRead
  <2> QED BY <1>2, <2>1 DEF SnapshotOK
<1>4. \A r \in Written \cup X : r.kind = "decision" => r.body = last
  BY <1>2 DEF SnapshotOK
<1> QED BY <1>1, <1>3, <1>4 DEF SnapshotOK

\* The next authorized requirement is taken in, or passed over.
LEMMA ReadBindingKeeps ==
  ASSUME WorkspaceOK, ExportInv, ReadBinding, Reading
  PROVE  ExportInv'
<1> DEFINE requires == RequiresOf[export.contract]
           c == requires[export.at]
           r == Record("binding", [claim |-> c])
<1>1. /\ export # Idle /\ export.pc = "binding" /\ Carried
      /\ UNCHANGED <<contract, config, evidence, bound, last, bundle, history>>
  BY CarriedExport DEF ReadBinding, Exporting, ExportInv, Reading, files
<1>2. /\ export \in Exports /\ export.at \in Nat \ {0}
      /\ requires \in Seq(ClaimsOf[export.contract])
      /\ DOMAIN requires = 1..Len(requires) /\ Len(requires) \in Nat
  <2>1. export.contract \in Contract /\ export \in Exports /\ export.at \in Nat \ {0}
    BY <1>1 DEF Carried, Exports
  <2>2. requires \in Seq(ClaimsOf[export.contract])
    BY <2>1, BundleAssumption
  <2> QED BY <2>1, <2>2
<1>3. export.at \in DOMAIN requires =>
        r \in Records /\ r.kind = "binding" /\ r.sha256 = r.body
  <2>1. SUFFICES ASSUME export.at \in DOMAIN requires
                 PROVE  r \in Records /\ r.kind = "binding" /\ r.sha256 = r.body
    OBVIOUS
  <2>2. c \in Claim
    <3>1. c \in ClaimsOf[export.contract]
      BY <1>2, <2>1
    <3> QED BY <1>2, <3>1 DEF Exports, Claim
  <2> HIDE DEF c
  <2>3. r \in RecordsOf("binding", [claim : Claim])
    BY <2>2 DEF RecordsOf, Record
  <2> QED BY <2>3 DEF Records, Record
<1> DEFINE X == IF export.at \in DOMAIN requires /\ c \in bound THEN {r} ELSE {}
<1>4. \/ /\ export.at > Len(requires) /\ export' = [export EXCEPT !.pc = "decision"]
      \/ /\ export.at \in DOMAIN requires /\ c \in bound
         /\ export' = [Pushed(r) EXCEPT !.at = @ + 1]
      \/ /\ export.at \in DOMAIN requires /\ c \notin bound
         /\ export' = [export EXCEPT !.at = @ + 1]
  BY <1>2 DEF ReadBinding
<1>5. /\ export'.contract = export.contract /\ export'.config = export.config
      /\ export' \in Exports /\ export' # Idle /\ Written' = Written \cup X
      /\ \/ export.at > Len(requires) /\ export'.pc = "decision"
         \/ /\ export.at \in DOMAIN requires
            /\ export'.pc = "binding" /\ export'.at = export.at + 1
  <2> HIDE DEF r
  <2>1. CASE export.at > Len(requires) /\ export' = [export EXCEPT !.pc = "decision"]
    BY <1>2, <2>1 DEF Exports, Idle, Written
  <2>2. CASE /\ export.at \in DOMAIN requires /\ c \in bound
             /\ export' = [Pushed(r) EXCEPT !.at = @ + 1]
    <3>1. export' = [export EXCEPT !.records = Append(@, r), !.at = @ + 1]
      BY <1>2, <2>2 DEF Pushed, Exports
    <3>2. export'.records = Append(export.records, r)
      BY <1>2, <3>1 DEF Exports
    <3>3. export'.records \in Seq(Records) /\ Written' = Written \cup {r}
      BY <1>2, <1>3, <2>2, <3>2, Appended
    <3>4. export' = [pc |-> export.pc, contract |-> export.contract, config |-> export.config,
                     listed |-> export.listed, at |-> export.at + 1, records |-> export'.records]
      BY <1>2, <3>1, <3>2 DEF Exports
    <3>5. export.at + 1 \in Nat \ {0}
      BY <1>2
    <3>6. export' \in Exports
      BY <1>2, <3>3, <3>4, <3>5 DEF Exports
    <3> QED BY <1>1, <2>2, <3>3, <3>4, <3>6 DEF Idle
  <2>3. CASE /\ export.at \in DOMAIN requires /\ c \notin bound
             /\ export' = [export EXCEPT !.at = @ + 1]
    <3>1. export.at + 1 \in Nat \ {0}
      BY <1>2
    <3> QED BY <1>1, <1>2, <2>3, <3>1 DEF Exports, Idle, Written
  <2> QED BY <1>4, <2>1, <2>2, <2>3
<1> HIDE DEF r
<1>6. ExportOK'
  <2>1. \A s \in X : Faithful(s)'
    BY <1>3 DEF Faithful
  <2>2. export'.pc \notin {"registry", "list", "evidence"} /\ export.pc # "write"
    BY <1>1, <1>5
  <2> HIDE DEF X
  <2> QED BY <1>1, <1>5, <2>1, <2>2, CarriedOn
<1>7. SnapshotOK'
  <2>1. \A s \in X : s.kind = "decision" => s.body = last
    BY <1>3
  <2> HIDE DEF X
  <2> QED BY <1>1, <1>5, <2>1, SnapshotOn DEF ExportInv
<1>8. CalmOK'
  <2>1. SUFFICES ASSUME history.calm PROVE CalmOK'
    BY <1>1 DEF CalmOK
  <2>2. ASSUME NEW n \in DOMAIN requires, BindingRead(n)', requires[n] \in bound
        PROVE  Record("binding", [claim |-> requires[n]]) \in Written \cup X
    <3>1. CASE n = export.at
      <4>1. r \in X
        BY <2>2, <3>1
      <4> QED BY <3>1, <4>1 DEF r
    <3>2. CASE n # export.at
      <4>1. n < export.at
        BY <1>2, <1>5, <2>2, <3>2 DEF BindingRead
      <4>2. BindingRead(n)
        BY <1>1, <4>1 DEF BindingRead
      <4> QED BY <1>1, <2>1, <2>2, <4>2 DEF ExportInv, CalmOK
    <3> QED BY <3>1, <3>2
  <2>3. \A s \in X : s.kind # "evidence"
    BY <1>3
  <2>4. \A s \in Written \cup X : s.kind = "evidence" => \E q \in Range(Paths) : s.body = evidence[q]
    BY <1>1, <2>1, <2>3 DEF ExportInv, CalmOK
  <2> HIDE DEF X
  <2> QED BY <1>1, <1>5, <2>1, <2>2, <2>4 DEF ExportInv, CalmOK
<1> QED BY <1>6, <1>7, <1>8 DEF ExportInv

\* The last decision is taken in if it is of this intent.
LEMMA ReadDecisionKeeps ==
  ASSUME WorkspaceOK, ExportInv, ReadDecision, Reading
  PROVE  ExportInv'
<1> DEFINE r == Record("decision", last)
           belongs == last # None /\ last.intent = IntentOf[export.contract]
           X == IF belongs THEN {r} ELSE {}
<1>1. /\ export # Idle /\ export.pc = "decision" /\ Carried
      /\ UNCHANGED <<contract, config, evidence, bound, last, bundle, history>>
  BY CarriedExport DEF ReadDecision, Exporting, ExportInv, Reading, files
<1>2. export \in Exports
  BY <1>1 DEF Carried
<1>3. belongs => r \in Records
  <2>1. SUFFICES ASSUME belongs PROVE r \in Records
    OBVIOUS
  <2>2. last \in Decisions
    BY <2>1 DEF WorkspaceOK, FilesOK
  <2>3. r \in RecordsOf("decision", Decisions)
    BY <2>2 DEF RecordsOf, Record
  <2> QED BY <2>3 DEF Records
<1>4. r.kind = "decision" /\ r.body = last /\ r.sha256 = last
  BY DEF Record
<1> HIDE DEF r
<1>5. export' = [(IF belongs THEN Pushed(r) ELSE export) EXCEPT !.pc = "write"]
  BY DEF ReadDecision, r
<1> HIDE DEF belongs
<1>6. /\ export'.contract = export.contract /\ export'.config = export.config
      /\ export' \in Exports /\ export' # Idle /\ Written' = Written \cup X
      /\ export'.pc = "write"
  <2>1. CASE belongs
    <3>1. export' = [export EXCEPT !.records = Append(@, r), !.pc = "write"]
      BY <1>2, <1>5, <2>1 DEF Pushed, Exports
    <3>2. export'.records = Append(export.records, r)
      BY <1>2, <3>1 DEF Exports
    <3>3. export'.records \in Seq(Records) /\ Written' = Written \cup {r}
      BY <1>2, <1>3, <2>1, <3>2, Appended
    <3>4. export' = [pc |-> "write", contract |-> export.contract, config |-> export.config,
                     listed |-> export.listed, at |-> export.at, records |-> export'.records]
      BY <1>2, <3>1, <3>2 DEF Exports
    <3>5. export' \in Exports
      BY <1>2, <3>3, <3>4 DEF Exports
    <3> QED BY <2>1, <3>3, <3>4, <3>5 DEF Idle
  <2>2. CASE ~belongs
    BY <1>2, <1>5, <2>2 DEF Exports, Idle, Written
  <2> QED BY <2>1, <2>2
<1>7. ExportOK'
  <2>1. \A s \in X : Faithful(s)'
    BY <1>4, <1>6 DEF Faithful
  <2>2. export'.pc \notin {"registry", "list", "evidence"} /\ export.pc # "write"
    BY <1>1, <1>6
  <2> HIDE DEF X
  <2> QED BY <1>1, <1>6, <2>1, <2>2, CarriedOn
<1>8. SnapshotOK'
  <2>1. \A s \in X : s.kind = "decision" => s.body = last
    BY <1>4
  <2> HIDE DEF X
  <2> QED BY <1>1, <1>6, <2>1, SnapshotOn DEF ExportInv
<1>9. CalmOK'
  <2>1. SUFFICES ASSUME history.calm PROVE CalmOK'
    BY <1>1 DEF CalmOK
  <2>2. \A s \in X : s.kind # "evidence"
    BY <1>4
  <2>3. \A n : BindingRead(n)
    BY <1>1 DEF BindingRead
  <2>4. belongs => Record("decision", last) \in X
    BY DEF r
  <2>5. \A s \in Written \cup X : s.kind = "evidence" => \E q \in Range(Paths) : s.body = evidence[q]
    BY <1>1, <2>1, <2>2 DEF ExportInv, CalmOK
  <2> HIDE DEF X
  <2> QED BY <1>1, <1>6, <2>1, <2>3, <2>4, <2>5 DEF ExportInv, CalmOK, belongs
<1> QED BY <1>7, <1>8, <1>9 DEF ExportInv

\* Every step keeps what an export has read in order.
LEMMA ExportStep ==
  ASSUME WorkspaceOK, ExportInv, BundleOK, [Next]_vars
  PROVE  ExportInv'
<1>1. CASE VerifyStart \/ Killed \/ UNCHANGED vars
  <2>1. UNCHANGED <<export, bundle, history>> /\ UNCHANGED files
    BY <1>1 DEF VerifyStart, Killed, vars
  <2>2. UNCHANGED <<evidence, last>>
    BY <2>1 DEF files
  <2> QED BY <2>1, <2>2, OthersMove
<1>2. ASSUME NEW v \in Verification, WriteEvidence(v) \/ RenameEvidence(v) PROVE ExportInv'
  <2>1. UNCHANGED <<export, bundle>> /\ history'.persisted = TRUE /\ history'.calm = FALSE
    BY <1>2 DEF WriteEvidence, RenameEvidence, Undecided, Disturbed, WorkspaceOK, FilesOK, HistoryOK
  <2> QED BY <2>1, OthersMove
<1>3. CASE PersistDecision
  <2>1. /\ UNCHANGED <<export, bundle>> /\ history'.calm = FALSE
        /\ export # Idle => history'.persisted
    BY <1>3 DEF PersistDecision, Disturbed, WorkspaceOK, FilesOK, HistoryOK
  <2> QED BY <2>1, OthersMove
<1>4. ASSUME NEW c \in Required, Bind(c) PROVE ExportInv'
  <2>1. /\ UNCHANGED <<export, bundle, evidence, last>>
        /\ history'.calm = FALSE /\ history'.persisted = history.persisted
    BY <1>4 DEF Bind, Disturbed, WorkspaceOK, FilesOK, HistoryOK
  <2> QED BY <2>1, OthersMove
<1>5. CASE Edit
  <2>1. /\ UNCHANGED <<export, bundle, evidence, last>>
        /\ history'.calm = FALSE /\ history'.persisted = history.persisted
    BY <1>5 DEF Edit, Disturbed, WorkspaceOK, FilesOK, HistoryOK
  <2> QED BY <2>1, OthersMove
<1>6. CASE ReadContract
  BY <1>6, ReadContractKeeps
<1>7. CASE Export
  <2>1. Reading /\ (ReadRegistry \/ ListEvidence \/ ReadEvidence \/ ReadBinding \/ ReadDecision)
    BY <1>7 DEF Export, Reading
  <2> QED BY <2>1, ReadRegistryKeeps, ListEvidenceKeeps, ReadEvidenceKeeps, ReadBindingKeeps,
              ReadDecisionKeeps
<1>8. CASE WriteBundle
  <2>1. export' = Idle
    BY <1>8 DEF WriteBundle
  <2> QED BY <2>1 DEF ExportInv, ExportOK, SnapshotOK, CalmOK
<1>9. CASE Transport
  <2>1. bundle # None /\ export' = export
    BY <1>9 DEF Transport
  <2>2. export' = Idle
    BY <2>1 DEF ExportInv, ExportOK
  <2> QED BY <2>2 DEF ExportInv, ExportOK, SnapshotOK, CalmOK
<1> QED BY <1>1, <1>2, <1>3, <1>4, <1>5, <1>6, <1>7, <1>8, <1>9 DEF Next

-----------------------------------------------------------------------------
(* The bundle *)

\* Nobody touches the bundle: what is said of it stays.
LEMMA BundleStays ==
  ASSUME BundleOK, UNCHANGED <<bundle, tampering>>, history'.made = history.made
  PROVE  BundleOK'
<1>1. /\ Untouched' = Untouched /\ Consistent' = Consistent /\ Covered' = Covered
      /\ ContractClaims' = ContractClaims /\ IntegrityErrors' = IntegrityErrors
      /\ \A kind : Bodies(kind)' = Bodies(kind)
  BY DEF Untouched, Consistent, Covered, ContractClaims, EvidenceClaims, IntegrityErrors,
         CrossCheckErrors, Requirements, DecisionClaims, HeaderBody, Bodies
<1>2. Bodies("evidence")' = Bodies("evidence") /\ Bodies("decision")' = Bodies("decision")
  BY <1>1
<1>3. HonestExportPasses' <=> HonestExportPasses
  BY <1>1, <1>2 DEF HonestExportPasses
<1>4. PiecesBelongTogether' <=> PiecesBelongTogether
  BY <1>1, <1>2 DEF PiecesBelongTogether
<1>5. HashedPartsSealed' <=> HashedPartsSealed
  BY <1>1 DEF HashedPartsSealed
<1>6. Sealed' <=> Sealed
  BY DEF Sealed, HeaderBody
<1> QED BY <1>3, <1>4, <1>5, <1>6 DEF BundleOK

\* What is written is what was read: its bodies, and a header that counts them.
LEMMA BundleWritten ==
  ASSUME ExportInv, BundleOK, WriteBundle
  PROVE  /\ bundle' \in Bundles /\ bundle' # None /\ tampering' = 0
         /\ Sealed' /\ IntegrityErrors' = {}
         /\ HeaderBody'.contract_hash = export.contract
         /\ HeaderBody'.registry_hash = export.config
         /\ \A kind : Bodies(kind)' = {r.body : r \in {s \in Written : s.kind = kind}}
         /\ Bodies("contract")' = {BodyOfContract(export.contract)}
<1>1. /\ export # Idle /\ export.pc = "write" /\ tampering' = tampering
      /\ bundle' = [header |-> Header, records |-> export.records]
  BY DEF WriteBundle, Exporting
<1>2. Carried /\ bundle = None /\ tampering = 0
  BY <1>1, CarriedExport DEF ExportInv, Carried, BundleOK
<1>3. /\ export.contract \in Contract /\ export.config \in Config
      /\ export.records \in Seq(Records) /\ Len(export.records) \in Nat
  BY <1>2 DEF Carried, Exports
<1> DEFINE body == [intent |-> IntentOf[export.contract], registry_hash |-> export.config,
                    contract_hash |-> export.contract, records |-> Len(export.records),
                    created_at |-> "written", tool |-> "written"]
<1>4. Header = [body |-> body, sha256 |-> HeaderHash(body)]
  BY DEF Header
<1>5. /\ body \in [intent : IntentIds, registry_hash : Config, contract_hash : Contract,
                   records : Nat, created_at : Notes, tool : Notes]
      /\ HeaderHash(body) \in IntentIds \X Config \X Contract
  BY <1>3 DEF HeaderHash, IntentIds, Notes
<1>6. /\ body.contract_hash = export.contract /\ body.registry_hash = export.config
      /\ body.records = Len(export.records)
  OBVIOUS
<1> HIDE DEF body
<1>7. bundle' \in Bundles
  BY <1>1, <1>3, <1>4, <1>5 DEF Bundles, Headers
<1>8. /\ HeaderBody' = body /\ bundle'.header.sha256 = HeaderHash(body)
      /\ bundle'.records = export.records
  BY <1>1, <1>4 DEF HeaderBody
<1>9. \A i \in DOMAIN export.records : Faithful(export.records[i])
  BY <1>2 DEF Carried, Written, Range
<1>10. Sealed'
  BY <1>6, <1>8, <1>9 DEF Sealed, Faithful, HeaderHash
<1>11. ASSUME NEW kind
       PROVE  Bodies(kind)' = {r.body : r \in {s \in Written : s.kind = kind}}
  BY <1>8 DEF Bodies, Written, Range
<1>12. Bodies("contract")' = {BodyOfContract(export.contract)}
  <2> DEFINE r == Record("contract", BodyOfContract(export.contract))
  <2>1. r \in Written /\ r.kind = "contract" /\ r.body = BodyOfContract(export.contract)
    BY <1>2 DEF Carried, Record
  <2>2. \A s \in Written : s.kind = "contract" => s.body = BodyOfContract(export.contract)
    BY <1>2 DEF Carried, Faithful
  <2> HIDE DEF r
  <2>3. Bodies("contract")' = {s.body : s \in {t \in Written : t.kind = "contract"}}
    BY <1>11
  <2> QED BY <2>1, <2>2, <2>3
<1>13. IntegrityErrors' = {}
  <2>1. HeaderHash(HeaderBody)' = bundle'.header.sha256
    BY <1>8 DEF HeaderHash
  <2>2. {n \in DOMAIN bundle'.records : bundle'.records[n].sha256 # bundle'.records[n].body} = {}
    BY <1>10 DEF Sealed
  <2>3. \A b \in Bodies("contract")' : b.text = HeaderBody'.contract_hash
    BY <1>6, <1>8, <1>12 DEF BodyOfContract
  <2>4. \A b \in Bodies("registry")' : b.text = HeaderBody'.registry_hash
    <3>1. \A s \in Written : s.kind = "registry" => s.body.text = export.config
      BY <1>2 DEF Carried, Faithful
    <3>2. Bodies("registry")' = {s.body : s \in {t \in Written : t.kind = "registry"}}
      BY <1>11
    <3> QED BY <1>6, <1>8, <3>1, <3>2
  <2>5. Len(bundle.records)' = HeaderBody'.records
    BY <1>6, <1>8
  <2> QED BY <2>1, <2>2, <2>3, <2>4, <2>5 DEF IntegrityErrors
<1> QED BY <1>1, <1>2, <1>6, <1>7, <1>8, <1>10, <1>11, <1>12, <1>13, BundleAssumption

\* The contract in the bundle is the one the export read.
LEMMA WrittenContract ==
  ASSUME ExportInv, BundleOK, WriteBundle
  PROVE  /\ ContractClaims' = ClaimsOf[export.contract]
         /\ Requirements' = Range(RequiresOf[export.contract])
<1> DEFINE b == BodyOfContract(export.contract)
<1>1. Bodies("contract")' = {b}
  BY BundleWritten
<1>2. b.claims = ClaimsOf[export.contract] /\ b.requires = RequiresOf[export.contract]
  BY DEF BodyOfContract
<1> HIDE DEF b
<1>3. ContractClaims' = b.claims
  BY <1>1 DEF ContractClaims
<1>4. Requirements' = Range(b.requires)
  BY <1>1 DEF Requirements
<1> QED BY <1>2, <1>3, <1>4

\* A record of each kind says what its kind may say.
LEMMA RecordBodies ==
  ASSUME NEW r \in Records
  PROVE  /\ r.kind = "contract" => r.body \in ContractBodies
         /\ r.kind = "registry" => r.body \in [text : Config]
         /\ r.kind = "evidence" => r.body \in Proofs
         /\ r.kind = "binding" => r.body \in [claim : Claim]
         /\ r.kind = "decision" => r.body \in Decisions
  BY DEF Records, RecordsOf

\* The contract and the registry in a consistent bundle are those of its
\* header, whose every proof is of them; and what was read from undisturbed
\* files is what the decision rests on.
LEMMA WrittenTogether ==
  ASSUME WorkspaceOK, ExportInv, BundleOK, WriteBundle
  PROVE  PiecesBelongTogether'
<1> USE BundleWritten
<1>1. export # Idle /\ export.pc = "write" /\ Carried
  BY CarriedExport DEF WriteBundle, Exporting, ExportInv
<1>2. history'.made.persisted = history.persisted
  BY DEF WriteBundle, WorkspaceOK, FilesOK, HistoryOK
<1>3. SUFFICES ASSUME Consistent'
      PROVE  /\ \A b \in Bodies("evidence")' :
                  /\ \A c \in Bodies("contract")' : b.contract = c.text
                  /\ \A r \in Bodies("registry")' : b.config = r.text
             /\ ~history.persisted =>
                  \A decision \in Bodies("decision")' : \A v \in DOMAIN decision.basis :
                    \E b \in Bodies("evidence")' : b.by = v /\ b.run = decision.basis[v]
  BY <1>2 DEF PiecesBelongTogether
<1>4. /\ Bodies("evidence")' = {r.body : r \in {s \in Written : s.kind = "evidence"}}
      /\ Bodies("decision")' = {r.body : r \in {s \in Written : s.kind = "decision"}}
  OBVIOUS
<1>5. /\ \A b \in Bodies("evidence")' :
           b.config = HeaderBody'.registry_hash /\ b.contract = HeaderBody'.contract_hash
      /\ \A c \in Bodies("contract")' : c.text = HeaderBody'.contract_hash
      /\ \A r \in Bodies("registry")' : r.text = HeaderBody'.registry_hash
      /\ DecisionClaims' \subseteq EvidenceClaims' /\ EvidenceClaims' \subseteq ContractClaims'
  BY <1>3 DEF Consistent, CrossCheckErrors, IntegrityErrors
<1>6. ASSUME ~history.persisted, NEW decision \in Bodies("decision")', NEW v \in DOMAIN decision.basis
      PROVE  \E b \in Bodies("evidence")' : b.by = v /\ b.run = decision.basis[v]
  <2>1. decision = last
    BY <1>1, <1>4, <1>6 DEF ExportInv, SnapshotOK
  <2>2. PICK r \in Written : r.kind = "decision" /\ r.body = decision
    BY <1>4
  <2>3. last # None
    <3>1. r \in Records
      BY <1>1, <2>2 DEF Carried, Exports, Written, Range
    <3> QED BY <2>1, <2>2, <3>1, RecordBodies, BundleAssumption
  <2>4. PICK p \in Range(Paths) :
          evidence[p] # None /\ evidence[p].by = v /\ evidence[p].run = last.basis[v]
    BY <1>6, <2>1, <2>3 DEF WorkspaceOK, LastOK, OnDisk
  <2>5. v[1] \in ClaimsOf[export.contract]
    <3>1. v[1] \in DecisionClaims'
      BY <1>6, <2>1, <2>3 DEF DecisionClaims, WorkspaceOK, LastOK
    <3>2. ContractClaims' = ClaimsOf[export.contract]
      BY WrittenContract
    <3> QED BY <1>5, <3>1, <3>2
  <2>6. Wanted(evidence[p]) /\ EvidenceRead(p)
    BY <1>1, <2>4, <2>5 DEF Wanted, EvidenceRead
  <2>7. Record("evidence", evidence[p]) \in Written
    BY <1>1, <1>6, <2>6 DEF ExportInv, SnapshotOK
  <2>8. evidence[p] \in Bodies("evidence")'
    BY <1>4, <2>7 DEF Record
  <2> QED BY <2>1, <2>4, <2>8
<1> QED BY <1>5, <1>6

\* A bundle of undisturbed, settled files holds just the proofs there are of the
\* claims of the contract, the bindings it requires and the last decision.
LEMMA WrittenCalmly ==
  ASSUME WorkspaceOK, ExportInv, BundleOK, WriteBundle, history.calm, history.settled
  PROVE  /\ Bodies("evidence")' = {evidence[p] : p \in {q \in Range(Paths) : Wanted(evidence[q])}}
         /\ Bodies("decision")' = {last} /\ last.claims = ClaimsOf[export.contract]
         /\ Requirements' \subseteq {b.claim : b \in Bodies("binding")'}
         /\ \A v \in VerificationsOf[export.contract] :
              \E p \in Range(Paths) : Wanted(evidence[p]) /\ evidence[p].by = v
<1> DEFINE x == export.contract
<1>1. export # Idle /\ export.pc = "write" /\ Carried
  BY CarriedExport DEF WriteBundle, Exporting, ExportInv
<1>2. /\ contract = x /\ config = export.config /\ x \in Contract
      /\ \A r \in Written : r.kind = "evidence" => \E p \in Range(Paths) : r.body = evidence[p]
  BY <1>1 DEF ExportInv, CalmOK, Carried, Exports
<1>3. /\ last # None /\ last.intent = IntentOf[x] /\ last.claims = ClaimsOf[x]
      /\ Range(RequiresOf[x]) \subseteq bound
      /\ \A v \in VerificationsOf[x] : \E n \in Nat : OnDisk(v, n)
  BY <1>2 DEF WorkspaceOK, SettledOK
<1>4. \A kind : Bodies(kind)' = {r.body : r \in {s \in Written : s.kind = kind}}
  BY BundleWritten
<1>5. ASSUME NEW p \in Range(Paths), Wanted(evidence[p])
      PROVE  evidence[p] \in Bodies("evidence")'
  <2>1. Record("evidence", evidence[p]) \in Written
    BY <1>1, <1>5 DEF ExportInv, SnapshotOK, EvidenceRead
  <2> QED BY <1>4, <2>1 DEF Record
<1>6. ASSUME NEW b \in Bodies("evidence")'
      PROVE  \E p \in Range(Paths) : Wanted(evidence[p]) /\ b = evidence[p]
  <2>1. PICK r \in Written : r.kind = "evidence" /\ r.body = b
    BY <1>4
  <2>2. PICK p \in Range(Paths) : b = evidence[p]
    BY <1>2, <2>1
  <2>3. r \in Records
    BY <1>1, <2>1 DEF Carried, Exports, Written, Range
  <2>4. b # None
    BY <2>1, <2>3, RecordBodies, BundleAssumption
  <2>5. b.by[1] \in ClaimsOf[x]
    BY <1>1, <2>1 DEF Carried, Faithful
  <2> QED BY <2>2, <2>4, <2>5 DEF Wanted
<1>7. Bodies("decision")' = {last}
  <2>1. Record("decision", last) \in Written
    BY <1>1, <1>3 DEF ExportInv, CalmOK
  <2>2. \A r \in Written : r.kind = "decision" => r.body = last
    BY <1>1 DEF ExportInv, SnapshotOK
  <2>3. Record("decision", last).kind = "decision" /\ Record("decision", last).body = last
    BY DEF Record
  <2> QED BY <1>4, <2>1, <2>2, <2>3
<1>8. ASSUME NEW c \in Requirements'
      PROVE  c \in {b.claim : b \in Bodies("binding")'}
  <2>1. PICK n \in DOMAIN RequiresOf[x] : c = RequiresOf[x][n]
    BY WrittenContract DEF Range
  <2>2. BindingRead(n) /\ RequiresOf[x][n] \in bound
    BY <1>1, <1>3, <2>1, WrittenContract DEF BindingRead
  <2>3. Record("binding", [claim |-> c]) \in Written
    BY <1>1, <2>1, <2>2 DEF ExportInv, CalmOK
  <2>4. [claim |-> c] \in Bodies("binding")'
    BY <1>4, <2>3 DEF Record
  <2>5. [claim |-> c].claim = c
    OBVIOUS
  <2> QED BY <2>4, <2>5
<1>9. ASSUME NEW v \in VerificationsOf[x]
      PROVE  \E p \in Range(Paths) : Wanted(evidence[p]) /\ evidence[p].by = v
  <2>1. PICK p \in Range(Paths) : evidence[p] # None /\ evidence[p].by = v
    BY <1>3 DEF OnDisk
  <2>2. v[1] \in ClaimsOf[x]
    BY <1>2, ClaimVerified
  <2> QED BY <2>1, <2>2 DEF Wanted
<1> QED BY <1>3, <1>5, <1>6, <1>7, <1>8, <1>9

\* Such a bundle is consistent when, and only when, no proof of another contract
\* or config was left over and every claim is verified.
LEMMA WrittenHonestly ==
  ASSUME WorkspaceOK, ExportInv, BundleOK, WriteBundle
  PROVE  HonestExportPasses'
<1> DEFINE x == export.contract
<1>1. /\ history'.made.calm = history.calm /\ history'.made.settled = history.settled
      /\ history'.made.leftover = (Leftover # {}) /\ history'.made.unverified = (Unverified # {})
  BY DEF WriteBundle, WorkspaceOK, FilesOK, HistoryOK
<1>2. SUFFICES ASSUME history.calm, history.settled
      PROVE  /\ Bodies("decision")' # {}
             /\ Consistent' <=> Leftover = {} /\ Unverified = {}
             /\ Consistent' => Covered' = ContractClaims'
  BY <1>1 DEF HonestExportPasses
<1>3. export # Idle /\ export.pc = "write" /\ Carried
  BY CarriedExport DEF WriteBundle, Exporting, ExportInv
<1>4. contract = x /\ config = export.config /\ x \in Contract
  BY <1>2, <1>3 DEF ExportInv, CalmOK, Carried, Exports
<1> DEFINE Kept == {p \in Range(Paths) : Wanted(evidence[p])}
<1>5. /\ Bodies("evidence")' = {evidence[p] : p \in Kept}
      /\ Bodies("decision")' = {last} /\ last.claims = ClaimsOf[x]
      /\ Requirements' \subseteq {b.claim : b \in Bodies("binding")'}
      /\ \A v \in VerificationsOf[x] : \E p \in Kept : evidence[p].by = v
  BY <1>2, WrittenCalmly
<1>6. /\ ContractClaims' = ClaimsOf[x] /\ IntegrityErrors' = {}
      /\ HeaderBody'.contract_hash = x /\ HeaderBody'.registry_hash = export.config
  BY WrittenContract, BundleWritten
<1>7. EvidenceClaims' = {evidence[p].by[1] : p \in Kept}
  BY <1>5 DEF EvidenceClaims
<1>8. EvidenceClaims' \subseteq ClaimsOf[x]
  BY <1>7 DEF Wanted
<1>9. DecisionClaims' = ClaimsOf[x]
  BY <1>5 DEF DecisionClaims
<1>10. Consistent' <=>
         /\ \A p \in Kept : evidence[p].config = export.config /\ evidence[p].contract = x
         /\ ClaimsOf[x] \subseteq EvidenceClaims'
  <2>1. {b \in Bodies("evidence")' : \/ b.config # HeaderBody'.registry_hash
                                     \/ b.contract # HeaderBody'.contract_hash} = {}
          <=> \A p \in Kept : evidence[p].config = export.config /\ evidence[p].contract = x
    BY <1>5, <1>6
  <2>2. Requirements' \ {b.claim : b \in Bodies("binding")'} = {}
    BY <1>5
  <2>3. EvidenceClaims' \ ContractClaims' = {}
    BY <1>6, <1>8
  <2>4. DecisionClaims' \ EvidenceClaims' = {} <=> ClaimsOf[x] \subseteq EvidenceClaims'
    BY <1>9
  <2> QED BY <1>6, <2>1, <2>2, <2>3, <2>4 DEF Consistent, CrossCheckErrors
<1>11. Leftover = {} <=>
         \A p \in Kept : evidence[p].config = export.config /\ evidence[p].contract = x
  BY DEF Leftover, Wanted
<1> HIDE DEF Kept
<1>12. ASSUME Leftover = {}
       PROVE  Unverified = {} <=> ClaimsOf[x] \subseteq EvidenceClaims'
  <2>1. ASSUME Unverified = {}, NEW c \in ClaimsOf[x]
        PROVE  c \in EvidenceClaims'
    <3>1. PICK v \in VerificationsOf[x] : c = v[1]
      BY <2>1 DEF Unverified
    <3>2. PICK p \in Kept : evidence[p].by = v
      BY <1>5
    <3> QED BY <1>7, <3>1, <3>2
  <2>2. ASSUME ClaimsOf[x] \subseteq EvidenceClaims', NEW c \in ClaimsOf[x]
        PROVE  c \in {v[1] : v \in VerificationsOf[x]}
    <3>1. PICK p \in Kept : c = evidence[p].by[1]
      BY <1>7, <2>2
    <3>2. p \in Range(Paths) /\ evidence[p] # None
      BY DEF Kept, Wanted
    <3>3. evidence[p].by \in VerificationsOf[evidence[p].contract]
      BY <3>2 DEF WorkspaceOK, FilesOK
    <3>4. evidence[p].contract = x
      BY <1>11, <1>12
    <3> QED BY <3>1, <3>3, <3>4
  <2> QED BY <2>1, <2>2 DEF Unverified
<1>13. Consistent' <=> Leftover = {} /\ Unverified = {}
  BY <1>10, <1>11, <1>12
<1>14. Consistent' => Covered' = ContractClaims'
  BY <1>6, <1>8, <1>10 DEF Covered
<1> QED BY <1>5, <1>13, <1>14

\* A bundle written is consistent when it should be, and sealed.
LEMMA WriteBundleKeeps ==
  ASSUME WorkspaceOK, ExportInv, BundleOK, WriteBundle
  PROVE  BundleOK'
<1>1. HashedPartsSealed'
  BY BundleWritten DEF HashedPartsSealed
<1>2. Contents(bundle)' = history'.made.contents
  <2> DEFINE contents == Contents(bundle')
             made == [calm |-> history.calm, settled |-> history.settled,
                      persisted |-> history.persisted, leftover |-> Leftover # {},
                      unverified |-> Unverified # {}, contents |-> contents]
  <2>1. history' = [history EXCEPT !.made = made]
    BY DEF WriteBundle
  <2>2. made.contents = contents
    OBVIOUS
  <2> HIDE DEF made
  <2>3. history'.made = made
    BY <2>1 DEF WorkspaceOK, FilesOK, HistoryOK
  <2>4. Contents(bundle)' = contents
    BY DEF Contents, HeaderHash
  <2> QED BY <2>2, <2>3, <2>4
<1> QED BY <1>1, <1>2, BundleWritten, WrittenTogether, WrittenHonestly DEF BundleOK

-----------------------------------------------------------------------------
(* Transport *)

\* Taking one record out leaves records, and one fewer.
LEMMA RemovedOne ==
  ASSUME NEW S, NEW s \in Seq(S), NEW i \in DOMAIN s
  PROVE  RemoveAt(s, i) \in Seq(S) /\ Len(RemoveAt(s, i)) = Len(s) - 1
<1>1. i \in 1..Len(s) /\ Len(s) \in Nat
  OBVIOUS
<1> DEFINE before == SubSeq(s, 1, i - 1)
           after == SubSeq(s, i + 1, Len(s))
<1>2. before \in Seq(S) /\ Len(before) = i - 1
  BY <1>1
<1>3. after \in Seq(S) /\ Len(after) = Len(s) - i
  BY <1>1
<1>4. RemoveAt(s, i) = before \o after
  BY DEF RemoveAt
<1> HIDE DEF before, after
<1>5. before \o after \in Seq(S) /\ Len(before \o after) = Len(before) + Len(after)
  BY <1>2, <1>3, ConcatRange
<1>6. (i - 1) + (Len(s) - i) = Len(s) - 1
  BY <1>1
<1> QED BY <1>2, <1>3, <1>4, <1>5, <1>6

\* Another list of records under the same header.
LEMMA OtherRecords ==
  ASSUME bundle \in Bundles, NEW records \in Seq(Records),
         bundle' = [bundle EXCEPT !.records = records]
  PROVE  /\ bundle' \in Bundles /\ bundle'.records = records /\ bundle'.header = bundle.header
         /\ HeaderBody' = HeaderBody
  BY DEF Bundles, HeaderBody

\* Another body of its kind makes another record of its kind, and any record
\* may be called other.
LEMMA OtherRecord ==
  ASSUME NEW r \in Records
  PROVE  /\ r.kind = "contract" =>
              \A body \in ContractBodies : [r EXCEPT !.body = body] \in Records
         /\ r.kind = "evidence" => \A body \in Proofs : [r EXCEPT !.body = body] \in Records
         /\ [r EXCEPT !.kind = "other"] \in Records
<1>1. r.kind = "contract" => r \in RecordsOf("contract", ContractBodies)
  BY DEF Records, RecordsOf
<1>2. r.kind = "evidence" => r \in RecordsOf("evidence", Proofs)
  BY DEF Records, RecordsOf
<1>3. \A S, kind : r \in RecordsOf(kind, S) =>
        \A body \in S : [r EXCEPT !.body = body] \in RecordsOf(kind, S)
  BY DEF RecordsOf
<1>4. /\ RecordsOf("contract", ContractBodies) \subseteq Records
      /\ RecordsOf("evidence", Proofs) \subseteq Records
      /\ RecordsOf("other", AnyBody) \subseteq Records
  BY DEF Records
<1>5. [r EXCEPT !.kind = "other"] \in RecordsOf("other", AnyBody)
  <2>1. /\ r = [kind |-> r.kind, sha256 |-> r.sha256, body |-> r.body]
        /\ r.sha256 \in AnyBody /\ r.body \in AnyBody
    BY DEF Records, RecordsOf, AnyBody
  <2>2. [r EXCEPT !.kind = "other"] = [kind |-> "other", sha256 |-> r.sha256, body |-> r.body]
    BY <2>1
  <2> QED BY <2>1, <2>2 DEF RecordsOf
<1> QED BY <1>1, <1>2, <1>3, <1>4, <1>5

\* A record with another body of its kind in its place: seen if nothing was
\* changed before.
LEMMA BodyChanged ==
  ASSUME bundle \in Bundles, NEW i \in DOMAIN bundle.records, NEW body,
         [bundle.records[i] EXCEPT !.body = body] \in Records,
         body # bundle.records[i].body,
         bundle' = [bundle EXCEPT !.records[i].body = body]
  PROVE  bundle' \in Bundles /\ (Sealed => IntegrityErrors' # {})
<1> DEFINE r == [bundle.records[i] EXCEPT !.body = body]
           records == [bundle.records EXCEPT ![i] = r]
<1>1. bundle.records \in Seq(Records) /\ bundle.records[i] \in Records
  BY DEF Bundles
<1>2. bundle' = [bundle EXCEPT !.records = records]
  BY DEF Bundles
<1>3. r.body = body /\ r.sha256 = bundle.records[i].sha256
  BY <1>1 DEF Records, RecordsOf
<1> HIDE DEF r
<1>4. records \in Seq(Records) /\ DOMAIN records = DOMAIN bundle.records /\ records[i] = r
  <2>1. r \in Records
    BY DEF r
  <2> QED BY <1>1, <2>1
<1> HIDE DEF records
<1>5. bundle' \in Bundles /\ bundle'.records = records
  BY <1>2, <1>4, OtherRecords
<1>6. Sealed => IntegrityErrors' # {}
  <2>1. SUFFICES ASSUME Sealed PROVE IntegrityErrors' # {}
    OBVIOUS
  <2>2. r.sha256 # r.body
    BY <1>3, <2>1 DEF Sealed
  <2>3. i \in DOMAIN bundle'.records /\ bundle'.records[i].sha256 # bundle'.records[i].body
    BY <1>4, <1>5, <2>2
  <2>4. bundle'.records[i].kind \in
          {bundle'.records[k].kind : k \in {n \in DOMAIN bundle'.records :
                                             bundle'.records[n].sha256 # bundle'.records[n].body}}
    BY <2>3
  <2> QED BY <2>4 DEF IntegrityErrors
<1> QED BY <1>5, <1>6

\* Seen, or nothing that a hash covers was changed.
SeenOrSealed == Sealed => IntegrityErrors' # {} \/ Contents(bundle') = Contents(bundle)

\* Records taken out or added are missed in the count.
LEMMA CountChanged ==
  ASSUME bundle \in Bundles, NEW records \in Seq(Records),
         Len(records) # Len(bundle.records), bundle' = [bundle EXCEPT !.records = records]
  PROVE  bundle' \in Bundles /\ SeenOrSealed
<1>1. /\ bundle' \in Bundles /\ bundle'.records = records /\ HeaderBody' = HeaderBody
  BY OtherRecords
<1>2. Sealed => Len(bundle.records)' # HeaderBody'.records
  BY <1>1 DEF Sealed
<1> QED BY <1>1, <1>2 DEF IntegrityErrors, SeenOrSealed

\* The bodies of records that only change places or kind are what they were.
LEMMA BodiesKept ==
  ASSUME bundle \in Bundles, NEW records \in Seq(Records),
         Len(records) = Len(bundle.records), bundle' = [bundle EXCEPT !.records = records],
         \A n \in DOMAIN records : \E m \in DOMAIN bundle.records :
           records[n].body = bundle.records[m].body,
         \A m \in DOMAIN bundle.records : \E n \in DOMAIN records :
           records[n].body = bundle.records[m].body
  PROVE  bundle' \in Bundles /\ SeenOrSealed
<1>1. /\ bundle' \in Bundles /\ bundle'.records = records /\ bundle'.header = bundle.header
  BY OtherRecords
<1> DEFINE before == {bundle.records[m].body : m \in DOMAIN bundle.records}
           after == {records[n].body : n \in DOMAIN records}
<1>2. after = before
  <2>1. ASSUME NEW x \in after PROVE x \in before
    <3>1. PICK n \in DOMAIN records : x = records[n].body
      OBVIOUS
    <3>2. PICK m \in DOMAIN bundle.records : records[n].body = bundle.records[m].body
      BY <3>1
    <3> QED BY <3>1, <3>2
  <2>2. ASSUME NEW x \in before PROVE x \in after
    <3>1. PICK m \in DOMAIN bundle.records : x = bundle.records[m].body
      OBVIOUS
    <3>2. PICK n \in DOMAIN records : records[n].body = bundle.records[m].body
      BY <3>1
    <3> QED BY <3>1, <3>2
  <2> HIDE DEF before, after
  <2> QED BY <2>1, <2>2
<1> QED BY <1>1, <1>2 DEF SeenOrSealed, Contents

\* Records are taken out or added, or change places.
LEMMA ListChanged ==
  ASSUME bundle \in Bundles, ChangeList
  PROVE  bundle' \in Bundles /\ SeenOrSealed
<1>1. bundle.records \in Seq(Records) /\ Len(bundle.records) \in Nat
  BY DEF Bundles
<1>2. ASSUME NEW i \in DOMAIN bundle.records,
             bundle' = [bundle EXCEPT !.records = RemoveAt(@, i)]
      PROVE  bundle' \in Bundles /\ SeenOrSealed
  <2> DEFINE records == RemoveAt(bundle.records, i)
  <2>1. records \in Seq(Records) /\ Len(records) = Len(bundle.records) - 1
    BY <1>1, RemovedOne
  <2>2. bundle' = [bundle EXCEPT !.records = records]
    BY <1>2 DEF Bundles
  <2> HIDE DEF records
  <2>3. Len(records) # Len(bundle.records)
    BY <1>1, <2>1
  <2> QED BY <2>1, <2>2, <2>3, CountChanged
<1>3. ASSUME NEW i \in DOMAIN bundle.records,
             bundle' = [bundle EXCEPT !.records = Append(@, bundle.records[i])]
      PROVE  bundle' \in Bundles /\ SeenOrSealed
  <2> DEFINE records == Append(bundle.records, bundle.records[i])
  <2>1. records \in Seq(Records) /\ Len(records) = Len(bundle.records) + 1
    BY <1>1
  <2>2. bundle' = [bundle EXCEPT !.records = records]
    BY <1>3 DEF Bundles
  <2> HIDE DEF records
  <2>3. Len(records) # Len(bundle.records)
    BY <1>1, <2>1
  <2> QED BY <2>1, <2>2, <2>3, CountChanged
<1>4. ASSUME NEW i \in DOMAIN bundle.records, NEW k \in DOMAIN bundle.records \ {i},
             bundle' = [bundle EXCEPT !.records[i] = bundle.records[k],
                                      !.records[k] = bundle.records[i]]
      PROVE  bundle' \in Bundles /\ SeenOrSealed
  <2> DEFINE records == [bundle.records EXCEPT ![i] = bundle.records[k], ![k] = bundle.records[i]]
  <2>1. /\ records \in Seq(Records) /\ Len(records) = Len(bundle.records)
        /\ DOMAIN records = DOMAIN bundle.records
        /\ records[i] = bundle.records[k] /\ records[k] = bundle.records[i]
        /\ \A n \in DOMAIN bundle.records : n # i /\ n # k => records[n] = bundle.records[n]
    BY <1>1
  <2>2. bundle' = [bundle EXCEPT !.records = records]
    BY <1>4 DEF Bundles
  <2> HIDE DEF records
  <2>3. ASSUME NEW n \in DOMAIN bundle.records
        PROVE  /\ \E m \in DOMAIN bundle.records : records[n].body = bundle.records[m].body
               /\ \E m \in DOMAIN bundle.records : records[m].body = bundle.records[n].body
    <3>1. CASE n # i /\ n # k
      BY <2>1, <3>1
    <3>2. CASE n = i
      BY <2>1, <3>2
    <3>3. CASE n = k
      BY <2>1, <3>3
    <3> QED BY <3>1, <3>2, <3>3
  <2>4. \A n \in DOMAIN records : \E m \in DOMAIN bundle.records :
          records[n].body = bundle.records[m].body
    BY <2>1, <2>3
  <2>5. \A m \in DOMAIN bundle.records : \E n \in DOMAIN records :
          records[n].body = bundle.records[m].body
    BY <2>1, <2>3
  <2> QED BY <2>1, <2>2, <2>4, <2>5, BodiesKept
<1> QED BY <1>2, <1>3, <1>4 DEF ChangeList

\* A body is changed, which its hash tells, or a kind, which nothing does.
LEMMA RecordChanged ==
  ASSUME bundle \in Bundles, ChangeRecord
  PROVE  bundle' \in Bundles /\ SeenOrSealed
<1>1. PICK i \in DOMAIN bundle.records :
        \/ /\ bundle.records[i].kind = "evidence"
           /\ \E k \in Config \ {bundle.records[i].body.config} :
                bundle' = [bundle EXCEPT !.records[i].body.config = k]
        \/ /\ bundle.records[i].kind = "contract"
           /\ \E c \in Contract \ {bundle.records[i].body.text} :
                bundle' = [bundle EXCEPT !.records[i].body.text = c]
        \/ bundle' = [bundle EXCEPT !.records[i].kind = "other"]
  BY DEF ChangeRecord
<1> DEFINE r == bundle.records[i]
<1>2. bundle.records \in Seq(Records) /\ r \in Records
  BY DEF Bundles
<1>3. ASSUME NEW k \in Config \ {r.body.config}, r.kind = "evidence",
             bundle' = [bundle EXCEPT !.records[i].body.config = k]
      PROVE  bundle' \in Bundles /\ SeenOrSealed
  <2> DEFINE body == [r.body EXCEPT !.config = k]
  <2>1. r.body \in Proofs
    BY <1>2, <1>3, RecordBodies
  <2>2. body \in Proofs /\ body # r.body
    BY <1>3, <2>1 DEF Proofs
  <2>3. bundle' = [bundle EXCEPT !.records[i].body = body]
    BY <1>2, <1>3 DEF Bundles
  <2> HIDE DEF body
  <2>4. [r EXCEPT !.body = body] \in Records
    BY <1>2, <1>3, <2>2, OtherRecord
  <2> QED BY <2>2, <2>3, <2>4, BodyChanged DEF SeenOrSealed
<1>4. ASSUME NEW c \in Contract \ {r.body.text}, r.kind = "contract",
             bundle' = [bundle EXCEPT !.records[i].body.text = c]
      PROVE  bundle' \in Bundles /\ SeenOrSealed
  <2> DEFINE body == [r.body EXCEPT !.text = c]
  <2>1. r.body \in ContractBodies
    BY <1>2, <1>4, RecordBodies
  <2>2. body \in ContractBodies /\ body # r.body
    BY <1>4, <2>1 DEF ContractBodies
  <2>3. bundle' = [bundle EXCEPT !.records[i].body = body]
    BY <1>2, <1>4 DEF Bundles
  <2> HIDE DEF body
  <2>4. [r EXCEPT !.body = body] \in Records
    BY <1>2, <1>4, <2>2, OtherRecord
  <2> QED BY <2>2, <2>3, <2>4, BodyChanged DEF SeenOrSealed
<1>5. ASSUME bundle' = [bundle EXCEPT !.records[i].kind = "other"]
      PROVE  bundle' \in Bundles /\ SeenOrSealed
  <2> DEFINE s == [r EXCEPT !.kind = "other"]
             records == [bundle.records EXCEPT ![i] = s]
  <2>1. s \in Records /\ s.body = r.body
    BY <1>2, OtherRecord DEF Records, RecordsOf
  <2>2. bundle' = [bundle EXCEPT !.records = records]
    BY <1>5 DEF Bundles
  <2> HIDE DEF s
  <2>3. /\ records \in Seq(Records) /\ Len(records) = Len(bundle.records)
        /\ DOMAIN records = DOMAIN bundle.records
        /\ \A n \in DOMAIN records : records[n].body = bundle.records[n].body
    BY <1>2, <2>1
  <2> HIDE DEF records
  <2> QED BY <2>2, <2>3, BodiesKept
<1> QED BY <1>1, <1>3, <1>4, <1>5

\* A field of the header is changed: its hash tells, or the count, or nothing.
LEMMA HeaderChanged ==
  ASSUME bundle \in Bundles, ChangeHeader
  PROVE  bundle' \in Bundles /\ SeenOrSealed
<1>1. /\ bundle.header \in Headers /\ bundle.records \in Seq(Records)
      /\ HeaderBody = bundle.header.body /\ Len(bundle.records) \in Nat
  BY DEF Bundles, HeaderBody
<1>2. ASSUME NEW k \in Config \ {HeaderBody.registry_hash},
             bundle' = [bundle EXCEPT !.header.body.registry_hash = k]
      PROVE  bundle' \in Bundles /\ SeenOrSealed
  <2>1. /\ bundle' \in Bundles /\ bundle'.header.sha256 = bundle.header.sha256
        /\ HeaderBody' = [HeaderBody EXCEPT !.registry_hash = k]
    BY <1>1, <1>2 DEF Bundles, Headers, HeaderBody
  <2>2. HeaderHash(HeaderBody') # HeaderHash(HeaderBody)
    BY <1>1, <1>2, <2>1 DEF Headers, HeaderHash
  <2>3. HeaderHash(HeaderBody)' = HeaderHash(HeaderBody')
    BY DEF HeaderHash
  <2> QED BY <2>1, <2>2, <2>3 DEF Sealed, SeenOrSealed, IntegrityErrors
<1>3. ASSUME NEW x \in IntentIds \ {HeaderBody.intent},
             bundle' = [bundle EXCEPT !.header.body.intent = x]
      PROVE  bundle' \in Bundles /\ SeenOrSealed
  <2>1. /\ bundle' \in Bundles /\ bundle'.header.sha256 = bundle.header.sha256
        /\ HeaderBody' = [HeaderBody EXCEPT !.intent = x]
    BY <1>1, <1>3 DEF Bundles, Headers, HeaderBody
  <2>2. HeaderHash(HeaderBody') # HeaderHash(HeaderBody)
    BY <1>1, <1>3, <2>1 DEF Headers, HeaderHash
  <2>3. HeaderHash(HeaderBody)' = HeaderHash(HeaderBody')
    BY DEF HeaderHash
  <2> QED BY <2>1, <2>2, <2>3 DEF Sealed, SeenOrSealed, IntegrityErrors
<1>4. ASSUME bundle' = [bundle EXCEPT !.header.body.records = @ + 1]
      PROVE  bundle' \in Bundles /\ SeenOrSealed
  <2>1. HeaderBody.records \in Nat /\ HeaderBody.records + 1 \in Nat
    BY <1>1 DEF Headers
  <2>2. /\ bundle' \in Bundles /\ bundle'.records = bundle.records
        /\ HeaderBody'.records = HeaderBody.records + 1
    BY <1>1, <1>4, <2>1 DEF Bundles, Headers, HeaderBody
  <2>3. Sealed => Len(bundle.records)' # HeaderBody'.records
    BY <1>1, <2>1, <2>2 DEF Sealed
  <2> QED BY <2>2, <2>3 DEF SeenOrSealed, IntegrityErrors
<1>5. ASSUME \/ bundle' = [bundle EXCEPT !.header.body.created_at = "rewritten"]
             \/ bundle' = [bundle EXCEPT !.header.body.tool = "rewritten"]
      PROVE  bundle' \in Bundles /\ SeenOrSealed
  <2>1. /\ bundle' \in Bundles /\ bundle'.records = bundle.records
        /\ bundle'.header.body.intent = bundle.header.body.intent
        /\ bundle'.header.body.registry_hash = bundle.header.body.registry_hash
        /\ bundle'.header.body.contract_hash = bundle.header.body.contract_hash
    BY <1>1, <1>5 DEF Bundles, Headers, Notes
  <2> QED BY <2>1 DEF SeenOrSealed, Contents, HeaderHash
<1> QED BY <1>2, <1>3, <1>4, <1>5 DEF ChangeHeader

\* Of one change on the way, what the hashes cover is seen.
LEMMA TransportKeeps ==
  ASSUME BundleOK, Transport
  PROVE  BundleOK'
<1>1. /\ bundle # None /\ tampering \in Nat /\ tampering' = tampering + 1
      /\ bundle \in Bundles /\ history' = history
      /\ tampering = 0 => Sealed /\ Contents(bundle) = history.made.contents
  BY DEF Transport, BundleOK
<1>2. bundle' \in Bundles /\ SeenOrSealed
  BY <1>1, ListChanged, RecordChanged, HeaderChanged DEF Transport
<1>3. tampering' \in Nat /\ tampering' # 0 /\ bundle' # None
  BY <1>1, <1>2, BundleAssumption
<1>4. HashedPartsSealed'
  <2>1. SUFFICES ASSUME tampering' = 1, IntegrityErrors' = {}
                 PROVE  Contents(bundle)' = history'.made.contents
    BY DEF HashedPartsSealed
  <2>2. Contents(bundle') = history.made.contents
    BY <1>1, <1>2, <2>1 DEF SeenOrSealed
  <2>3. Contents(bundle)' = Contents(bundle')
    BY DEF Contents, HeaderHash
  <2> QED BY <1>1, <2>2, <2>3
<1>5. HonestExportPasses' /\ PiecesBelongTogether'
  BY <1>3 DEF HonestExportPasses, PiecesBelongTogether, Untouched
<1> QED BY <1>2, <1>3, <1>4, <1>5 DEF BundleOK

-----------------------------------------------------------------------------
(* The theorems *)

\* All of it, which every step keeps.
BundleInv == WorkspaceOK /\ ExportInv /\ BundleOK

\* The invariant: the workspace, the export that reads it, the bundle written.
LEMMA BundleInvHolds == Spec => []BundleInv
<1>1. Init => BundleInv
  <2> SUFFICES ASSUME Init PROVE BundleInv
    OBVIOUS
  <2>1. FilesOK
    BY BundleAssumption DEF Init, FilesOK, HistoryOK
  <2>2. VerifyOK /\ SettledOK /\ LastOK
    BY DEF Init, VerifyOK, SettledOK, LastOK
  <2>3. ExportInv
    BY NoExport DEF Init
  <2>4. BundleOK
    BY DEF Init, BundleOK
  <2> QED BY <2>1, <2>2, <2>3, <2>4 DEF BundleInv, WorkspaceOK
<1>2. BundleInv /\ [Next]_vars => BundleInv'
  <2> SUFFICES ASSUME BundleInv, [Next]_vars PROVE BundleInv'
    OBVIOUS
  <2>1. WorkspaceOK' /\ ExportInv'
    BY WorkspaceStep, ExportStep DEF BundleInv
  <2>2. BundleOK'
    <3>1. CASE WriteBundle
      BY <3>1, WriteBundleKeeps DEF BundleInv
    <3>2. CASE Transport
      BY <3>2, TransportKeeps DEF BundleInv
    <3>3. CASE ~WriteBundle /\ ~Transport
      <4>1. UNCHANGED <<bundle, tampering>>
        BY <3>3 DEF Next, VerifyStart, PersistDecision, Killed, Edit, WriteEvidence, RenameEvidence, Bind,
                    ReadContract, Export, vars
      <4>2. history'.made = history.made
        BY <3>3 DEF Next, VerifyStart, PersistDecision, Killed, Edit, WriteEvidence, RenameEvidence, Bind,
                    ReadContract, Export, vars, Disturbed, Undecided, BundleInv, WorkspaceOK, FilesOK,
                    HistoryOK
      <4> QED BY <4>1, <4>2, BundleStays DEF BundleInv
    <3> QED BY <3>1, <3>2, <3>3
  <2> QED BY <2>1, <2>2 DEF BundleInv
<1> QED BY <1>1, <1>2, PTL DEF Spec

(***************************************************************************)
(* When an honest export passes: whatever ran before, the bundle of a      *)
(* workspace at rest after a decision carries the decision, and `uni       *)
(* bundle verify` takes it exactly when no proof of another contract or    *)
(* config of its claims was left in .uni/evidence and every claim has a    *)
(* VERIFY.                                                                 *)
(***************************************************************************)
THEOREM NoFalseAlarm == Spec => []HonestExportPasses
<1>1. BundleInv => HonestExportPasses
  BY DEF BundleInv, BundleOK, HonestExportPasses, Untouched
<1> QED BY <1>1, BundleInvHolds, PTL

(***************************************************************************)
(* Although export reads file after file without the lock, the proofs of a *)
(* consistent bundle are of the contract and registry beside them and its  *)
(* decision rests on some of these proofs, unless an undecided verify      *)
(* persisted or one decided meanwhile.  There may be several proofs of a   *)
(* claim, of several verifications and settings.                           *)
(***************************************************************************)
THEOREM OneWorkspace == Spec => []PiecesBelongTogether
<1>1. BundleInv => PiecesBelongTogether
  BY DEF BundleInv, BundleOK, PiecesBelongTogether, Untouched
<1> QED BY <1>1, BundleInvHolds, PTL

(***************************************************************************)
(* One change of a bundle on its way that leaves no error has left the     *)
(* bodies, their number and the hashed fields of the header as they were:  *)
(* it was one of order, of a kind, of created_at or of tool.               *)
(***************************************************************************)
THEOREM NothingSlipsIn == Spec => []HashedPartsSealed
<1>1. BundleInv => HashedPartsSealed
  BY DEF BundleInv, BundleOK, HashedPartsSealed
<1> QED BY <1>1, BundleInvHolds, PTL
=============================================================================
