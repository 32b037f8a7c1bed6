-------------------------- MODULE AttestationAnchor --------------------------
(***************************************************************************)
(* The registry of selective-disclosure digests: AttestationAnchor.sol,    *)
(* its verifying heir VerifyingAttestationAnchor.sol (one deployment of    *)
(* the latter), and the commands of the ap client that anchor a proof file *)
(* and look it up.  Anybody calls the contract, in any order.  keccak256   *)
(* is a free constructor; the client hashes a proof's claim as text for    *)
(* the bulletin board and as ABI words for the verifying entry points, so  *)
(* one proof has two digests.                                              *)
(***************************************************************************)
EXTENDS Integers

CONSTANTS Posters,   \* accounts
          Claims,    \* tuples of public inputs
          Provable,  \* the proof files, <<kind, claim>> pairs, that verify
          MaxTime

ProofKinds == {"value_bound_dev", "ownership_dev"}
Kinds == ProofKinds \union {"other"}

Proofs == ProofKinds \X Claims

VARIABLES attestations,  \* digest -> its record
          anchored,      \* the digests posted by the client, with their kind
          now            \* block.timestamp

anchorVars == <<attestations, anchored, now>>

ZeroDigest == [proof |-> <<"none", "none">>, form |-> "zero"]
TextDigest(proof) == [proof |-> proof, form |-> "text"]
AbiDigest(proof) == [proof |-> proof, form |-> "abi"]

Digests == [proof : Proofs, form : {"text", "abi"}]

(* The record of a digest that was never posted. *)
Unposted == [poster |-> "none", kind |-> "none", postedAt |-> 0]

Posted(digest) == attestations[digest].postedAt # 0

AnchorInit ==
  /\ attestations = [d \in Digests \union {ZeroDigest} |-> Unposted]
  /\ anchored = {}
  /\ now = 1

-----------------------------------------------------------------------------
(* The contracts. *)

WriteRecord(poster, kind, digest) ==
  attestations' = [attestations EXCEPT
    ![digest] = [poster |-> poster, kind |-> kind, postedAt |-> now]]

(* postAttestation() and _post(), which are the same statements. *)
Post(poster, kind, digest) ==
  /\ digest # ZeroDigest
  /\ ~Posted(digest)
  /\ WriteRecord(poster, kind, digest)

(* postValueBoundProof() and postOwnershipProof(). *)
PostProof(poster, proof) ==
  /\ proof \in Provable
  /\ Post(poster, proof[1], AbiDigest(proof))

-----------------------------------------------------------------------------
(* The client. *)

(* anchor-build --mode bulletin, its call executed. *)
AnchorBulletin(poster, proof) ==
  /\ Post(poster, proof[1], TextDigest(proof))
  /\ anchored' = anchored \union {TextDigest(proof)}
  /\ UNCHANGED now

(* anchor-build --mode verifying, its call executed. *)
AnchorVerifying(poster, proof) ==
  /\ PostProof(poster, proof)
  /\ anchored' = anchored \union {AbiDigest(proof)}
  /\ UNCHANGED now

(* anchor-lookup --file: the digest it asks the contract for. *)
LookupDigest(proof) == TextDigest(proof)

(* Anybody's call of the inherited postAttestation(). *)
PostAttestation(poster, kind, digest) ==
  /\ Post(poster, kind, digest)
  /\ UNCHANGED <<anchored, now>>

NextBlock ==
  /\ now < MaxTime
  /\ now' = now + 1
  /\ UNCHANGED <<attestations, anchored>>

AnchorNext ==
  \/ \E poster \in Posters :
       \/ \E proof \in Proofs : AnchorBulletin(poster, proof) \/ AnchorVerifying(poster, proof)
       \/ \E kind \in Kinds, digest \in Digests \union {ZeroDigest} :
            PostAttestation(poster, kind, digest)
  \/ NextBlock

AnchorSpec == AnchorInit /\ [][AnchorNext]_anchorVars

-----------------------------------------------------------------------------
(***************************************************************************)
(* What the client anchored stays attested under the kind of its proof,    *)
(* whatever others post about the same digest before or afterwards.        *)
(***************************************************************************)
AnchoredStaysAttested ==
  \A digest \in anchored :
    Posted(digest) /\ attestations[digest].kind = digest.proof[1]

(***************************************************************************)
(* VerifyingAttestationAnchor.sol:8: a digest is posted only after its     *)
(* proof was verified.  The inherited postAttestation() asks for none.     *)
(***************************************************************************)
PostsOnlyVerified ==
  \A proof \in Proofs : Posted(AbiDigest(proof)) => proof \in Provable

(***************************************************************************)
(* ap.mjs:109-110: a proof file that anchor-build anchored, in either      *)
(* mode, is found by anchor-lookup --file.                                 *)
(***************************************************************************)
LookupFindsAnchored ==
  \A digest \in anchored : Posted(LookupDigest(digest.proof))
=============================================================================
