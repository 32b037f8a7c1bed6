----------------------------- MODULE Disclosure -----------------------------
(* What the holder of a note tells others about it: files that say the note *)
(* is there (stub, view package, payment receipt), files that prove it      *)
(* (ownership, value bound), and files that hand over its secrets (reveal,  *)
(* incoming note), in the clear or sealed.  A file is a record; a hash, a   *)
(* seal or a proof is a term that only its inputs produce.  `of` names the  *)
(* note, or the party, whose secret the file contains.  A passphrase is one *)
(* the holder chose; he tells it to whom he wants.  A tag is made and       *)
(* checked with the same key, so who can check a package can make one.      *)
EXTENDS Integers, FiniteSets, Functions

CONSTANTS Notes,      \* commitments of the holder
          Worth,      \* the value of each
          Place,      \* its leaf in the pool
          Holder, Others,
          Thresholds,
          VALUE_BOUND_MAX,   \* what the clients accept as a value or threshold
          CircuitBits,       \* width of the value in the circuit
          TypedSignals,   \* what anyone may type into the file of a proof
          Topics      \* kinds of files exported, of which notes, the claims anyone may
                      \* type into them, and how many files there may be

VARIABLES topic,    \* one of Topics; fixed
          leafOf,   \* the leaf in the holder's note store, or -1
          files,    \* the files of each party
          told,     \* who knows the passphrase
          packed    \* <<party, note>>: who made packages with whose view key (history)

disclosureVars == <<topic, leafOf, files, told, packed>>

Parties == {Holder} \cup Others
NoLeaf == -1        \* null in a file, and what is hashed for it
Plain == "plain"
Passphrase == "passphrase"

\* Notes, parties and the two words for a seal are told apart.
NamesApart ==
  /\ Holder \notin Others
  /\ (Notes \union Others) \intersect {"nobody", Plain, Passphrase} = {}
  /\ Notes \intersect Others = {}
  /\ Worth \in [Notes -> Nat] /\ Place \in [Notes -> Nat]
  /\ Thresholds \subseteq Nat /\ CircuitBits \in Nat
  /\ TypedSignals \subseteq [c : Notes, worth : Nat] \cup [c : Notes, threshold : Nat]
  /\ \A t \in Topics :
        t.notes \subseteq Notes /\ t.claims \subseteq [c : Notes, worth : Nat, leaf : Int]

Claim(n) == [c |-> n, worth |-> Worth[n], leaf |-> leafOf[n]]

-----------------------------------------------------------------------------
(* Files.                                                                   *)

\* A hash of the note's two keys, under the view domain.
DeriveViewKey(n) == <<"view", n>>

\* Mutant of ViewTag: the leaf is not hashed.
ViewTagWithoutLeaf(key, claim) == <<"view", key, claim.c, claim.worth, NoLeaf>>

ViewTag(key, claim) == <<"view", key, claim.c, claim.worth, claim.leaf>>
ReceiptTag(key, claim) == <<"receipt", key, claim.c, claim.worth, claim.leaf>>

StubFile(n) == [kind |-> "stub", claim |-> Claim(n), of |-> "nobody", seal |-> Plain]
ViewPackage(claim, tag) ==
    [kind |-> "view", claim |-> claim, of |-> "nobody", seal |-> Plain, tag |-> tag]
ViewFile(n) == ViewPackage(Claim(n), ViewTag(DeriveViewKey(n), Claim(n)))
ReceiptPackage(claim, tag) ==
    [kind |-> "receipt", claim |-> claim, of |-> "nobody", seal |-> Plain, tag |-> tag]
ReceiptFile(n) == ReceiptPackage(Claim(n), ReceiptTag(DeriveViewKey(n), Claim(n)))
ViewKeyFile(n) == [kind |-> "viewkey", key |-> DeriveViewKey(n), of |-> "nobody", seal |-> Plain]
Reveal(n) == [kind |-> "reveal", claim |-> Claim(n), of |-> n, seal |-> Plain]
Incoming(n) == [kind |-> "incoming", claim |-> Claim(n), of |-> n, seal |-> Plain]

SealWithPassphrase(file) == [file EXCEPT !.seal = Passphrase]
SealToRecipient(file, p) == [file EXCEPT !.seal = p]

Keypair(p) == [kind |-> "keypair", of |-> p, seal |-> Plain]

\* Mutant of PaymentAddress: the private key is in it too.
PaymentAddressOfPair(p) == [kind |-> "address", of |-> p, public |-> p, seal |-> Plain]

\* The public key file has the same content.
PaymentAddress(p) == [kind |-> "address", of |-> "nobody", public |-> p, seal |-> Plain]

\* GreaterEqThan(n) of circomlib, by its sum of n + 1 bits.
GreaterEqThan(n, in0, in1) == (in1 + 2^n - (in0 + 1)) \div 2^n = 0

\* A proof exists for public signals that satisfy the circuit, and verifies
\* with these only.  The file has them, and says them again to be printed.
Proof(circuit, signals) == <<circuit, signals>>
ProofFile(circuit, signals) ==
    [kind |-> circuit, of |-> "nobody", seal |-> Plain,
     printed |-> signals, signals |-> signals, proof |-> Proof(circuit, signals)]
OwnershipProof(n) == ProofFile("ownership", [c |-> n, worth |-> Worth[n]])
BoundProof(n, threshold) == ProofFile("bound", [c |-> n, threshold |-> threshold])
BoundSatisfied(n, threshold) ==
    /\ Worth[n] < 2^CircuitBits /\ threshold < 2^CircuitBits
    /\ GreaterEqThan(CircuitBits, Worth[n], threshold)

\* The Python client's own files.
PyStub(n) == [kind |-> "stub", claim |-> Claim(n), of |-> "nobody", seal |-> Plain]
PyReveal(n) == [kind |-> "reveal", claim |-> Claim(n), of |-> n, seal |-> Plain]

-----------------------------------------------------------------------------

DisclosureInit ==
    /\ topic \in Topics
    /\ leafOf = [n \in Notes |-> NoLeaf]
    /\ files = [p \in Parties |-> {}]
    /\ told = {}
    /\ packed = {}

Save(p, new) ==
    /\ files' = [files EXCEPT ![p] = @ \cup new]
    /\ Cardinality({pf \in Parties \X UNION Range(files') : pf[2] \in files'[pf[1]]}) <= topic.room
Export(file) ==
    /\ file.kind \in topic.kinds
    /\ Save(Holder, {file})
    /\ UNCHANGED <<topic, leafOf, told, packed>>

\* The store learns where the note is (module CliWallet).
BindNote(n) ==
    /\ leafOf[n] = NoLeaf
    /\ leafOf' = [leafOf EXCEPT ![n] = Place[n]]
    /\ UNCHANGED <<topic, files, told, packed>>

Tell(p) ==
    /\ \E file \in files[Holder] : file.seal = Passphrase
    /\ told' = told \cup {p}
    /\ UNCHANGED <<topic, leafOf, files, packed>>

\* Keys are of use only where something may be sealed to them.
DisclosureKeygen(p) ==
    /\ topic.kinds \cap {"reveal", "incoming"} # {}
    /\ Keypair(p) \notin files[p]
    /\ Save(p, {Keypair(p), PaymentAddress(p)})
    /\ UNCHANGED <<topic, leafOf, told, packed>>

\* What --to-pubkey may name: any file with a public key will do.
PublicKeyIn(file) ==
    CASE file.kind = "address" -> {file.public}
      [] file.kind = "keypair" -> {file.of}
      [] OTHER -> {}
RecipientKeys(p) == UNION {PublicKeyIn(f) : f \in files[p]}
\* What --recipient-key may name.
PrivateKeys(p) == {f.of : f \in files[p]}

\* An address written again from any file with the key.
NotePaymentAddress(p) ==
    \E key \in RecipientKeys(p) :
        Save(p, {PaymentAddress(key)}) /\ UNCHANGED <<topic, leafOf, told, packed>>

NoteViewKey(n) == Export(ViewKeyFile(n))
ExportStub(n) == Export(StubFile(n))
ExportView(n) == Export(ViewFile(n))
ExportReceipt(n) == Export(ReceiptFile(n))
\* With a passphrase or for a recipient, not both; with neither, in the clear.
ExportReveal(n) ==
    \/ Export(Reveal(n))
    \/ Export(SealWithPassphrase(Reveal(n)))
    \/ \E p \in RecipientKeys(Holder) : Export(SealToRecipient(Reveal(n), p))
\* An incoming note is always sealed to a recipient.
NoteDeliver(n) == \E p \in RecipientKeys(Holder) : Export(SealToRecipient(Incoming(n), p))
ProveOwnership(n) == Export(OwnershipProof(n))
ProveValueBound(n, threshold) ==
    /\ Worth[n] <= VALUE_BOUND_MAX /\ threshold <= VALUE_BOUND_MAX
    /\ Worth[n] >= threshold
    /\ BoundSatisfied(n, threshold)
    /\ Export(BoundProof(n, threshold))

\* The Python client writes stubs and plain reveals itself and hands the other
\* kinds, with the seal it was given, to the Node client.
PyDisclosureExport(n) ==
    \/ Export(PyStub(n)) \/ Export(PyReveal(n))
    \/ ExportView(n) \/ ExportReceipt(n)
    \/ ExportReveal(n)
PyDisclosureProve(n) ==
    ProveOwnership(n) \/ \E threshold \in Thresholds : ProveValueBound(n, threshold)

-----------------------------------------------------------------------------
(* Files on their way.                                                      *)

Secret(file) == file.kind = "keypair" \/ (file.of \in Notes /\ file.seal = Plain)

\* Anything may be passed on, but secrets in the clear only by the holder, who
\* means it, and private keys by nobody.
Give(p, file, q) ==
    /\ file.kind # "keypair"
    /\ Secret(file) => p = Holder
    /\ Save(q, {file})
    /\ UNCHANGED <<topic, leafOf, told, packed>>

\* A file in the clear is changed: its claim, the name of its kind, or what a
\* proof file says and what it has its proof verified with.
Replace(p, file, new) == files' = [files EXCEPT ![p] = (@ \ {file}) \cup {new}]
Retype(p, file) ==
    /\ file.seal = Plain
    /\ \/ /\ "claim" \in DOMAIN file
          /\ \E claim \in topic.claims : Replace(p, file, [file EXCEPT !.claim = claim])
       \/ /\ "tag" \in DOMAIN file
          /\ \E kind \in {"view", "receipt"} : Replace(p, file, [file EXCEPT !.kind = kind])
       \/ /\ "proof" \in DOMAIN file
          /\ \E says \in TypedSignals :
                \/ Replace(p, file, [file EXCEPT !.printed = says])
                \/ Replace(p, file, [file EXCEPT !.signals = says])
    /\ UNCHANGED <<topic, leafOf, told, packed>>

\* A party that has the view key of a note makes a package of its own, over
\* any claim.
Pack(p, n) ==
    /\ ViewKeyFile(n) \in files[p]
    /\ \E claim \in topic.claims :
          \/ Save(p, {ViewPackage(claim, ViewTag(DeriveViewKey(n), claim))})
          \/ Save(p, {ReceiptPackage(claim, ReceiptTag(DeriveViewKey(n), claim))})
    /\ packed' = packed \cup {<<p, n>>}
    /\ UNCHANGED <<topic, leafOf, told>>

-----------------------------------------------------------------------------
(* Reading.                                                                 *)

UnsealWithPassphrase(p, file) == file.seal = Passphrase /\ p \in told \cup {Holder}
\* The private key must belong to the public key the seal names.
UnsealWithRecipient(p, file) == file.seal \in Others /\ file.seal \in PrivateKeys(p)
Unseals(p, file) ==
    file.seal = Plain \/ UnsealWithPassphrase(p, file) \/ UnsealWithRecipient(p, file)
Reads(p, n) == \E f \in files[p] : f.of = n /\ Unseals(p, f)

\* Who reads the secrets of a note has its view key as well.
DeriveKey(p, n) ==
    /\ "viewkey" \in topic.kinds
    /\ Reads(p, n)
    /\ Save(p, {ViewKeyFile(n)})
    /\ UNCHANGED <<topic, leafOf, told, packed>>

DisclosureOpen(p, file) ==
    /\ file.kind = "reveal"
    /\ UnsealWithRecipient(p, file) \/ UnsealWithPassphrase(p, file)
    /\ Save(p, {[file EXCEPT !.seal = Plain]})
    /\ UNCHANGED <<topic, leafOf, told, packed>>

PyDisclosureOpen(p, file) == DisclosureOpen(p, file)

\* The commitment recomputed from the secrets and the claimed value.
VerifyOwnershipDisclosure(file) == file.of = file.claim.c /\ file.claim.worth = Worth[file.of]

DisclosureVerify(p, file) ==
    file.kind = "reveal" /\ Unseals(p, file) /\ VerifyOwnershipDisclosure(file)

PyVerifyOwnershipDisclosure(file) == file.of = file.claim.c /\ file.claim.worth = Worth[file.of]
\* The Python client checks a file in the clear itself, a sealed one it hands on.
PyDisclosureVerify(p, file) ==
    /\ file.kind = "reveal"
    /\ IF file.seal = Plain THEN PyVerifyOwnershipDisclosure(file) ELSE DisclosureVerify(p, file)

\* Accepting an incoming note checks it like a reveal.
OpenIncoming(p, file) ==
    file.kind = "incoming" /\ UnsealWithRecipient(p, file) /\ VerifyOwnershipDisclosure(file)

VerifyView(file, key) ==
    /\ file.kind = "view" /\ key.kind = "viewkey"
    /\ file.tag = ViewTag(key.key, file.claim)

VerifyPaymentReceipt(file, key) ==
    /\ file.kind = "receipt" /\ key.kind = "viewkey"
    /\ file.tag = ReceiptTag(key.key, file.claim)

\* A proof is verified with the signals in its file and the circuit's own key;
\* what the file names itself is not looked at.
VerifyOwnership(file) ==
    "proof" \in DOMAIN file /\ file.proof = Proof("ownership", file.signals)
VerifyValueBound(file) ==
    "proof" \in DOMAIN file /\ file.proof = Proof("bound", file.signals)

\* The commands that verify write no file: they print what the file says, beside
\* what they verified it with.
ReportedOfReveal(kind, file) == [kind |-> kind, says |-> file.claim]
ReportedOfTag(kind, file, key) == [kind |-> kind, says |-> file.claim, key |-> key.key]
ReportedOfProof(kind, file) == [kind |-> kind, says |-> file.printed, signals |-> file.signals]

Reported(p) ==
    {ReportedOfReveal("reveal", f) : f \in {g \in files[p] :
        DisclosureVerify(p, g) \/ PyDisclosureVerify(p, g)}}
    \cup {ReportedOfReveal("incoming", f) : f \in {g \in files[p] : OpenIncoming(p, g)}}
    \cup {ReportedOfTag("view", fk[1], fk[2]) :
            fk \in {x \in files[p] \X files[p] : VerifyView(x[1], x[2])}}
    \cup {ReportedOfTag("receipt", fk[1], fk[2]) :
            fk \in {x \in files[p] \X files[p] : VerifyPaymentReceipt(x[1], x[2])}}
    \cup {ReportedOfProof("ownership", f) : f \in {g \in files[p] : VerifyOwnership(g)}}
    \cup {ReportedOfProof("bound", f) : f \in {g \in files[p] : VerifyValueBound(g)}}

-----------------------------------------------------------------------------
(* Steps.                                                                   *)

HolderStep ==
    \E n \in topic.notes :
        \/ BindNote(n)
        \/ NoteViewKey(n) \/ ExportStub(n) \/ ExportView(n) \/ ExportReceipt(n)
        \/ ExportReveal(n) \/ NoteDeliver(n)
        \/ PyDisclosureExport(n) \/ PyDisclosureProve(n)
        \/ ProveOwnership(n)
        \/ \E threshold \in Thresholds : ProveValueBound(n, threshold)

PartyStep(p) ==
    \/ DisclosureKeygen(p) \/ NotePaymentAddress(p) \/ Tell(p)
    \/ \E n \in topic.notes : DeriveKey(p, n) \/ Pack(p, n)
    \/ \E file \in files[p] :
          \/ DisclosureOpen(p, file) \/ PyDisclosureOpen(p, file)
          \/ Retype(p, file)

Pass == \E p \in Parties : \E file \in files[p], q \in Parties \ {p} : Give(p, file, q)

DisclosureNext == HolderStep \/ (\E p \in Others : PartyStep(p)) \/ Pass
DisclosureSpec == DisclosureInit /\ [][DisclosureNext]_disclosureVars

-----------------------------------------------------------------------------
(* Whoever can read the secrets of a note was given them by the holder: in  *)
(* the clear, under a passphrase he was told, or sealed to his key.  No     *)
(* other file, passed on to anyone and combined with any other, lets        *)
(* anybody spend.                                                           *)
MeantFor(f, p) == f.seal \in {Plain, p} \/ (f.seal = Passphrase /\ p \in told)
SecretsReachOnlyRecipients ==
    \A p \in Others, n \in Notes :
        Reads(p, n) => \E f \in files[Holder] : f.of = n /\ MeantFor(f, p)

(* Whose word a report is.  A view package or receipt that verifies with    *)
(* the view key of a note is true of that note, and in a file of that kind  *)
(* of the holder, as long as nobody else who has that key makes packages    *)
(* with it: the claim of another note, leaf or value, the tag of the other  *)
(* kind or the key of another note pass for nothing.  A revealed or         *)
(* delivered note has the value its file says.  A proof that verifies says  *)
(* with its signals what is true of the note, whatever is printed beside.   *)
Holds(claim) == claim.worth = Worth[claim.c] /\ claim.leaf \in {NoLeaf, leafOf[claim.c]}
Said(r) ==
    /\ Holds(r.says) /\ r.key = DeriveViewKey(r.says.c)
    /\ \E f \in files[Holder] : f.kind = r.kind /\ f.claim = r.says
PackedWith(key) ==
    \E by \in packed : key = DeriveViewKey(by[2]) /\ ViewKeyFile(by[2]) \in files[by[1]]
VerifiedIsStated ==
    \A r \in UNION {Reported(p) : p \in Others} :
        CASE r.kind \in {"view", "receipt"} -> Said(r) \/ PackedWith(r.key)
          [] r.kind \in {"reveal", "incoming"} -> r.says.worth = Worth[r.says.c]
          [] r.kind = "ownership" -> r.signals.worth = Worth[r.signals.c]
          [] r.kind = "bound" -> Worth[r.signals.c] >= r.signals.threshold
=============================================================================
