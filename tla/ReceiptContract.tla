---------------------------- MODULE ReceiptContract ----------------------------
(***************************************************************************)
(* The receipts of contract.py and the stored rows that hold them.         *)
(*                                                                         *)
(* AuthorityIssuer takes a committed row for the values it encodes.  This  *)
(* module takes it apart: a row is seven columns, two of them documents    *)
(* that repeat and digest the other's content, and every reader            *)
(* (get_committed, an exact retry, the scan before an Ink issuance, the    *)
(* production inspector) validates it before it uses it.  Between two      *)
(* reads a column may come to hold something else: nothing, the value of   *)
(* another row, or a document in which one field is another receipt's.     *)
(* The question is what a row that still validates can be.                 *)
(*                                                                         *)
(* One issuer, whose calls are atomic (AuthorityIssuer shows why they are). *)
(* SHA-256 has no collisions here, and a signature is made by its key for  *)
(* its message only.                                                       *)
(***************************************************************************)
EXTENDS IssuancePolicy, Sequences

CONSTANTS
  RequestId,   \* request ids callers may use
  Requests,    \* the contents they may ask for
  Issuer,      \* its policy, bound identity, public key and authority epoch
  Junk,        \* bytes that decode to nothing
  MaxRows,     \* bound: rows committed
  MaxDamage    \* bound: columns that come to hold something else

ASSUME ReceiptAssumption ==
  /\ Requests \subseteq Request
  /\ Issuer.policy \in IssuerPolicy /\ Issuer.identity \in Identity
  /\ Issuer.epoch \in Nat \ {0}
  /\ MaxRows \in Nat /\ MaxDamage \in Nat
  /\ Junk \notin RequestId

-----------------------------------------------------------------------------
(* AuthorityGrantReceiptV0                                                 *)

\* digest_object, sha256_hex.
Digest(x) == [sha256 |-> x]

\* Ed25519Signer.sign.
Sign(key, message) == [signedBy |-> key, message |-> message]

\* The AuthorityPolicyRefV0 of a request.
PolicyOf(r) == [scope |-> r.scope, notBefore |-> r.notBefore, notAfter |-> r.notAfter]

GrantId(a) ==
  Digest([epoch |-> a.epoch, policyDigest |-> Digest(a.policy),
          root |-> a.root, serial |-> a.serial])

\* signed_body_object.
SignedBody(a) ==
  [root |-> a.root, fingerprint |-> a.fingerprint, epoch |-> a.epoch,
   serial |-> a.serial, issuedAt |-> a.issuedAt, policy |-> a.policy,
   policyDigest |-> Digest(a.policy), grantId |-> GrantId(a)]

ReceiptId(a) ==
  Digest([grantId |-> GrantId(a), fingerprint |-> a.fingerprint, root |-> a.root,
          signatureDigest |-> Digest(a.signature),
          bodyDigest |-> Digest(SignedBody(a))])

\* to_object, and serialized: its canonical bytes.
Document(a) ==
  [root |-> a.root, fingerprint |-> a.fingerprint, epoch |-> a.epoch,
   serial |-> a.serial, issuedAt |-> a.issuedAt, policy |-> a.policy,
   policyDigest |-> Digest(a.policy), grantId |-> GrantId(a),
   signature |-> a.signature, receiptId |-> ReceiptId(a)]

Field == {"root", "fingerprint", "epoch", "serial", "issuedAt", "policy",
          "policyDigest", "grantId", "signature", "receiptId"}

\* What from_bytes takes from a document; the other fields it recomputes.
ReceiptOf(doc) ==
  [root |-> doc.root, fingerprint |-> doc.fingerprint, epoch |-> doc.epoch,
   serial |-> doc.serial, issuedAt |-> doc.issuedAt, policy |-> doc.policy,
   signature |-> doc.signature]

\* from_bytes returns: a receipt of its own root whose policy digest, grant id
\* and receipt id are those the document names.
IsReceipt(doc) ==
  /\ doc # Junk
  /\ doc.policy.scope.root = doc.root
  /\ doc = Document(ReceiptOf(doc))

\* verify_receipt_signature.
VerifiesWith(key, a) ==
  /\ a.fingerprint = key
  /\ a.signature = Sign(key, SignedBody(a))

-----------------------------------------------------------------------------
(* Rows                                                                    *)

\* Mutant: the body is signed before the serial is known.
SignedBeforeSerial(r, serial) ==
  LET unsigned == [root |-> Issuer.policy.root, fingerprint |-> Issuer.key,
                   epoch |-> Issuer.epoch, serial |-> 0,
                   issuedAt |-> r.issuedAt, policy |-> PolicyOf(r)]
  IN  [root |-> unsigned.root, fingerprint |-> unsigned.fingerprint,
       epoch |-> unsigned.epoch, serial |-> serial, issuedAt |-> r.issuedAt,
       policy |-> unsigned.policy,
       signature |-> Sign(Issuer.key, SignedBody(unsigned))]

\* The receipt issue() signs.
Signed(r, serial) ==
  LET unsigned == [root |-> Issuer.policy.root, fingerprint |-> Issuer.key,
                   epoch |-> Issuer.epoch, serial |-> serial,
                   issuedAt |-> r.issuedAt, policy |-> PolicyOf(r)]
  IN  [root |-> unsigned.root, fingerprint |-> unsigned.fingerprint,
       epoch |-> unsigned.epoch, serial |-> serial, issuedAt |-> r.issuedAt,
       policy |-> unsigned.policy,
       signature |-> Sign(Issuer.key, SignedBody(unsigned))]

\* _request_record_bytes.
RequestRecord(rid, r) == [rid |-> rid, request |-> r]

\* The row issue() inserts, a column for each of the table's.
RowOf(rid, r, serial) ==
  [rid |-> rid, digest |-> Digest(RequestRecord(rid, r)),
   record |-> RequestRecord(rid, r), epoch |-> Issuer.epoch, serial |-> serial,
   receiptId |-> ReceiptId(Signed(r, serial)),
   receipt |-> Document(Signed(r, serial))]

\* What decodes to nothing is not what issue() encodes.
ASSUME JunkAssumption ==
  \A rid \in RequestId, r \in Requests, n \in 1..MaxRows :
    Junk \notin {RequestRecord(rid, r), Document(Signed(r, n))}

\* PRIMARY KEY and UNIQUE.
UniqueColumn == {"rid", "serial", "receiptId"}
Column == UniqueColumn \cup {"digest", "record", "epoch", "receipt"}

VARIABLES
  rows,       \* the rows of table issuances, in the order of their insertion
  committed,  \* history: the same rows as they were committed
  damaged     \* how often a column came to hold something else

vars == <<rows, committed, damaged>>

Receipts == {rows[k].receipt : k \in DOMAIN rows}
CommittedReceipts == {committed[k].receipt : k \in DOMAIN committed}

-----------------------------------------------------------------------------
(* Reading                                                                 *)

\* Mutant: a receipt is not compared with the columns of its row.
ReadsUnbound(row) ==
  /\ IsReceipt(row.receipt)
  /\ VerifiesWith(Issuer.key, ReceiptOf(row.receipt))

\* What every reader asks of the receipt in a row.
Reads(row) ==
  /\ IsReceipt(row.receipt)
  /\ VerifiesWith(Issuer.key, ReceiptOf(row.receipt))
  /\ row.receipt.epoch = row.epoch
  /\ row.receipt.serial = row.serial
  /\ row.receipt.receiptId = row.receiptId

\* Mutant: the request record is not compared with the receipt.
ValidatesUnbound(row, rid) ==
  /\ row.record # Junk
  /\ row.record.rid = rid
  /\ row.digest = Digest(row.record)
  /\ Reads(row)

\* Mutant: the request record may be another request id's.
ValidatesForeign(row, rid) ==
  /\ row.record # Junk
  /\ row.digest = Digest(row.record)
  /\ Reads(row)
  /\ row.receipt.root = Issuer.policy.root
  /\ PolicyOf(row.record.request) = row.receipt.policy
  /\ row.record.request.issuedAt = row.receipt.issuedAt
  /\ Admissible(Issuer.policy, Issuer.identity, row.record.request)

\* _validate_committed_receipt, without a historical validator.
ValidatesFor(row, rid) ==
  /\ row.record # Junk
  /\ row.record.rid = rid
  /\ row.digest = Digest(row.record)
  /\ Reads(row)
  /\ row.receipt.root = Issuer.policy.root
  /\ PolicyOf(row.record.request) = row.receipt.policy
  /\ row.record.request.issuedAt = row.receipt.issuedAt
  /\ Admissible(Issuer.policy, Issuer.identity, row.record.request)

\* get_committed(rid), and issue() asked for rid again, return the receipt in
\* this row.
Returns(rid, row) == row.rid = rid /\ ValidatesFor(row, rid)

\* The production inspector, and the history inspections of the lanes, get
\* past every row.
InspectionPasses == \A k \in DOMAIN rows : Reads(rows[k])

-----------------------------------------------------------------------------
TypeOK ==
  /\ Len(rows) = Len(committed) /\ Len(rows) <= MaxRows
  /\ damaged \in 0..MaxDamage
  /\ \A k \in DOMAIN rows : DOMAIN rows[k] = Column /\ rows[k].serial \in Nat
  /\ \A k \in DOMAIN committed :
       \E rid \in RequestId, r \in Requests, n \in 1..MaxRows :
         committed[k] = RowOf(rid, r, n)
  /\ \A c \in UniqueColumn, j, k \in DOMAIN rows :
       j # k => rows[j][c] # rows[k][c]

Init ==
  /\ rows = <<>>
  /\ committed = <<>>
  /\ damaged = 0

\* Mutant: rows that do not validate are passed over.
SkipsUnreadable(r) ==
  IsInk(r) => \A k \in DOMAIN rows :
    ValidatesFor(rows[k], rows[k].rid) => ~Overlap(rows[k].receipt.policy, r)

\* The scan of the prior rows before an Ink grant.
ScanPasses(r) ==
  IsInk(r) => \A k \in DOMAIN rows :
    /\ ValidatesFor(rows[k], rows[k].rid)
    /\ IsInk(rows[k].record.request) => ~Overlap(rows[k].receipt.policy, r)

\* Mutant: COALESCE(MAX(serial), 0), without the increment.
MaxSerial == Max({0} \cup {rows[k].serial : k \in DOMAIN rows})

\* SELECT COALESCE(MAX(serial), 0) + 1.
NextSerial == Max({0} \cup {rows[k].serial : k \in DOMAIN rows}) + 1

\* issue() finds no row of the request id and commits a new one.
Commit(rid, r) ==
  LET row == RowOf(rid, r, NextSerial)
  IN  /\ Len(rows) < MaxRows
      /\ Admissible(Issuer.policy, Issuer.identity, r)
      /\ \A k \in DOMAIN rows : rows[k].rid # rid
      /\ ScanPasses(r)
      /\ \A k \in DOMAIN rows : rows[k].receiptId # row.receiptId
      /\ rows' = Append(rows, row)
      /\ committed' = Append(committed, row)
      /\ UNCHANGED damaged

-----------------------------------------------------------------------------
(* Damage                                                                  *)

Damage(k, column, value) ==
  /\ damaged < MaxDamage
  /\ rows[k][column] # value
  /\ rows' = [rows EXCEPT ![k][column] = value]
  /\ damaged' = damaged + 1
  /\ UNCHANGED committed

\* A column is lost; a lost serial is a number that was never given.
Lose(k, column) ==
  LET lost == IF column = "serial" THEN 0 ELSE Junk
  IN  /\ column \in UniqueColumn =>
           \A j \in DOMAIN rows : rows[j][column] # lost
      /\ Damage(k, column, lost)

\* A column holds what another row holds there.
Copy(j, k, column) ==
  /\ column \notin UniqueColumn
  /\ Damage(k, column, rows[j][column])

\* Two rows hold each other's value of a unique column.
Exchange(j, k, column) ==
  /\ column \in UniqueColumn
  /\ j < k
  /\ damaged < MaxDamage
  /\ rows' = [rows EXCEPT ![j][column] = rows[k][column],
                          ![k][column] = rows[j][column]]
  /\ damaged' = damaged + 1
  /\ UNCHANGED committed

\* One field of a receipt is that of the receipt in another row.
Splice(j, k, field) ==
  /\ rows[j].receipt # Junk /\ rows[k].receipt # Junk
  /\ Damage(k, "receipt",
            [rows[k].receipt EXCEPT ![field] = rows[j].receipt[field]])

-----------------------------------------------------------------------------
Next ==
  \/ \E rid \in RequestId, r \in Requests : Commit(rid, r)
  \/ \E j, k \in DOMAIN rows :
       \/ \E column \in Column :
            Lose(k, column) \/ Copy(j, k, column) \/ Exchange(j, k, column)
       \/ \E field \in Field : Splice(j, k, field)

Spec == Init /\ [][Next]_vars

-----------------------------------------------------------------------------
(* Correctness                                                             *)

\* Whatever was damaged, a caller who is handed a receipt for a request id is
\* handed one that was committed, for the very request that was committed
\* under that id.
ReadsAreGenuine ==
  \A k \in DOMAIN rows, rid \in RequestId : Returns(rid, rows[k]) =>
    \E i, j \in DOMAIN committed :
      /\ committed[i].rid = rid
      /\ committed[j].record.request = committed[i].record.request
      /\ committed[j].receipt = rows[k].receipt

\* An Ink request is granted once, so it is the receipt of that id.
InkReadsAreExact ==
  \A k \in DOMAIN rows, rid \in RequestId :
    (Returns(rid, rows[k]) /\ IsInk(rows[k].record.request)) =>
      \E i \in DOMAIN committed :
        committed[i].rid = rid /\ committed[i].receipt = rows[k].receipt

\* In a ledger that grants one request under two ids, the receipts of the two
\* are told apart by three columns: it takes three damages to confuse them.
ReadsAreExact ==
  \A k \in DOMAIN rows, rid \in RequestId :
    (Returns(rid, rows[k]) /\ damaged < 3) =>
      \E i \in DOMAIN committed :
        committed[i].rid = rid /\ committed[i].receipt = rows[k].receipt

\* A row that is as it was committed is handed out, whatever befell the others:
\* no validation refuses what issue() itself encoded, signed and digested.
IntactRowsAreReturned ==
  \A k \in DOMAIN rows :
    rows[k] = committed[k] => Returns(committed[k].rid, rows[k])

\* An inspection that gets past every row has seen every committed receipt,
\* and nothing else: neither a lost nor a doubled grant goes unnoticed.
InspectionIsExact == InspectionPasses => Receipts = CommittedReceipts

\* No Ink grant is added to a history of which anything is lost or unreadable.
InkGrowsOnGenuineHistory ==
  [][(Len(rows') > Len(rows) /\ IsInk(rows'[Len(rows')].record.request))
     => Receipts = CommittedReceipts]_vars
=============================================================================
