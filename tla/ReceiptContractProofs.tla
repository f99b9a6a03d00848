------------------------ MODULE ReceiptContractProofs ------------------------
(***************************************************************************)
(* What a row that still validates can be, for any number of rows and of   *)
(* damages.                                                                *)
(*                                                                         *)
(* Damage moves signatures and request records about, but makes none: each *)
(* that is found in a row is one of a committed row.  A receipt that       *)
(* verifies is the document its signature was made for, so it is committed *)
(* too; and since receipt ids are unique, rows that all verify cannot hold *)
(* one committed receipt twice, and hold every one of them.                *)
(***************************************************************************)
EXTENDS ReceiptContract, IssuancePolicyProofs, WellFoundedInduction

-----------------------------------------------------------------------------
(* The inductive invariant                                                 *)

Bounds ==
  /\ \E S : rows \in Seq(S)
  /\ \E S : committed \in Seq(S)
  /\ Len(rows) = Len(committed) /\ Len(rows) <= MaxRows
  /\ damaged \in 0..MaxDamage

\* Serials never run ahead of the number of rows, so that one more than the
\* largest stays within the bound.
Columns ==
  \A k \in DOMAIN rows :
    DOMAIN rows[k] = Column /\ rows[k].serial \in 0..Len(rows)

Origins ==
  \A k \in DOMAIN committed :
    \E rid \in RequestId, r \in Requests, n \in 1..Len(committed) :
      /\ committed[k] = RowOf(rid, r, n)
      /\ Admissible(Issuer.policy, Issuer.identity, r)

\* A row holds a committed request record, if it holds one.
RecordsAreCommitted ==
  \A k \in DOMAIN rows : rows[k].record # Junk =>
    \E i \in DOMAIN committed : rows[k].record = committed[i].record

\* A row holds a document that carries a committed signature, if it holds one.
SignaturesAreCommitted ==
  \A k \in DOMAIN rows : rows[k].receipt # Junk =>
    /\ DOMAIN rows[k].receipt = Field
    /\ \E i \in DOMAIN committed :
         rows[k].receipt.signature = committed[i].receipt.signature

Unique ==
  \A c \in UniqueColumn, j, k \in DOMAIN rows : j # k => rows[j][c] # rows[k][c]

IInv ==
  /\ Bounds
  /\ Columns
  /\ Origins
  /\ RecordsAreCommitted
  /\ SignaturesAreCommitted
  /\ Unique

-----------------------------------------------------------------------------
(* Receipts                                                                *)

\* The signed body names everything a receipt says.
LEMMA SignedBodyDeterminesReceipt ==
  ASSUME NEW a, NEW b, SignedBody(a) = SignedBody(b)
  PROVE  /\ a.root = b.root /\ a.fingerprint = b.fingerprint
         /\ a.epoch = b.epoch /\ a.serial = b.serial
         /\ a.issuedAt = b.issuedAt /\ a.policy = b.policy
BY DEF SignedBody

\* Receipts that say the same have the same body, and with the same signature
\* the same document.
LEMMA SameReceiptSameDocument ==
  ASSUME NEW a, NEW b,
         a.root = b.root, a.fingerprint = b.fingerprint,
         a.epoch = b.epoch, a.serial = b.serial,
         a.issuedAt = b.issuedAt, a.policy = b.policy
  PROVE  /\ SignedBody(a) = SignedBody(b)
         /\ a.signature = b.signature => Document(a) = Document(b)
<1>1. GrantId(a) = GrantId(b)
  BY DEF GrantId
<1>2. SignedBody(a) = SignedBody(b)
  BY <1>1 DEF SignedBody
<1>3. ASSUME a.signature = b.signature
      PROVE  Document(a) = Document(b)
  <2>1. ReceiptId(a) = ReceiptId(b)
    BY <1>1, <1>2, <1>3 DEF ReceiptId
  <2> QED
    BY <1>1, <1>3, <2>1 DEF Document
<1> QED
  BY <1>2, <1>3

\* The issuer signs the body of the receipt it returns.
LEMMA SignedIsSigned ==
  ASSUME NEW r, NEW n
  PROVE  Signed(r, n).signature = Sign(Issuer.key, SignedBody(Signed(r, n)))
<1> DEFINE unsigned == [root |-> Issuer.policy.root, fingerprint |-> Issuer.key,
                   epoch |-> Issuer.epoch, serial |-> n,
                   issuedAt |-> r.issuedAt, policy |-> PolicyOf(r)]
<1>1. Signed(r, n).signature = Sign(Issuer.key, SignedBody(unsigned))
  BY DEF Signed
<1>2. SignedBody(unsigned) = SignedBody(Signed(r, n))
  BY SameReceiptSameDocument DEF Signed
<1> QED
  BY <1>1, <1>2

\* A document that verifies and carries the signature of an issued receipt is
\* that receipt's document.
LEMMA SignatureDeterminesDocument ==
  ASSUME NEW doc, NEW r, NEW n,
         doc = Document(ReceiptOf(doc)),
         VerifiesWith(Issuer.key, ReceiptOf(doc)),
         doc.signature = Signed(r, n).signature
  PROVE  doc = Document(Signed(r, n))
<1> DEFINE a == ReceiptOf(doc)
           b == Signed(r, n)
<1>1. a.signature = Sign(Issuer.key, SignedBody(a))
  BY DEF VerifiesWith
<1>2. a.signature = doc.signature
  BY DEF ReceiptOf
<1>3. b.signature = Sign(Issuer.key, SignedBody(b))
  BY SignedIsSigned
<1>4. SignedBody(a) = SignedBody(b)
  <2>1. a.signature = b.signature
    BY <1>2
  <2> HIDE DEF a, b
  <2>2. Sign(Issuer.key, SignedBody(a)) = Sign(Issuer.key, SignedBody(b))
    BY <1>1, <1>3, <2>1
  <2> QED
    BY <2>2 DEF Sign
<1>5. /\ a.root = b.root /\ a.fingerprint = b.fingerprint
      /\ a.epoch = b.epoch /\ a.serial = b.serial
      /\ a.issuedAt = b.issuedAt /\ a.policy = b.policy
  <2> HIDE DEF a, b
  <2> QED
    BY <1>4, SignedBodyDeterminesReceipt
<1>6. Document(a) = Document(b)
  <2>1. a.signature = b.signature
    BY <1>2
  <2> HIDE DEF a, b
  <2> QED
    BY <1>5, <2>1, SameReceiptSameDocument
<1> QED
  BY <1>6

\* What a row that verifies holds is a committed receipt, under its own id.
LEMMA ReadIsCommitted ==
  ASSUME IInv, NEW k \in DOMAIN rows, Reads(rows[k])
  PROVE  \E j \in DOMAIN committed :
           /\ rows[k].receipt = committed[j].receipt
           /\ rows[k].receiptId = committed[j].receiptId
<1> DEFINE doc == rows[k].receipt
<1>1. /\ doc # Junk /\ doc = Document(ReceiptOf(doc))
      /\ VerifiesWith(Issuer.key, ReceiptOf(doc))
      /\ doc.receiptId = rows[k].receiptId
  BY DEF Reads, IsReceipt
<1>2. PICK j \in DOMAIN committed : doc.signature = committed[j].receipt.signature
  BY <1>1 DEF IInv, SignaturesAreCommitted
<1>3. PICK rid \in RequestId, r \in Requests, n \in 1..Len(committed) :
        committed[j] = RowOf(rid, r, n)
  BY DEF IInv, Origins
<1>4. /\ committed[j].receipt = Document(Signed(r, n))
      /\ committed[j].receiptId = ReceiptId(Signed(r, n))
  BY <1>3 DEF RowOf
<1>5. doc.signature = Signed(r, n).signature
  BY <1>2, <1>4 DEF Document
<1>6. doc = Document(Signed(r, n))
  <2> HIDE DEF doc
  <2> QED
    BY <1>1, <1>5, SignatureDeterminesDocument
<1>7. Document(Signed(r, n)).receiptId = ReceiptId(Signed(r, n))
  BY DEF Document
<1> QED
  BY <1>1, <1>4, <1>6, <1>7

-----------------------------------------------------------------------------
(* What the invariant says of the readers                                  *)

\* A row that validates joins a committed record to a committed receipt, and
\* the two agree on the whole request.
LEMMA GenuineReads ==
  ASSUME IInv, ReceiptAssumption
  PROVE  ReadsAreGenuine
<1> SUFFICES ASSUME NEW k \in DOMAIN rows, NEW rid \in RequestId,
                    Returns(rid, rows[k])
             PROVE  \E i, j \in DOMAIN committed :
                      /\ committed[i].rid = rid
                      /\ committed[j].record.request = committed[i].record.request
                      /\ committed[j].receipt = rows[k].receipt
  BY DEF ReadsAreGenuine
<1> DEFINE record == rows[k].record
<1>1. /\ record # Junk /\ record.rid = rid
      /\ Reads(rows[k])
      /\ PolicyOf(record.request) = rows[k].receipt.policy
      /\ record.request.issuedAt = rows[k].receipt.issuedAt
      /\ Admissible(Issuer.policy, Issuer.identity, record.request)
  BY DEF Returns, ValidatesFor
<1>2. PICK i \in DOMAIN committed : record = committed[i].record
  BY <1>1 DEF IInv, RecordsAreCommitted
<1>3. PICK j \in DOMAIN committed : rows[k].receipt = committed[j].receipt
  BY <1>1, ReadIsCommitted
<1>4. PICK q \in RequestId, r \in Requests, m \in 1..Len(committed) :
        committed[i] = RowOf(q, r, m)
  BY DEF IInv, Origins
<1>5. PICK p \in RequestId, s \in Requests, n \in 1..Len(committed) :
        /\ committed[j] = RowOf(p, s, n)
        /\ Admissible(Issuer.policy, Issuer.identity, s)
  BY DEF IInv, Origins
<1>6. /\ committed[i].rid = q /\ committed[i].record.rid = q
      /\ committed[i].record.request = r
  BY <1>4 DEF RowOf, RequestRecord
<1>7. /\ committed[j].record.request = s
      /\ committed[j].receipt.policy = PolicyOf(s)
      /\ committed[j].receipt.issuedAt = s.issuedAt
  BY <1>5 DEF RowOf, RequestRecord, Document, Signed
<1>8. /\ PolicyOf(r) = PolicyOf(s)
      /\ r.issuedAt = s.issuedAt
  BY <1>1, <1>2, <1>3, <1>6, <1>7
<1>9. r = s
  <2>1. /\ r.repository = Issuer.policy.repository
        /\ s.repository = Issuer.policy.repository
    BY <1>1, <1>2, <1>5, <1>6 DEF Admissible
  <2>2. /\ r.scope = s.scope
        /\ r.notBefore = s.notBefore
        /\ r.notAfter = s.notAfter
    BY <1>8 DEF PolicyOf
  <2>3. /\ r \in [repository : Repository, scope : Scope,
                  notBefore : Nat, notAfter : Nat, issuedAt : Nat]
        /\ s \in [repository : Repository, scope : Scope,
                  notBefore : Nat, notAfter : Nat, issuedAt : Nat]
    BY DEF ReceiptAssumption, Request
  <2> QED
    BY <1>8, <2>1, <2>2, <2>3
<1> QED
  BY <1>1, <1>2, <1>3, <1>6, <1>7, <1>9

\* An inspection that gets past every row has counted as many committed
\* receipts as there are: no two rows hold the same one, so none is missing.
LEMMA ExactInspection ==
  ASSUME IInv
  PROVE  InspectionIsExact
<1> SUFFICES ASSUME InspectionPasses
             PROVE  Receipts = CommittedReceipts
  BY DEF InspectionIsExact
<1> DEFINE n == Len(rows)
           Holds(k, j) == /\ rows[k].receipt = committed[j].receipt
                          /\ rows[k].receiptId = committed[j].receiptId
           f == [k \in 1..n |-> CHOOSE j \in 1..n : Holds(k, j)]
<1>1. /\ n \in Nat
      /\ DOMAIN rows = 1..n /\ DOMAIN committed = 1..n
  BY DEF IInv, Bounds
<1>2. \A k \in 1..n : f[k] \in 1..n /\ Holds(k, f[k])
  <2> TAKE k \in 1..n
  <2>1. \E j \in 1..n : Holds(k, j)
    BY <1>1, ReadIsCommitted DEF InspectionPasses
  <2>2. f[k] = CHOOSE j \in 1..n : Holds(k, j)
    OBVIOUS
  <2> HIDE DEF Holds, f
  <2> QED
    BY <2>1, <2>2, Zenon
<1>3. f \in Injection(1..n, 1..n)
  <2>1. f \in [1..n -> 1..n]
    <3> HIDE DEF Holds
    <3> QED
      BY <1>2
  <2>2. ASSUME NEW j \in 1..n, NEW k \in 1..n, f[j] = f[k]
        PROVE  j = k
    <3>1. rows[j].receiptId = rows[k].receiptId
      <4> HIDE DEF f
      <4> QED
        BY <1>2, <2>2
    <3> QED
      BY <3>1, <1>1 DEF IInv, Unique, UniqueColumn
  <2> HIDE DEF f
  <2> QED
    BY <2>1, <2>2 DEF Injection, IsInjective
<1>4. f \in Surjection(1..n, 1..n)
  <2>1. IsFiniteSet(1..n)
    BY <1>1, FS_Interval
  <2> HIDE DEF f
  <2> QED
    BY <1>3, <2>1, FS_Injection
<1>5. ASSUME NEW k \in 1..n
      PROVE  rows[k].receipt \in CommittedReceipts
  <2> HIDE DEF f
  <2> QED
    BY <1>1, <1>2 DEF CommittedReceipts
<1>6. ASSUME NEW j \in 1..n
      PROVE  committed[j].receipt \in Receipts
  <2>1. \E k \in 1..n : f[k] = j
    <3> HIDE DEF f
    <3> QED
      BY <1>4 DEF Surjection
  <2> HIDE DEF f
  <2> QED
    BY <1>1, <1>2, <2>1 DEF Receipts
<1> QED
  BY <1>1, <1>5, <1>6 DEF Receipts, CommittedReceipts

-----------------------------------------------------------------------------
(* Every step preserves the invariant                                      *)

\* What the bounds say of the two sequences.
LEMMA Lengths ==
  ASSUME Bounds
  PROVE  /\ Len(rows) \in Nat
         /\ DOMAIN rows = 1..Len(rows)
         /\ DOMAIN committed = 1..Len(rows)
BY DEF Bounds

\* A damaged column holds the new value; everything else is as it was.
LEMMA DamagedRow ==
  ASSUME IInv, NEW k \in DOMAIN rows, NEW column \in Column, NEW value,
         Damage(k, column, value)
  PROVE  /\ Bounds'
         /\ DOMAIN rows' = DOMAIN rows /\ Len(rows') = Len(rows)
         /\ committed' = committed
         /\ \A j \in DOMAIN rows :
              /\ DOMAIN rows'[j] = Column
              /\ \A c \in Column :
                   rows'[j][c] = IF j = k /\ c = column THEN value ELSE rows[j][c]
<1>1. /\ rows' = [rows EXCEPT ![k][column] = value]
      /\ committed' = committed
      /\ damaged < MaxDamage /\ damaged' = damaged + 1
  BY DEF Damage
<1>2. PICK S : rows \in Seq(S)
  BY DEF IInv, Bounds
<1>3. /\ rows' \in Seq(S \cup {rows'[k]}) /\ Len(rows') = Len(rows)
      /\ DOMAIN rows' = DOMAIN rows
  BY <1>1, <1>2
<1>4. ASSUME NEW j \in DOMAIN rows
      PROVE  /\ DOMAIN rows'[j] = Column
             /\ \A c \in Column :
                  rows'[j][c] = IF j = k /\ c = column THEN value ELSE rows[j][c]
  <2>1. /\ rows'[j] = IF j = k THEN [rows[k] EXCEPT ![column] = value] ELSE rows[j]
        /\ DOMAIN rows[j] = Column /\ DOMAIN rows[k] = Column
    BY <1>1 DEF IInv, Columns
  <2> QED
    BY <2>1
<1>5. Bounds'
  <2>1. \E T : rows' \in Seq(T)
    BY <1>3
  <2>2. \E T : committed' \in Seq(T)
    BY <1>1 DEF IInv, Bounds
  <2>3. Len(rows') = Len(committed') /\ Len(rows') <= MaxRows
    BY <1>1, <1>3 DEF IInv, Bounds
  <2>4. damaged' \in 0..MaxDamage
    BY <1>1, ReceiptAssumption DEF IInv, Bounds
  <2> QED
    BY <2>1, <2>2, <2>3, <2>4 DEF Bounds
<1> QED
  BY <1>1, <1>3, <1>4, <1>5

\* The parts of the invariant that a damage of one column leaves to be shown:
\* its own column's.
LEMMA DamageKeepsIInv ==
  ASSUME IInv, NEW k \in DOMAIN rows, NEW column \in Column, NEW value,
         Damage(k, column, value),
         column = "serial" => value \in 0..Len(rows),
         column = "record" => value = Junk \/
           \E i \in DOMAIN committed : value = committed[i].record,
         column = "receipt" => value = Junk \/
           /\ DOMAIN value = Field
           /\ \E i \in DOMAIN committed :
                value.signature = committed[i].receipt.signature,
         column \in UniqueColumn => \A j \in DOMAIN rows : rows[j][column] # value
  PROVE  IInv'
<1>1. /\ Bounds'
      /\ DOMAIN rows' = DOMAIN rows /\ Len(rows') = Len(rows)
      /\ committed' = committed
      /\ \A j \in DOMAIN rows :
           /\ DOMAIN rows'[j] = Column
           /\ \A c \in Column :
                rows'[j][c] = IF j = k /\ c = column THEN value ELSE rows[j][c]
  BY DamagedRow
<1>2. {"serial", "record", "receipt"} \cup UniqueColumn \subseteq Column
  BY DEF Column, UniqueColumn
<1>3. Columns'
  <2>1. ASSUME NEW j \in DOMAIN rows
        PROVE  rows'[j]["serial"] \in 0..Len(rows)
    BY <1>1, <1>2 DEF IInv, Columns
  <2> QED
    BY <1>1, <2>1 DEF Columns
<1>4. Origins'
  BY <1>1 DEF IInv, Origins
<1>5. RecordsAreCommitted'
  <2>1. ASSUME NEW j \in DOMAIN rows, rows'[j]["record"] # Junk
        PROVE  \E i \in DOMAIN committed : rows'[j]["record"] = committed[i].record
    BY <1>1, <1>2, <2>1 DEF IInv, RecordsAreCommitted
  <2> QED
    BY <1>1, <2>1 DEF RecordsAreCommitted
<1>6. SignaturesAreCommitted'
  <2>1. ASSUME NEW j \in DOMAIN rows, rows'[j]["receipt"] # Junk
        PROVE  /\ DOMAIN rows'[j]["receipt"] = Field
               /\ \E i \in DOMAIN committed :
                    rows'[j]["receipt"].signature = committed[i].receipt.signature
    <3>1. rows'[j]["receipt"] = IF j = k /\ "receipt" = column
                                  THEN value ELSE rows[j]["receipt"]
      BY <1>1, <1>2
    <3> QED
      BY <2>1, <3>1 DEF IInv, SignaturesAreCommitted
  <2> QED
    BY <1>1, <2>1 DEF SignaturesAreCommitted
<1>7. Unique'
  <2>1. ASSUME NEW c \in UniqueColumn, NEW i \in DOMAIN rows,
               NEW j \in DOMAIN rows, i # j
        PROVE  rows'[i][c] # rows'[j][c]
    BY <1>1, <1>2, <2>1 DEF IInv, Unique
  <2> QED
    BY <1>1, <2>1 DEF Unique
<1> QED
  BY <1>1, <1>3, <1>4, <1>5, <1>6, <1>7 DEF IInv

\* A column that holds nothing claims nothing.
LEMMA LoseKeepsIInv ==
  ASSUME IInv, NEW k \in DOMAIN rows, NEW column \in Column, Lose(k, column)
  PROVE  IInv'
<1> DEFINE lost == IF column = "serial" THEN 0 ELSE Junk
<1>1. /\ Damage(k, column, lost)
      /\ column \in UniqueColumn => \A j \in DOMAIN rows : rows[j][column] # lost
  BY DEF Lose
<1>2. Len(rows) \in Nat
  BY Lengths DEF IInv
<1>3. /\ column = "serial" => lost \in 0..Len(rows)
      /\ column # "serial" => lost = Junk
  BY <1>2
<1> HIDE DEF lost
<1> QED
  BY <1>1, <1>3, DamageKeepsIInv

\* What is copied was genuine where it was.
LEMMA CopyKeepsIInv ==
  ASSUME IInv, NEW j \in DOMAIN rows, NEW k \in DOMAIN rows,
         NEW column \in Column, Copy(j, k, column)
  PROVE  IInv'
<1> DEFINE value == rows[j][column]
<1>1. column \notin UniqueColumn /\ Damage(k, column, value)
  BY DEF Copy
<1>2. column # "serial"
  BY <1>1 DEF UniqueColumn
<1>3. column = "record" => value = Junk \/
        \E i \in DOMAIN committed : value = committed[i].record
  BY DEF IInv, RecordsAreCommitted
<1>4. column = "receipt" => value = Junk \/
        /\ DOMAIN value = Field
        /\ \E i \in DOMAIN committed :
             value.signature = committed[i].receipt.signature
  BY DEF IInv, SignaturesAreCommitted
<1> HIDE DEF value
<1> QED
  BY <1>1, <1>2, <1>3, <1>4, DamageKeepsIInv

\* The signature of a spliced document is that of one of the two.
LEMMA SpliceKeepsIInv ==
  ASSUME IInv, NEW j \in DOMAIN rows, NEW k \in DOMAIN rows,
         NEW field \in Field, Splice(j, k, field)
  PROVE  IInv'
<1> DEFINE value == [rows[k].receipt EXCEPT ![field] = rows[j].receipt[field]]
<1>1. /\ rows[j].receipt # Junk /\ rows[k].receipt # Junk
      /\ Damage(k, "receipt", value)
  BY DEF Splice
<1>2. /\ DOMAIN rows[k].receipt = Field
      /\ \E i \in DOMAIN committed :
           rows[k].receipt.signature = committed[i].receipt.signature
      /\ \E i \in DOMAIN committed :
           rows[j].receipt.signature = committed[i].receipt.signature
  BY <1>1 DEF IInv, SignaturesAreCommitted
<1>3. DOMAIN value = Field
  BY <1>2
<1>4. \/ value.signature = rows[k].receipt.signature
      \/ value.signature = rows[j].receipt.signature
  <2>1. "signature" \in Field
    BY DEF Field
  <2> QED
    BY <1>2, <2>1
<1>5. "receipt" \in Column /\ "receipt" \notin UniqueColumn
  BY DEF Column, UniqueColumn
<1> HIDE DEF value
<1>6. \E i \in DOMAIN committed :
        value.signature = committed[i].receipt.signature
  BY <1>2, <1>4
<1> QED
  BY <1>1, <1>3, <1>5, <1>6, DamageKeepsIInv

\* Two rows exchange their values of a unique column: these stay unique.
LEMMA ExchangeKeepsIInv ==
  ASSUME IInv, NEW j \in DOMAIN rows, NEW k \in DOMAIN rows,
         NEW column \in Column, Exchange(j, k, column)
  PROVE  IInv'
<1>1. /\ column \in UniqueColumn /\ j < k
      /\ damaged < MaxDamage /\ damaged' = damaged + 1
      /\ rows' = [rows EXCEPT ![j][column] = rows[k][column],
                              ![k][column] = rows[j][column]]
      /\ committed' = committed
  BY DEF Exchange
<1>2. PICK S : rows \in Seq(S)
  BY DEF IInv, Bounds
<1>3. j # k
  BY <1>1, Lengths DEF IInv
<1>4. /\ \E T : rows' \in Seq(T)
      /\ Len(rows') = Len(rows) /\ DOMAIN rows' = DOMAIN rows
  <2> DEFINE v == [rows[j] EXCEPT ![column] = rows[k][column]]
             w == [rows[k] EXCEPT ![column] = rows[j][column]]
             once == [rows EXCEPT ![j] = v]
  <2>1. rows' = [once EXCEPT ![k] = w]
    BY <1>1, <1>2, <1>3
  <2> HIDE DEF v, w
  <2>2. once \in Seq(S \cup {v}) /\ Len(once) = Len(rows)
    BY <1>2
  <2> HIDE DEF once
  <2>3. rows' \in Seq((S \cup {v}) \cup {w}) /\ Len(rows') = Len(once)
    BY <2>1, <2>2
  <2>4. DOMAIN rows' = 1..Len(rows')
    BY <2>3
  <2> QED
    BY <2>2, <2>3, <2>4, Lengths DEF IInv
<1>5. ASSUME NEW i \in DOMAIN rows
      PROVE  /\ DOMAIN rows'[i] = Column
             /\ \A c \in Column :
                  rows'[i][c] = CASE i = j /\ c = column -> rows[k][c]
                                  [] i = k /\ c = column -> rows[j][c]
                                  [] OTHER -> rows[i][c]
  <2>1. /\ rows'[i] = CASE i = j -> [rows[j] EXCEPT ![column] = rows[k][column]]
                        [] i = k -> [rows[k] EXCEPT ![column] = rows[j][column]]
                        [] OTHER -> rows[i]
        /\ DOMAIN rows[i] = Column
        /\ DOMAIN rows[j] = Column /\ DOMAIN rows[k] = Column
    BY <1>1, <1>3 DEF IInv, Columns
  <2> QED
    BY <1>3, <2>1
<1>6. Bounds'
  <2>1. \E T : committed' \in Seq(T)
    BY <1>1 DEF IInv, Bounds
  <2>2. Len(rows') = Len(committed') /\ Len(rows') <= MaxRows
    BY <1>1, <1>4 DEF IInv, Bounds
  <2>3. damaged' \in 0..MaxDamage
    BY <1>1, ReceiptAssumption DEF IInv, Bounds
  <2> QED
    BY <1>4, <2>1, <2>2, <2>3 DEF Bounds
<1>7. /\ {"serial", "record", "receipt"} \cup UniqueColumn \subseteq Column
      /\ column # "record" /\ column # "receipt"
  BY <1>1 DEF Column, UniqueColumn
<1>8. Columns'
  <2>1. ASSUME NEW i \in DOMAIN rows
        PROVE  rows'[i]["serial"] \in 0..Len(rows)
    BY <1>5, <1>7 DEF IInv, Columns
  <2> QED
    BY <1>4, <1>5, <2>1 DEF Columns
<1>9. Origins'
  BY <1>1 DEF IInv, Origins
<1>10. ASSUME NEW i \in DOMAIN rows
       PROVE  /\ rows'[i].record = rows[i].record
              /\ rows'[i].receipt = rows[i].receipt
  <2>1. /\ rows'[i]["record"] = rows[i]["record"]
        /\ rows'[i]["receipt"] = rows[i]["receipt"]
    BY <1>5, <1>7
  <2> QED
    BY <2>1
<1>11. committed' = committed /\ DOMAIN rows' = DOMAIN rows
  BY <1>1, <1>4
<1>12. RecordsAreCommitted'
  <2>1. ASSUME NEW i \in DOMAIN rows, rows'[i].record # Junk
        PROVE  \E h \in DOMAIN committed : rows'[i].record = committed[h].record
    BY <1>10, <2>1 DEF IInv, RecordsAreCommitted
  <2> QED
    BY <1>11, <2>1 DEF RecordsAreCommitted
<1>13. SignaturesAreCommitted'
  <2>1. ASSUME NEW i \in DOMAIN rows, rows'[i].receipt # Junk
        PROVE  /\ DOMAIN rows'[i].receipt = Field
               /\ \E h \in DOMAIN committed :
                    rows'[i].receipt.signature = committed[h].receipt.signature
    BY <1>10, <2>1 DEF IInv, SignaturesAreCommitted
  <2> QED
    BY <1>11, <2>1 DEF SignaturesAreCommitted
<1>14. Unique'
  <2>1. ASSUME NEW c \in UniqueColumn, NEW h \in DOMAIN rows,
               NEW i \in DOMAIN rows, h # i
        PROVE  rows'[h][c] # rows'[i][c]
    BY <1>3, <1>5, <1>7, <2>1 DEF IInv, Unique
  <2> QED
    BY <1>4, <2>1 DEF Unique
<1> QED
  BY <1>6, <1>8, <1>9, <1>12, <1>13, <1>14 DEF IInv

\* COALESCE(MAX(serial), 0) of any serials up to n.
LEMMA MaxOfBounded ==
  ASSUME NEW n \in Nat, NEW S, S \subseteq 0..n
  PROVE  /\ Max({0} \cup S) \in 0..n
         /\ \A x \in S : x <= Max({0} \cup S)
<1> DEFINE T == {0} \cup S
           below == {n - x : x \in T}
<1>1. PICK least \in below : \A y \in below : ~(y < least)
  <2> DEFINE less == OpToRel(<, Nat)
  <2>1. below \subseteq Nat /\ below # {}
    OBVIOUS
  <2>2. IsWellFoundedOn(less, Nat)
    BY NatLessThanWellFounded, Zenon
  <2>3. \A x, y \in Nat : x < y => <<x, y>> \in less
    BY DEF OpToRel
  <2> HIDE DEF below, less
  <2>4. PICK least \in below : \A y \in below : <<y, least>> \notin less
    BY <2>1, <2>2, WFMin, Zenon
  <2> QED
    BY <2>1, <2>3, <2>4
<1>2. PICK m \in T : least = n - m
  OBVIOUS
<1>3. \A y \in T : m >= y
  <2> TAKE y \in T
  <2>1. n - y \in below /\ ~(n - y < least)
    BY <1>1
  <2> QED
    BY <1>2, <2>1
<1>4. Max(T) \in T /\ \A y \in T : Max(T) >= y
  <2> HIDE DEF T
  <2> QED
    BY <1>3, Zenon DEF Max
<1>5. T \subseteq 0..n /\ S \subseteq T
  OBVIOUS
<1> HIDE DEF T
<1>6. Max(T) \in 0..n /\ \A x \in S : x <= Max(T)
  BY <1>4, <1>5
<1> QED
  BY <1>6 DEF T

\* The next serial is nobody's, whatever the stored serials have become.
LEMMA NextSerialIsNew ==
  ASSUME IInv
  PROVE  /\ NextSerial \in 1..Len(rows) + 1
         /\ \A k \in DOMAIN rows : rows[k].serial # NextSerial
<1> DEFINE S == {rows[k].serial : k \in DOMAIN rows}
<1>1. Len(rows) \in Nat
  BY Lengths DEF IInv
<1>2. S \subseteq 0..Len(rows)
  BY DEF IInv, Columns
<1>3. /\ Max({0} \cup S) \in 0..Len(rows)
      /\ \A x \in S : x <= Max({0} \cup S)
  <2> HIDE DEF S
  <2> QED
    BY <1>1, <1>2, MaxOfBounded
<1>4. NextSerial = Max({0} \cup S) + 1
  BY DEF NextSerial
<1>5. \A k \in DOMAIN rows : rows[k].serial \in S
  OBVIOUS
<1> DEFINE m == Max({0} \cup S)
<1>6. \A k \in DOMAIN rows : rows[k].serial \in 0..Len(rows) /\ rows[k].serial <= m
  <2> HIDE DEF S, m
  <2> QED
    BY <1>2, <1>3, <1>5 DEF m
<1> HIDE DEF S, m
<1>7. m \in 0..Len(rows) /\ NextSerial = m + 1
  BY <1>3, <1>4 DEF m
<1> QED
  BY <1>1, <1>6, <1>7

\* A row is seven columns; the unique ones are what the commit compared.
LEMMA RowHasColumns ==
  ASSUME NEW rid, NEW r, NEW n
  PROVE  /\ DOMAIN RowOf(rid, r, n) = Column
         /\ RowOf(rid, r, n).rid = rid
         /\ RowOf(rid, r, n).serial = n
         /\ DOMAIN RowOf(rid, r, n).receipt = Field
<1>1. DOMAIN RowOf(rid, r, n) = Column
  BY DEF RowOf, Column, UniqueColumn
<1>2. RowOf(rid, r, n).receipt = Document(Signed(r, n))
  BY DEF RowOf
<1>3. DOMAIN Document(Signed(r, n)) = Field
  BY DEF Document, Field
<1> QED
  BY <1>1, <1>2, <1>3 DEF RowOf

\* A commit appends one row to both sequences.
LEMMA CommitKeepsIInv ==
  ASSUME IInv, NEW rid \in RequestId, NEW r \in Requests, Commit(rid, r)
  PROVE  IInv'
<1> DEFINE row == RowOf(rid, r, NextSerial)
           n == Len(rows)
<1>1. /\ n < MaxRows
      /\ Admissible(Issuer.policy, Issuer.identity, r)
      /\ \A k \in DOMAIN rows : rows[k].rid # rid
      /\ \A k \in DOMAIN rows : rows[k].receiptId # row.receiptId
      /\ rows' = Append(rows, row) /\ committed' = Append(committed, row)
      /\ damaged' = damaged
  BY DEF Commit
<1>2. /\ DOMAIN row = Column /\ DOMAIN row.receipt = Field
      /\ row.rid = rid /\ row.serial = NextSerial
  BY RowHasColumns
<1>3. /\ NextSerial \in 1..n + 1
      /\ \A k \in DOMAIN rows : rows[k].serial # NextSerial
  BY NextSerialIsNew
<1>4. row = RowOf(rid, r, NextSerial)
  OBVIOUS
<1> HIDE DEF row
<1>5. PICK S : rows \in Seq(S)
  BY DEF IInv, Bounds
<1>6. PICK T : committed \in Seq(T)
  BY DEF IInv, Bounds
<1>7. /\ n \in Nat /\ Len(committed) = n
      /\ DOMAIN rows = 1..n /\ DOMAIN committed = 1..n
  BY Lengths DEF IInv, Bounds
<1>8. /\ rows' \in Seq(S \cup {row}) /\ committed' \in Seq(T \cup {row})
      /\ Len(rows') = n + 1 /\ Len(committed') = n + 1
      /\ DOMAIN rows' = 1..n + 1 /\ DOMAIN committed' = 1..n + 1
      /\ rows'[n + 1] = row /\ committed'[n + 1] = row
      /\ \A k \in 1..n : rows'[k] = rows[k] /\ committed'[k] = committed[k]
  BY <1>1, <1>5, <1>6, <1>7
<1>9. \A k \in 1..n + 1 : k \in 1..n \/ k = n + 1
  BY <1>7
<1>10. n + 1 \in 1..n + 1 /\ 1..n \subseteq 1..n + 1
  BY <1>7
<1>11. Bounds'
  <2>1. (\E U : rows' \in Seq(U)) /\ (\E U : committed' \in Seq(U))
    BY <1>8
  <2>2. Len(rows') = Len(committed') /\ Len(rows') <= MaxRows
    BY <1>1, <1>7, <1>8, ReceiptAssumption
  <2>3. damaged' \in 0..MaxDamage
    BY <1>1 DEF IInv, Bounds
  <2> QED
    BY <2>1, <2>2, <2>3 DEF Bounds
<1> HIDE DEF n
<1>12. Columns'
  <2>1. ASSUME NEW k \in 1..n + 1
        PROVE  DOMAIN rows'[k] = Column /\ rows'[k].serial \in 0..n + 1
    <3>1. CASE k \in 1..n
      BY <3>1, <1>7, <1>8 DEF IInv, Columns, n
    <3>2. CASE k = n + 1
      BY <3>2, <1>2, <1>3, <1>7, <1>8
    <3> QED
      BY <3>1, <3>2, <1>9
  <2> QED
    BY <1>8, <2>1 DEF Columns
<1>13. Origins'
  <2>1. ASSUME NEW k \in 1..n + 1
        PROVE  \E q \in RequestId, s \in Requests, m \in 1..n + 1 :
                 /\ committed'[k] = RowOf(q, s, m)
                 /\ Admissible(Issuer.policy, Issuer.identity, s)
    <3>1. CASE k \in 1..n
      BY <3>1, <1>7, <1>8, <1>10 DEF IInv, Origins
    <3>2. CASE k = n + 1
      BY <3>2, <1>1, <1>3, <1>4, <1>8
    <3> QED
      BY <3>1, <3>2, <1>9
  <2> QED
    BY <1>8, <2>1 DEF Origins
<1>14. RecordsAreCommitted'
  <2>1. ASSUME NEW k \in 1..n + 1, rows'[k].record # Junk
        PROVE  \E i \in 1..n + 1 : rows'[k].record = committed'[i].record
    <3>1. CASE k \in 1..n
      BY <2>1, <3>1, <1>7, <1>8, <1>10 DEF IInv, RecordsAreCommitted
    <3>2. CASE k = n + 1
      BY <3>2, <1>8, <1>10
    <3> QED
      BY <3>1, <3>2, <1>9
  <2> QED
    BY <1>8, <2>1 DEF RecordsAreCommitted
<1>15. SignaturesAreCommitted'
  <2>1. ASSUME NEW k \in 1..n + 1, rows'[k].receipt # Junk
        PROVE  /\ DOMAIN rows'[k].receipt = Field
               /\ \E i \in 1..n + 1 :
                    rows'[k].receipt.signature = committed'[i].receipt.signature
    <3>1. CASE k \in 1..n
      BY <2>1, <3>1, <1>7, <1>8, <1>10 DEF IInv, SignaturesAreCommitted
    <3>2. CASE k = n + 1
      BY <3>2, <1>2, <1>8, <1>10
    <3> QED
      BY <3>1, <3>2, <1>9
  <2> QED
    BY <1>8, <2>1 DEF SignaturesAreCommitted
<1>16. Unique'
  <2>1. ASSUME NEW c \in UniqueColumn, NEW k \in 1..n
        PROVE  rows[k][c] # row[c]
    BY <1>1, <1>2, <1>3, <1>7 DEF UniqueColumn
  <2>2. ASSUME NEW c \in UniqueColumn, NEW j \in 1..n + 1, NEW k \in 1..n + 1,
               j # k
        PROVE  rows'[j][c] # rows'[k][c]
    <3>1. CASE j \in 1..n /\ k \in 1..n
      BY <2>2, <3>1, <1>7, <1>8 DEF IInv, Unique
    <3>2. CASE j = n + 1 \/ k = n + 1
      BY <2>1, <2>2, <3>2, <1>8, <1>9
    <3> QED
      BY <3>1, <3>2, <1>9
  <2> QED
    BY <1>8, <2>2 DEF Unique
<1> QED
  BY <1>11, <1>12, <1>13, <1>14, <1>15, <1>16 DEF IInv

-----------------------------------------------------------------------------
(* Theorems                                                                *)

\* An empty table satisfies the invariant.
LEMMA InitHolds ==
  ASSUME Init
  PROVE  IInv
<1>1. rows = <<>> /\ committed = <<>> /\ damaged = 0
  BY DEF Init
<1>2. /\ \E S : rows \in Seq(S)
      /\ \E S : committed \in Seq(S)
      /\ Len(rows) = 0 /\ Len(committed) = 0
      /\ DOMAIN rows = {} /\ DOMAIN committed = {}
  BY <1>1
<1>3. Bounds
  BY <1>1, <1>2, ReceiptAssumption DEF Bounds
<1> QED
  BY <1>2, <1>3 DEF IInv, Columns, Origins, RecordsAreCommitted,
                    SignaturesAreCommitted, Unique

\* Commits and damages preserve the invariant.
LEMMA NextKeepsIInv ==
  ASSUME IInv, [Next]_vars
  PROVE  IInv'
<1>1. CASE UNCHANGED vars
  BY <1>1 DEF vars, IInv, Bounds, Columns, Origins, RecordsAreCommitted,
              SignaturesAreCommitted, Unique
<1>2. ASSUME NEW rid \in RequestId, NEW r \in Requests, Commit(rid, r)
      PROVE  IInv'
  BY <1>2, CommitKeepsIInv
<1>3. ASSUME NEW j \in DOMAIN rows, NEW k \in DOMAIN rows, NEW column \in Column,
             Lose(k, column) \/ Copy(j, k, column) \/ Exchange(j, k, column)
      PROVE  IInv'
  BY <1>3, LoseKeepsIInv, CopyKeepsIInv, ExchangeKeepsIInv
<1>4. ASSUME NEW j \in DOMAIN rows, NEW k \in DOMAIN rows, NEW field \in Field,
             Splice(j, k, field)
      PROVE  IInv'
  BY <1>4, SpliceKeepsIInv
<1> QED
  BY <1>1, <1>2, <1>3, <1>4 DEF Next

\* The invariant holds of every behaviour.
LEMMA IInvHolds == Spec => []IInv
<1>1. Init => IInv
  BY InitHolds
<1>2. IInv /\ [Next]_vars => IInv'
  BY NextKeepsIInv
<1> QED
  BY <1>1, <1>2, PTL DEF Spec

\* The table stays a table of seven columns with unique request ids, serials
\* and receipt ids, and its serials stay within the number of commits.
THEOREM TypeCorrect == Spec => []TypeOK
<1>1. ASSUME IInv
      PROVE  TypeOK
  <2>1. Len(rows) \in Nat /\ Len(rows) = Len(committed) /\ Len(rows) <= MaxRows
    BY <1>1, Lengths DEF IInv, Bounds
  <2>2. \A k \in DOMAIN rows : DOMAIN rows[k] = Column /\ rows[k].serial \in Nat
    BY <1>1, <2>1 DEF IInv, Columns
  <2>3. \A k \in DOMAIN committed :
          \E rid \in RequestId, r \in Requests, n \in 1..MaxRows :
            committed[k] = RowOf(rid, r, n)
    <3>1. \A n \in 1..Len(committed) : n \in 1..MaxRows
      BY <2>1, ReceiptAssumption
    <3> QED
      BY <1>1, <3>1 DEF IInv, Origins
  <2>4. damaged \in 0..MaxDamage
    BY <1>1 DEF IInv, Bounds
  <2> QED
    BY <1>1, <2>1, <2>2, <2>3, <2>4 DEF TypeOK, IInv, Unique
<1> QED
  BY <1>1, IInvHolds, PTL

\* However many columns were damaged, get_committed and an exact retry hand
\* out committed receipts only, and for the request committed under the id.
THEOREM ReadsStayGenuine == Spec => []ReadsAreGenuine
<1>1. IInv => ReadsAreGenuine
  BY GenuineReads, ReceiptAssumption
<1> QED
  BY <1>1, IInvHolds, PTL

\* However many columns were damaged, an inspection that gets past every row
\* has seen exactly the committed receipts.
THEOREM InspectionStaysExact == Spec => []InspectionIsExact
<1>1. IInv => InspectionIsExact
  BY ExactInspection
<1> QED
  BY <1>1, IInvHolds, PTL

\* The scan before an Ink grant is an inspection too, so the grant is added to
\* a complete history only.
THEOREM InkGrantsExtendGenuineHistory == Spec => InkGrowsOnGenuineHistory
<1>1. ASSUME IInv, Next, Len(rows') > Len(rows),
             IsInk(rows'[Len(rows')].record.request)
      PROVE  Receipts = CommittedReceipts
  <2>1. Len(rows) \in Nat
    BY <1>1, Lengths DEF IInv
  <2>2. CASE \E rid \in RequestId, r \in Requests : Commit(rid, r)
    <3>1. PICK rid \in RequestId, r \in Requests : Commit(rid, r)
      BY <2>2
    <3> DEFINE row == RowOf(rid, r, NextSerial)
    <3>2. row.record.request = r
      BY DEF RowOf, RequestRecord
    <3>3. rows' = Append(rows, row) /\ ScanPasses(r)
      BY <3>1 DEF Commit
    <3> HIDE DEF row
    <3>4. rows'[Len(rows')] = row
      BY <1>1, <3>3 DEF IInv, Bounds
    <3>5. InspectionPasses
      BY <1>1, <3>2, <3>3, <3>4 DEF ScanPasses, ValidatesFor, InspectionPasses
    <3> QED
      BY <1>1, <3>5, ExactInspection DEF InspectionIsExact
  <2>3. CASE \E k \in DOMAIN rows, column \in Column : \E value :
               Damage(k, column, value)
    BY <1>1, <2>1, <2>3, DamagedRow
  <2>4. CASE \E j, k \in DOMAIN rows, column \in Column : Exchange(j, k, column)
    <3>1. Len(rows') = Len(rows)
      BY <1>1, <2>4 DEF Exchange, IInv, Bounds
    <3> QED
      BY <1>1, <2>1, <3>1
  <2>5. "receipt" \in Column
    BY DEF Column
  <2> QED
    BY <1>1, <2>2, <2>3, <2>4, <2>5 DEF Next, Lose, Copy, Splice
<1> QED
  BY <1>1, IInvHolds, PTL DEF Spec, InkGrowsOnGenuineHistory

-----------------------------------------------------------------------------
(* Ink requests are granted once                                           *)

InkApart ==
  \A i, j \in DOMAIN committed :
    (i # j /\ IsInk(committed[i].record.request) /\ IsInk(committed[j].record.request))
      => ~Overlap(committed[i].record.request, committed[j].record.request)

\* A committed receipt carries the policy of the request beside it.
LEMMA CommittedRow ==
  ASSUME IInv, NEW j \in DOMAIN committed
  PROVE  /\ committed[j].record.request \in Requests
         /\ committed[j].receipt.policy = PolicyOf(committed[j].record.request)
<1>1. PICK p \in RequestId, s \in Requests, n \in 1..Len(committed) :
        committed[j] = RowOf(p, s, n)
  BY DEF IInv, Origins
<1> QED
  BY <1>1 DEF RowOf, RequestRecord, Document, Signed

\* The policy of a request keeps its network and its interval.
LEMMA PolicyKeepsOverlap ==
  ASSUME NEW q, NEW s, NEW r, PolicyOf(q) = PolicyOf(s)
  PROVE  /\ IsInk(q) <=> IsInk(s)
         /\ Overlap(PolicyOf(q), r) <=> Overlap(s, r)
<1>1. /\ q.scope = s.scope /\ q.notBefore = s.notBefore /\ q.notAfter = s.notAfter
      /\ PolicyOf(q).notBefore = s.notBefore /\ PolicyOf(q).notAfter = s.notAfter
  BY DEF PolicyOf
<1>2. IsInk(q) <=> IsInk(s)
  BY <1>1 DEF IsInk
<1>3. Overlap(PolicyOf(q), r) <=> Overlap(s, r)
  BY <1>1, Zenon DEF Overlap
<1> QED
  BY <1>2, <1>3

\* A request overlaps itself.
LEMMA OverlapReflexive ==
  ASSUME NEW r \in Request
  PROVE  Overlap(r, r)
<1>1. r.notBefore \in Nat /\ r.notAfter \in Nat /\ r.notBefore < r.notAfter
  BY DEF Request
<1>2. ActiveAt(r, r.notBefore)
  BY <1>1 DEF ActiveAt
<1> QED
  BY <1>1, <1>2, OverlapIsSharedInstant

\* The scan sees the whole history, so an Ink commit overlaps none of it.
LEMMA CommitKeepsInkApart ==
  ASSUME IInv, InkApart, NEW rid \in RequestId, NEW r \in Requests, Commit(rid, r)
  PROVE  InkApart'
<1> DEFINE row == RowOf(rid, r, NextSerial)
           n == Len(committed)
<1>1. committed' = Append(committed, row) /\ ScanPasses(r)
  BY DEF Commit
<1>2. row.record.request = r
  BY DEF RowOf, RequestRecord
<1> HIDE DEF row
<1>3. PICK T : committed \in Seq(T)
  BY DEF IInv, Bounds
<1>4. /\ n \in Nat /\ DOMAIN committed = 1..n /\ DOMAIN committed' = 1..n + 1
      /\ committed'[n + 1] = row
      /\ \A k \in 1..n : committed'[k] = committed[k]
  BY <1>1, <1>3
<1> HIDE DEF n
<1>5. ASSUME NEW i \in 1..n, IsInk(committed[i].record.request), IsInk(r)
      PROVE  ~Overlap(committed[i].record.request, r)
  <2> DEFINE s == committed[i].record.request
  <2>1. \A k \in DOMAIN rows :
          /\ ValidatesFor(rows[k], rows[k].rid)
          /\ IsInk(rows[k].record.request) => ~Overlap(rows[k].receipt.policy, r)
    BY <1>1, <1>5 DEF ScanPasses
  <2>2. InspectionPasses
    BY <2>1 DEF ValidatesFor, InspectionPasses
  <2>3. Receipts = CommittedReceipts
    BY <2>2, ExactInspection DEF InspectionIsExact
  <2>4. PICK k \in DOMAIN rows : rows[k].receipt = committed[i].receipt
    BY <2>3, <1>4 DEF Receipts, CommittedReceipts
  <2>5. PolicyOf(rows[k].record.request) = rows[k].receipt.policy
    BY <2>1 DEF ValidatesFor
  <2>6. PolicyOf(rows[k].record.request) = PolicyOf(s)
    BY <2>4, <2>5, <1>4, CommittedRow
  <2> HIDE DEF s
  <2>7. /\ IsInk(rows[k].record.request) <=> IsInk(s)
        /\ Overlap(rows[k].receipt.policy, r) <=> Overlap(s, r)
    BY <2>5, <2>6, PolicyKeepsOverlap
  <2>8. IsInk(s)
    BY <1>5 DEF s
  <2>9. ~Overlap(s, r)
    BY <2>1, <2>7, <2>8
  <2> QED
    BY <2>9 DEF s
<1>6. ASSUME NEW i \in 1..n + 1, NEW j \in 1..n + 1, i # j,
             IsInk(committed'[i].record.request),
             IsInk(committed'[j].record.request)
      PROVE  ~Overlap(committed'[i].record.request, committed'[j].record.request)
  <2>1. /\ i \in 1..n \/ i = n + 1
        /\ j \in 1..n \/ j = n + 1
    BY <1>4
  <2>2. CASE i \in 1..n /\ j \in 1..n
    BY <2>2, <1>4, <1>6 DEF InkApart
  <2>3. CASE i \in 1..n /\ j = n + 1
    BY <2>3, <1>2, <1>4, <1>5, <1>6
  <2>4. CASE i = n + 1 /\ j \in 1..n
    <3>1. ~Overlap(committed[j].record.request, r)
      BY <2>4, <1>2, <1>4, <1>5, <1>6
    <3>2. ~Overlap(r, committed[j].record.request)
      BY <3>1, OverlapSymmetric
    <3> QED
      BY <2>4, <3>2, <1>2, <1>4
  <2> QED
    BY <2>1, <2>2, <2>3, <2>4, <1>6
<1> QED
  BY <1>4, <1>6 DEF InkApart

\* No two committed Ink requests overlap, so none is granted twice.
LEMMA InkApartHolds == Spec => []InkApart
<1>1. Init => InkApart
  BY DEF Init, InkApart
<1>2. IInv /\ InkApart /\ [Next]_vars => InkApart'
  <2> SUFFICES ASSUME IInv, InkApart, [Next]_vars
               PROVE  InkApart'
    OBVIOUS
  <2>1. CASE committed' = committed
    BY <2>1 DEF InkApart
  <2>2. CASE \E rid \in RequestId, r \in Requests : Commit(rid, r)
    BY <2>2, CommitKeepsInkApart
  <2> QED
    BY <2>1, <2>2 DEF Next, vars, Lose, Copy, Exchange, Splice, Damage
<1> QED
  BY <1>1, <1>2, IInvHolds, PTL DEF Spec

\* However many columns were damaged, an Ink receipt that is returned for a
\* request id is the one that was committed under it.
THEOREM InkReadsStayExact == Spec => []InkReadsAreExact
<1>1. ASSUME IInv, InkApart
      PROVE  InkReadsAreExact
  <2> SUFFICES ASSUME NEW k \in DOMAIN rows, NEW rid \in RequestId,
                      Returns(rid, rows[k]), IsInk(rows[k].record.request)
               PROVE  \E i \in DOMAIN committed :
                        committed[i].rid = rid /\ committed[i].receipt = rows[k].receipt
    BY DEF InkReadsAreExact
  <2>1. PICK i \in DOMAIN committed, j \in DOMAIN committed :
          /\ committed[i].rid = rid
          /\ committed[j].record.request = committed[i].record.request
          /\ committed[j].receipt = rows[k].receipt
    BY <1>1, GenuineReads, ReceiptAssumption DEF ReadsAreGenuine
  <2>2. PolicyOf(rows[k].record.request) = PolicyOf(committed[j].record.request)
    BY <1>1, <2>1, CommittedRow DEF Returns, ValidatesFor
  <2>3. IsInk(committed[j].record.request)
    BY <2>2, PolicyKeepsOverlap
  <2>4. Overlap(committed[j].record.request, committed[j].record.request)
    BY <1>1, CommittedRow, OverlapReflexive, ReceiptAssumption
  <2>5. i = j
    BY <1>1, <2>1, <2>3, <2>4 DEF InkApart
  <2> QED
    BY <2>1, <2>5
<1> QED
  BY <1>1, IInvHolds, InkApartHolds, PTL

-----------------------------------------------------------------------------
(* It takes three damages to confuse two receipts of one request           *)

Differing(k) == {c \in Column : rows[k][c] # committed[k][c]}

\* A row differs from what was committed in its place in at most as many
\* columns as there were damages: an exchange, too, touches one in each row.
Differences == \A k \in DOMAIN rows : Cardinality(Differing(k)) <= damaged

\* There are seven columns; whatever set of them differs has a size.
LEMMA DifferingIsFinite ==
  ASSUME NEW S, S \subseteq Column
  PROVE  IsFiniteSet(S) /\ Cardinality(S) \in Nat
<1>1. IsFiniteSet(UniqueColumn)
  <2>1. UniqueColumn = (({} \cup {"rid"}) \cup {"serial"}) \cup {"receiptId"}
    BY DEF UniqueColumn
  <2> QED
    BY <2>1, FS_EmptySet, FS_AddElement
<1>2. IsFiniteSet(Column)
  <2>1. IsFiniteSet((({"digest"} \cup {"record"}) \cup {"epoch"}) \cup {"receipt"})
    <3>1. IsFiniteSet({"digest"} \cup {"record"})
      BY FS_Singleton, FS_AddElement
    <3>2. IsFiniteSet(({"digest"} \cup {"record"}) \cup {"epoch"})
      BY <3>1, FS_AddElement
    <3> QED
      BY <3>2, FS_AddElement
  <2>2. Column = UniqueColumn \cup
                   ((({"digest"} \cup {"record"}) \cup {"epoch"}) \cup {"receipt"})
    BY DEF Column
  <2> QED
    BY <1>1, <2>1, <2>2, FS_Union
<1> QED
  BY <1>2, FS_Subset, FS_CardinalityType

\* A set that gains at most one member grows by at most one.
LEMMA AtMostOneMore ==
  ASSUME NEW S, NEW T, NEW c, IsFiniteSet(S), T \subseteq S \cup {c}
  PROVE  Cardinality(T) <= Cardinality(S) + 1
<1>1. /\ IsFiniteSet(S \cup {c})
      /\ Cardinality(S \cup {c}) <= Cardinality(S) + 1
      /\ Cardinality(S \cup {c}) \in Nat /\ Cardinality(S) \in Nat
  BY FS_AddElement, FS_CardinalityType
<1>2. Cardinality(T) <= Cardinality(S \cup {c}) /\ Cardinality(T) \in Nat
  BY <1>1, FS_Subset, FS_CardinalityType
<1> QED
  BY <1>1, <1>2

\* Three members are at least three.
LEMMA ThreeMembers ==
  ASSUME NEW S, IsFiniteSet(S), NEW a \in S, NEW b \in S, NEW c \in S,
         a # b, a # c, b # c
  PROVE  Cardinality(S) >= 3
<1>1. /\ IsFiniteSet({a}) /\ Cardinality({a}) = 1
  BY FS_Singleton
<1>2. /\ IsFiniteSet({a} \cup {b}) /\ Cardinality({a} \cup {b}) = 2
  <2>1. b \notin {a}
    OBVIOUS
  <2>2. Cardinality({a} \cup {b}) = Cardinality({a}) + 1
    BY <1>1, <2>1, FS_AddElement, Zenon
  <2>3. IsFiniteSet({a} \cup {b})
    BY <1>1, FS_AddElement, Zenon
  <2> QED
    BY <1>1, <2>2, <2>3
<1>3. Cardinality(({a} \cup {b}) \cup {c}) = 3
  <2>1. c \notin {a} \cup {b}
    OBVIOUS
  <2>2. Cardinality(({a} \cup {b}) \cup {c}) = Cardinality({a} \cup {b}) + 1
    BY <1>2, <2>1, FS_AddElement, Zenon
  <2> QED
    BY <1>2, <2>2
<1>4. Cardinality(({a} \cup {b}) \cup {c}) <= Cardinality(S)
  BY FS_Subset
<1> QED
  BY <1>3, <1>4, FS_CardinalityType

\* Damage of one column of each row it touches keeps the count.
LEMMA DamageKeepsDifferences ==
  ASSUME IInv, Differences, NEW column,
         committed' = committed, damaged' = damaged + 1,
         DOMAIN rows' = DOMAIN rows,
         \A k \in DOMAIN rows : \A c \in Column \ {column} :
           rows'[k][c] = rows[k][c]
  PROVE  Differences'
<1> SUFFICES ASSUME NEW k \in DOMAIN rows
             PROVE  Cardinality(Differing(k)') <= damaged + 1
  BY DEF Differences
<1>1. Differing(k)' \subseteq Differing(k) \cup {column}
  BY DEF Differing
<1>2. Differing(k) \subseteq Column /\ Differing(k)' \subseteq Column
  BY DEF Differing
<1>3. /\ Cardinality(Differing(k)') <= Cardinality(Differing(k)) + 1
      /\ Cardinality(Differing(k)) \in Nat /\ Cardinality(Differing(k)') \in Nat
  BY <1>1, <1>2, DifferingIsFinite, AtMostOneMore
<1>4. Cardinality(Differing(k)) <= damaged /\ damaged \in Nat
  BY ReceiptAssumption DEF Differences, IInv, Bounds
<1> QED
  BY <1>3, <1>4

\* What a step may do to the two sequences: append one row to both, or damage
\* one column.
LEMMA CommitOrDamage ==
  ASSUME IInv, Next
  PROVE  \/ \E row : /\ rows' = Append(rows, row)
                     /\ committed' = Append(committed, row)
                     /\ damaged' = damaged
         \/ /\ committed' = committed /\ damaged' = damaged + 1
            /\ DOMAIN rows' = DOMAIN rows
            /\ \E column : \A k \in DOMAIN rows : \A c \in Column \ {column} :
                 rows'[k][c] = rows[k][c]
<1>1. ASSUME NEW rid \in RequestId, NEW r \in Requests, Commit(rid, r)
      PROVE  \E row : /\ rows' = Append(rows, row)
                      /\ committed' = Append(committed, row)
                      /\ damaged' = damaged
  BY <1>1 DEF Commit
<1>2. ASSUME NEW k \in DOMAIN rows, NEW column \in Column, NEW value,
             Damage(k, column, value)
      PROVE  /\ committed' = committed /\ damaged' = damaged + 1
             /\ DOMAIN rows' = DOMAIN rows
             /\ \A j \in DOMAIN rows : \A c \in Column \ {column} :
                  rows'[j][c] = rows[j][c]
  BY <1>2, DamagedRow DEF Damage
<1>3. ASSUME NEW j \in DOMAIN rows, NEW k \in DOMAIN rows, NEW column \in Column,
             Exchange(j, k, column)
      PROVE  /\ committed' = committed /\ damaged' = damaged + 1
             /\ DOMAIN rows' = DOMAIN rows
             /\ \A i \in DOMAIN rows : \A c \in Column \ {column} :
                  rows'[i][c] = rows[i][c]
  <2>1. /\ rows' = [rows EXCEPT ![j][column] = rows[k][column],
                                ![k][column] = rows[j][column]]
        /\ committed' = committed /\ damaged' = damaged + 1
    BY <1>3 DEF Exchange
  <2>2. DOMAIN rows' = DOMAIN rows
    BY <2>1
  <2>3. ASSUME NEW i \in DOMAIN rows, NEW c \in Column \ {column}
        PROVE  rows'[i][c] = rows[i][c]
    BY <2>1, <2>3 DEF IInv, Columns
  <2> QED
    BY <2>1, <2>2, <2>3
<1>4. ASSUME NEW j \in DOMAIN rows, NEW k \in DOMAIN rows, NEW column \in Column,
             Lose(k, column) \/ Copy(j, k, column)
      PROVE  \E value : Damage(k, column, value)
  BY <1>4 DEF Lose, Copy
<1>5. ASSUME NEW j \in DOMAIN rows, NEW k \in DOMAIN rows, NEW field \in Field,
             Splice(j, k, field)
      PROVE  \E column \in Column : \E value : Damage(k, column, value)
  BY <1>5 DEF Splice, Column
<1>6. CASE \E rid \in RequestId, r \in Requests : Commit(rid, r)
  BY <1>1, <1>6
<1>7. CASE \E k \in DOMAIN rows, column \in Column : \E value :
             Damage(k, column, value)
  BY <1>2, <1>7
<1>8. CASE \E j, k \in DOMAIN rows, column \in Column : Exchange(j, k, column)
  BY <1>3, <1>8
<1> QED
  BY <1>4, <1>5, <1>6, <1>7, <1>8 DEF Next

\* Every step keeps the count.
LEMMA NextKeepsDifferences ==
  ASSUME IInv, Differences, [Next]_vars
  PROVE  Differences'
<1>1. CASE UNCHANGED vars
  BY <1>1 DEF vars, Differences, Differing
<1>2. ASSUME NEW row, rows' = Append(rows, row),
             committed' = Append(committed, row), damaged' = damaged
      PROVE  Differences'
  <2> DEFINE n == Len(rows)
  <2>1. PICK S : rows \in Seq(S)
    BY DEF IInv, Bounds
  <2>2. PICK T : committed \in Seq(T)
    BY DEF IInv, Bounds
  <2>3. /\ n \in Nat /\ Len(committed) = n
        /\ DOMAIN rows = 1..n /\ DOMAIN rows' = 1..n + 1
        /\ rows'[n + 1] = row /\ committed'[n + 1] = row
        /\ \A k \in 1..n : rows'[k] = rows[k] /\ committed'[k] = committed[k]
    BY <1>2, <2>1, <2>2 DEF IInv, Bounds
  <2> HIDE DEF n
  <2>4. ASSUME NEW k \in 1..n + 1
        PROVE  Cardinality(Differing(k)') <= damaged
    <3>1. CASE k \in 1..n
      <4>1. Differing(k)' = Differing(k)
        BY <2>3, <3>1 DEF Differing
      <4> QED
        BY <2>3, <3>1, <4>1 DEF Differences
    <3>2. CASE k = n + 1
      <4>1. Differing(k)' = {}
        BY <2>3, <3>2 DEF Differing
      <4> QED
        BY <4>1, FS_EmptySet, ReceiptAssumption DEF IInv, Bounds
    <3> QED
      BY <2>3, <3>1, <3>2
  <2> QED
    BY <1>2, <2>3, <2>4 DEF Differences
<1> QED
  BY <1>1, <1>2, CommitOrDamage, DamageKeepsDifferences

\* SHA-256 has no collisions.
LEMMA DigestIsInjective ==
  ASSUME NEW x, NEW y, Digest(x) = Digest(y)
  PROVE  x = y
BY DEF Digest

\* The receipt id tells receipts apart.
LEMMA ReceiptIdDeterminesDocument ==
  ASSUME NEW a, NEW b, ReceiptId(a) = ReceiptId(b)
  PROVE  Document(a) = Document(b)
<1>1. /\ Digest(SignedBody(a)) = Digest(SignedBody(b))
      /\ Digest(a.signature) = Digest(b.signature)
  BY DEF ReceiptId, Digest
<1>2. SignedBody(a) = SignedBody(b) /\ a.signature = b.signature
  BY <1>1, DigestIsInjective
<1> QED
  BY <1>2, SignedBodyDeterminesReceipt, SameReceiptSameDocument

\* A row that is returned holds the receipt committed in its place, or differs
\* from it in three columns: under another request id, in the id, the record
\* and its digest; under the same one, in the receipt, the receipt id, and the
\* serial or the record.
LEMMA ReturnedRow ==
  ASSUME IInv, ReceiptAssumption, NEW k \in DOMAIN rows, NEW rid \in RequestId,
         Returns(rid, rows[k]), Cardinality(Differing(k)) < 3
  PROVE  committed[k].rid = rid /\ committed[k].receipt = rows[k].receipt
<1> DEFINE row == rows[k]
<1>1. /\ row.rid = rid /\ row.record # Junk /\ row.record.rid = rid
      /\ row.digest = Digest(row.record)
      /\ Reads(row)
      /\ PolicyOf(row.record.request) = row.receipt.policy
      /\ row.record.request.issuedAt = row.receipt.issuedAt
  BY DEF Returns, ValidatesFor
<1>2. /\ row.receipt = Document(ReceiptOf(row.receipt))
      /\ row.receipt.serial = row.serial
      /\ row.receipt.receiptId = row.receiptId
  BY <1>1 DEF Reads, IsReceipt
<1>3. k \in DOMAIN committed
  BY Lengths DEF IInv
<1>4. PICK q \in RequestId, r \in Requests, n \in 1..Len(committed) :
        committed[k] = RowOf(q, r, n)
  BY <1>3 DEF IInv, Origins
<1>5. /\ committed[k].rid = q /\ committed[k].serial = n
      /\ committed[k].record = RequestRecord(q, r)
      /\ committed[k].digest = Digest(RequestRecord(q, r))
      /\ committed[k].receipt = Document(Signed(r, n))
      /\ committed[k].receiptId = ReceiptId(Signed(r, n))
  BY <1>4 DEF RowOf
<1>6. \A c \in Column : c \in Differing(k) <=> row[c] # committed[k][c]
  BY DEF Differing
<1>7. /\ IsFiniteSet(Differing(k)) /\ Cardinality(Differing(k)) \in Nat
  <2>1. Differing(k) \subseteq Column
    BY DEF Differing
  <2> QED
    BY <2>1, DifferingIsFinite
<1>8. /\ {"rid", "record", "digest", "receipt", "receiptId", "serial"} \subseteq Column
  BY DEF Column, UniqueColumn
<1>9. q = rid
  <2> SUFFICES ASSUME q # rid
               PROVE  FALSE
    OBVIOUS
  <2>1. row.record # RequestRecord(q, r)
    BY <1>1 DEF RequestRecord
  <2>2. row.digest # Digest(RequestRecord(q, r))
    BY <1>1, <2>1, DigestIsInjective
  <2> HIDE DEF row
  <2>3. /\ row["rid"] # committed[k]["rid"]
        /\ row["record"] # committed[k]["record"]
        /\ row["digest"] # committed[k]["digest"]
    BY <1>1, <1>5, <2>1, <2>2
  <2>4. /\ "rid" \in Differing(k)
        /\ "record" \in Differing(k)
        /\ "digest" \in Differing(k)
    BY <1>6, <1>8, <2>3
  <2> QED
    BY <1>7, <2>4, ThreeMembers
<1>10. row.receipt = Document(Signed(r, n))
  <2> SUFFICES ASSUME row.receipt # Document(Signed(r, n))
               PROVE  FALSE
    OBVIOUS
  <2>1. row.receiptId # ReceiptId(Signed(r, n))
    <3> DEFINE a == ReceiptOf(row.receipt)
               b == Signed(r, n)
    <3>1. row.receiptId = ReceiptId(a)
      BY <1>2 DEF Document
    <3>2. ReceiptId(a) = ReceiptId(b) => Document(a) = Document(b)
      <4> HIDE DEF a, b
      <4> QED
        BY ReceiptIdDeterminesDocument
    <3> QED
      BY <1>2, <3>1, <3>2
  <2>2. row.serial # n \/ row.record # RequestRecord(q, r)
    <3> SUFFICES ASSUME row.serial = n, row.record = RequestRecord(q, r)
                 PROVE  FALSE
      OBVIOUS
    <3>1. PICK j \in DOMAIN committed : row.receipt = committed[j].receipt
      BY <1>1, ReadIsCommitted
    <3>2. PICK p \in RequestId, s \in Requests, m \in 1..Len(committed) :
            committed[j] = RowOf(p, s, m)
      BY DEF IInv, Origins
    <3>3. row.receipt = Document(Signed(s, m))
      BY <3>1, <3>2 DEF RowOf
    <3>4. /\ row.receipt.serial = m
          /\ row.receipt.policy = PolicyOf(s)
          /\ row.receipt.issuedAt = s.issuedAt
      BY <3>3 DEF Document, Signed
    <3>5. m = n
      BY <1>2, <3>4
    <3>6. PolicyOf(s) = PolicyOf(r) /\ s.issuedAt = r.issuedAt
      BY <1>1, <3>4 DEF RequestRecord
    <3>7. Signed(s, m) = Signed(r, n)
      BY <3>5, <3>6 DEF Signed
    <3> QED
      BY <3>3, <3>7
  <2> HIDE DEF row
  <2>3. /\ row["receipt"] # committed[k]["receipt"]
        /\ row["receiptId"] # committed[k]["receiptId"]
        /\ row["serial"] # committed[k]["serial"] \/ row["record"] # committed[k]["record"]
    BY <1>5, <2>1, <2>2
  <2>4. /\ "receipt" \in Differing(k)
        /\ "receiptId" \in Differing(k)
        /\ "serial" \in Differing(k) \/ "record" \in Differing(k)
    BY <1>6, <1>8, <2>3
  <2> QED
    BY <1>7, <2>4, ThreeMembers
<1> QED
  BY <1>5, <1>9, <1>10

\* Even in a ledger that grants one request under two ids, a receipt that is
\* returned for a request id is the one committed under it, unless three
\* columns were damaged.
THEOREM ReadsStayExact == Spec => []ReadsAreExact
<1>1. Init => Differences
  BY DEF Init, Differences
<1>2. IInv /\ Differences /\ [Next]_vars => Differences'
  BY NextKeepsDifferences
<1>3. ASSUME IInv, Differences
      PROVE  ReadsAreExact
  <2> SUFFICES ASSUME NEW k \in DOMAIN rows, NEW rid \in RequestId,
                      Returns(rid, rows[k]), damaged < 3
               PROVE  \E i \in DOMAIN committed :
                        committed[i].rid = rid /\ committed[i].receipt = rows[k].receipt
    BY DEF ReadsAreExact
  <2>1. Cardinality(Differing(k)) \in Nat
    <3>1. Differing(k) \subseteq Column
      BY DEF Differing
    <3> QED
      BY <3>1, DifferingIsFinite
  <2>2. Cardinality(Differing(k)) < 3
    BY <1>3, <2>1, ReceiptAssumption DEF Differences, IInv, Bounds
  <2>3. committed[k].rid = rid /\ committed[k].receipt = rows[k].receipt
    BY <1>3, <2>2, ReturnedRow, ReceiptAssumption
  <2>4. k \in DOMAIN committed
    BY <1>3, Lengths DEF IInv
  <2> QED
    BY <2>3, <2>4
<1> QED
  BY <1>1, <1>2, <1>3, IInvHolds, PTL DEF Spec

-----------------------------------------------------------------------------
(* What is intact is readable                                              *)

\* A receipt is what from_bytes makes of its document.
LEMMA DocumentIsDecoded ==
  ASSUME NEW r, NEW n
  PROVE  ReceiptOf(Document(Signed(r, n))) = Signed(r, n)
<1> DEFINE a == Signed(r, n)
<1>1. a = [root |-> a.root, fingerprint |-> a.fingerprint, epoch |-> a.epoch,
           serial |-> a.serial, issuedAt |-> a.issuedAt, policy |-> a.policy,
           signature |-> a.signature]
  BY DEF Signed
<1> HIDE DEF a
<1>2. ReceiptOf(Document(a)) =
          [root |-> a.root, fingerprint |-> a.fingerprint, epoch |-> a.epoch,
           serial |-> a.serial, issuedAt |-> a.issuedAt, policy |-> a.policy,
           signature |-> a.signature]
  BY DEF ReceiptOf, Document
<1>3. ReceiptOf(Document(a)) = a
  BY <1>1, <1>2
<1> QED
  BY <1>3 DEF a

\* What issue() signs for an admissible request verifies, and its document is a
\* receipt.
LEMMA SignedIsReadable ==
  ASSUME ReceiptAssumption, JunkAssumption,
         NEW rid \in RequestId, NEW r \in Requests, NEW n \in 1..MaxRows,
         Admissible(Issuer.policy, Issuer.identity, r)
  PROVE  Reads(RowOf(rid, r, n))
<1> DEFINE a == Signed(r, n)
           doc == Document(a)
<1>1. /\ a.root = Issuer.policy.root /\ a.fingerprint = Issuer.key
      /\ a.epoch = Issuer.epoch /\ a.serial = n /\ a.policy = PolicyOf(r)
  BY DEF Signed
<1>2. ReceiptOf(doc) = a
  BY DocumentIsDecoded
<1>3. a.signature = Sign(Issuer.key, SignedBody(a))
  BY SignedIsSigned
<1>4. doc # Junk
  BY JunkAssumption
<1>5. a.policy.scope.root = a.root
  <2>1. r.scope.root = Issuer.policy.root
    BY DEF Admissible
  <2> HIDE DEF a
  <2> QED
    BY <1>1, <2>1 DEF PolicyOf
<1>6. /\ RowOf(rid, r, n).receipt = doc /\ RowOf(rid, r, n).receiptId = ReceiptId(a)
      /\ RowOf(rid, r, n).epoch = Issuer.epoch /\ RowOf(rid, r, n).serial = n
  BY DEF RowOf
<1> HIDE DEF a
<1>7. /\ doc.root = a.root /\ doc.policy = a.policy /\ doc.epoch = a.epoch
      /\ doc.serial = a.serial /\ doc.receiptId = ReceiptId(a)
  BY DEF Document
<1>8. IsReceipt(doc) /\ VerifiesWith(Issuer.key, ReceiptOf(doc))
  BY <1>1, <1>2, <1>3, <1>4, <1>5, <1>7 DEF IsReceipt, VerifiesWith
<1> QED
  BY <1>1, <1>6, <1>7, <1>8 DEF Reads

\* A row that is as it was committed is returned for its request id, however
\* many others there are and whatever befell them.
THEOREM IntactRowsStayReadable == Spec => []IntactRowsAreReturned
<1>1. ASSUME IInv
      PROVE  IntactRowsAreReturned
  <2> SUFFICES ASSUME NEW k \in DOMAIN rows, rows[k] = committed[k]
               PROVE  Returns(committed[k].rid, rows[k])
    BY DEF IntactRowsAreReturned
  <2>1. k \in DOMAIN committed /\ Len(committed) <= MaxRows /\ Len(committed) \in Nat
    BY <1>1, Lengths DEF IInv, Bounds
  <2>2. PICK rid \in RequestId, r \in Requests, n \in 1..Len(committed) :
          /\ committed[k] = RowOf(rid, r, n)
          /\ Admissible(Issuer.policy, Issuer.identity, r)
    BY <1>1, <2>1 DEF IInv, Origins
  <2>3. n \in 1..MaxRows
    BY <2>1, ReceiptAssumption
  <2>4. Reads(RowOf(rid, r, n))
    BY <2>2, <2>3, SignedIsReadable, ReceiptAssumption, JunkAssumption
  <2> DEFINE row == RowOf(rid, r, n)
  <2>5. /\ row.rid = rid /\ row.record = RequestRecord(rid, r)
        /\ row.record.rid = rid /\ row.record.request = r
        /\ row.digest = Digest(RequestRecord(rid, r))
        /\ row.receipt = Document(Signed(r, n))
    BY DEF RowOf, RequestRecord
  <2>6. /\ row.receipt.root = Issuer.policy.root /\ row.receipt.policy = PolicyOf(r)
        /\ row.receipt.issuedAt = r.issuedAt
    BY <2>5 DEF Document, Signed
  <2>7. row.record # Junk
    BY <2>3, <2>5, JunkAssumption
  <2> HIDE DEF row
  <2>8. Returns(row.rid, row)
    BY <2>2, <2>4, <2>5, <2>6, <2>7 DEF Returns, ValidatesFor, row
  <2> QED
    BY <2>2, <2>8 DEF row
<1> QED
  BY <1>1, IInvHolds, PTL
=============================================================================
