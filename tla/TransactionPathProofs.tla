------------------------- MODULE TransactionPathProofs -------------------------
(***************************************************************************)
(* What is signed arrives as it was signed, a signature commits its signer *)
(* to the whole transaction, a wallet keeps its key and its address        *)
(* together, whatever becomes of its file, and what is written in          *)
(* hexadecimal reads back as it was, for bytes of any number and value.    *)
(***************************************************************************)
EXTENDS TransactionPath, Hex, FoldLemmas, SequenceTheorems, TLAPS

-----------------------------------------------------------------------------
(***************************************************************************)
(* The wire.                                                               *)
(***************************************************************************)
\* The fields a struct and a message have, whatever they hold.
IsTx(tx) ==
    tx = [nonce |-> tx.nonce, expiry_block |-> tx.expiry_block,
          source_address |-> tx.source_address,
          dest_address |-> tx.dest_address,
          value |-> tx.value, fee |-> tx.fee, signature |-> tx.signature]

\* A field that is left out is one that unpack fills in.
LEMMA FieldSurvives ==
    ASSUME NEW pt, NEW n \in Numbers,
           IsDefault(Fields[n], pt[Fields[n]]) =>
               pt[Fields[n]] = Default(Fields[n])
    PROVE  FieldOf(protobuf_c_message_pack(pt), n) = pt[Fields[n]]
<1>. DEFINE kept == {m \in Numbers : ~IsDefault(Fields[m], pt[Fields[m]])}
            wired == [m \in kept |-> pt[Fields[m]]]
<1>1. protobuf_c_message_pack(pt) = wired /\ DOMAIN wired = kept
  BY DEF protobuf_c_message_pack
<1>2. CASE n \in kept
  BY <1>1, <1>2 DEF FieldOf
<1>3. CASE n \notin kept
  BY <1>1, <1>3 DEF FieldOf
<1>. QED
  BY <1>2, <1>3

LEMMA MessageRoundTrip ==
    ASSUME NEW tx, IsTx(tx), NEW pubkey
    PROVE  protobuf_c_message_unpack(protobuf_c_message_pack(
               PbOfGenerator(tx, pubkey))) = PbOfGenerator(tx, pubkey)
<1>. DEFINE pt == PbOfGenerator(tx, pubkey)
<1>1. pt = [nonce |-> tx.nonce, expiry_block |-> tx.expiry_block,
            source_address |-> Bytes(20, tx.source_address),
            dest_address |-> Bytes(20, tx.dest_address),
            value |-> tx.value, fee |-> tx.fee,
            signature |-> IF tx.signature = Zero THEN Bytes(0, Zero)
                          ELSE Bytes(64, tx.signature),
            public_key |-> Bytes(32, pubkey)]
  BY DEF PbOfGenerator, PbOfTx
<1>. HIDE DEF pt
<1>2. /\ Fields[1] = "nonce" /\ Fields[2] = "expiry_block"
      /\ Fields[3] = "source_address" /\ Fields[4] = "dest_address"
      /\ Fields[5] = "value" /\ Fields[6] = "fee"
      /\ Fields[7] = "signature" /\ Fields[8] = "public_key"
  BY DEF Fields
<1>3. ASSUME NEW n \in Numbers
      PROVE  IsDefault(Fields[n], pt[Fields[n]]) => pt[Fields[n]] = Default(Fields[n])
  <2>1. CASE n \in {1, 2, 5, 6}
    BY <1>2, <2>1 DEF IsDefault, Default, BytesFields
  <2>2. CASE n \in {3, 4, 8}
    BY <1>1, <1>2, <2>2 DEF IsDefault, Default, BytesFields, Bytes
  <2>3. CASE n = 7
    BY <1>1, <1>2, <2>3 DEF IsDefault, Default, BytesFields, Bytes
  <2>. QED
    BY <2>1, <2>2, <2>3 DEF Numbers
<1>4. \A n \in Numbers : FieldOf(protobuf_c_message_pack(pt), n) = pt[Fields[n]]
  BY <1>3, FieldSurvives
<1>5. 1 \in Numbers /\ 2 \in Numbers /\ 3 \in Numbers /\ 4 \in Numbers
      /\ 5 \in Numbers /\ 6 \in Numbers /\ 7 \in Numbers /\ 8 \in Numbers
  BY DEF Numbers
<1>. DEFINE w == protobuf_c_message_pack(pt)
<1>6. /\ FieldOf(w, 1) = pt.nonce /\ FieldOf(w, 2) = pt.expiry_block
      /\ FieldOf(w, 3) = pt.source_address /\ FieldOf(w, 4) = pt.dest_address
      /\ FieldOf(w, 5) = pt.value /\ FieldOf(w, 6) = pt.fee
      /\ FieldOf(w, 7) = pt.signature /\ FieldOf(w, 8) = pt.public_key
  BY <1>2, <1>4, <1>5
<1>. HIDE DEF w
<1>7. protobuf_c_message_unpack(w) = pt
  BY <1>1, <1>6 DEF protobuf_c_message_unpack
<1>. QED
  BY <1>7 DEF w, pt

\* What the generator packs (main.c:183) is what the receiver has after pb_to_tx
\* (receiver.c:78): every field, zeros and the missing signature included, and
\* the key beside it.
THEOREM WireRoundTrip ==
    ASSUME NEW tx, IsTx(tx), NEW pubkey
    PROVE  LET pt == protobuf_c_message_unpack(protobuf_c_message_pack(
                         PbOfGenerator(tx, pubkey)))
           IN  pb_to_tx(pt) = tx /\ PubkeyOf(pt) = pubkey
<1>. DEFINE pt == PbOfGenerator(tx, pubkey)
<1>1. protobuf_c_message_unpack(protobuf_c_message_pack(pt)) = pt
  BY MessageRoundTrip
<1>2. /\ pt.nonce = tx.nonce /\ pt.expiry_block = tx.expiry_block
      /\ pt.value = tx.value /\ pt.fee = tx.fee
      /\ pt.source_address = Bytes(20, tx.source_address)
      /\ pt.dest_address = Bytes(20, tx.dest_address)
      /\ pt.signature = IF tx.signature = Zero THEN Bytes(0, Zero)
                        ELSE Bytes(64, tx.signature)
      /\ pt.public_key = Bytes(32, pubkey)
  BY DEF PbOfGenerator, PbOfTx
<1>. HIDE DEF pt
<1>3. CopyIfLong(pt.source_address, 20) = tx.source_address
  BY <1>2 DEF CopyIfLong, Bytes
<1>4. CopyIfLong(pt.dest_address, 20) = tx.dest_address
  BY <1>2 DEF CopyIfLong, Bytes
<1>5. CopyIfLong(pt.public_key, 32) = pubkey
  BY <1>2 DEF CopyIfLong, Bytes
<1>6. /\ pt.signature.len \notin 1..63
      /\ CopyIfLong(pt.signature, 64) = tx.signature
  <2>1. CASE tx.signature = Zero
    BY <1>2, <2>1 DEF CopyIfLong, Bytes
  <2>2. CASE tx.signature # Zero
    BY <1>2, <2>2 DEF CopyIfLong, Bytes
  <2>. QED
    BY <2>1, <2>2
<1>7. pb_to_tx(pt) = tx
  BY <1>2, <1>3, <1>4, <1>6 DEF pb_to_tx, IsTx
<1>. QED
  BY <1>1, <1>5, <1>7 DEF PubkeyOf, pt

-----------------------------------------------------------------------------
(***************************************************************************)
(* Signatures.                                                             *)
(***************************************************************************)
LEMMA SignatureParts ==
    ASSUME NEW k, NEW hash
    PROVE  /\ Signature(k, hash).key = k /\ Signature(k, hash).over = hash
           /\ Signature(k, hash) # Zero
<1>1. Signature(k, hash).is = "signature" /\ Zero.is = "zero"
  BY DEF Signature, Zero
<1>2. Signature(k, hash) # Zero
  BY <1>1
<1>. QED
  BY <1>2 DEF Signature

LEMMA PublicKeyNotZero == \A k : PublicKey(k) # Zero
<1>1. \A k : PublicKey(k).is = "pubkey" /\ Zero.is = "zero"
  BY DEF PublicKey, Zero
<1>. QED
  BY <1>1

\* What a wallet with a key signs verifies under its public key and the address
\* that goes with it (transaction.c:137, transaction.c:158).
THEOREM SignedVerifies ==
    ASSUME NEW w, w.evp_key \in Key,
           w.address = wallet_derive_address(PublicKey(w.evp_key)),
           NEW dest, NEW value, NEW fee, NEW nonce, NEW height
    PROVE  Verdict(transaction_create(w, dest, value, fee, nonce, height, TRUE),
                   PublicKey(w.evp_key))
<1>. DEFINE unsigned == transaction_create_from_address(w.address, dest, value,
                                                        fee, nonce, height)
            tx == transaction_create(w, dest, value, fee, nonce, height, TRUE)
            pk == PublicKey(w.evp_key)
<1>1. w.evp_key # NoKey
  BY KeyAssumption
<1>2. tx = [unsigned EXCEPT !.signature =
              Signature(w.evp_key, transaction_compute_hash(unsigned))]
  BY <1>1 DEF transaction_create, transaction_sign, wallet_sign
<1>3. /\ tx.source_address = wallet_derive_address(pk)
      /\ tx.signature = Signature(w.evp_key, transaction_compute_hash(unsigned))
      /\ transaction_compute_hash(tx) = transaction_compute_hash(unsigned)
  BY <1>2 DEF transaction_create_from_address, transaction_compute_hash
<1>4. pk # Zero /\ tx.signature # Zero
  <2>. DEFINE hash == transaction_compute_hash(unsigned)
  <2>1. Signature(w.evp_key, hash) # Zero
    BY SignatureParts
  <2>2. PublicKey(w.evp_key) # Zero
    BY PublicKeyNotZero
  <2>. HIDE DEF hash
  <2>3. tx.signature = Signature(w.evp_key, hash)
    BY <1>3 DEF hash
  <2>. HIDE DEF tx, unsigned
  <2>. QED
    BY <2>1, <2>2, <2>3
<1>. HIDE DEF tx, unsigned
<1>5. wallet_verify(pk, transaction_compute_hash(tx), tx.signature)
  BY <1>3 DEF wallet_verify
<1>6. transaction_verify_ed25519(tx, pk)
  BY <1>3, <1>4, <1>5 DEF transaction_verify_ed25519
<1>. QED
  BY <1>4, <1>6 DEF Verdict, tx

\* One signature is good for one transaction and one key: the hash it is over
\* (transaction.c:112) leaves out no field that a receiver acts on.
THEOREM SignatureCommits ==
    ASSUME NEW tx1, NEW tx2, IsTx(tx1), IsTx(tx2),
           ~TX_IS_COINBASE(tx1), ~TX_IS_COINBASE(tx2),
           NEW pk1, NEW pk2,
           transaction_verify_ed25519(tx1, pk1),
           transaction_verify_ed25519(tx2, pk2),
           tx1.signature = tx2.signature
    PROVE  tx1 = tx2 /\ pk1 = pk2
<1>1. PICK k1 \in Key :
        pk1 = PublicKey(k1) /\ tx1.signature = Signature(k1, transaction_compute_hash(tx1))
  BY DEF transaction_verify_ed25519, wallet_verify
<1>2. PICK k2 \in Key :
        pk2 = PublicKey(k2) /\ tx2.signature = Signature(k2, transaction_compute_hash(tx2))
  BY DEF transaction_verify_ed25519, wallet_verify
<1>3. k1 = k2 /\ transaction_compute_hash(tx1) = transaction_compute_hash(tx2)
  <2>1. /\ tx1.signature.key = k1 /\ tx2.signature.key = k2
        /\ tx1.signature.over = transaction_compute_hash(tx1)
        /\ tx2.signature.over = transaction_compute_hash(tx2)
    <3>. DEFINE h1 == transaction_compute_hash(tx1)
                h2 == transaction_compute_hash(tx2)
    <3>1. /\ Signature(k1, h1).key = k1 /\ Signature(k1, h1).over = h1
          /\ Signature(k2, h2).key = k2 /\ Signature(k2, h2).over = h2
      BY SignatureParts
    <3>. QED
      BY <1>1, <1>2, <3>1
  <2>. QED
    BY <2>1
<1>4. /\ tx1.nonce = tx2.nonce /\ tx1.expiry_block = tx2.expiry_block
      /\ tx1.source_address = tx2.source_address
      /\ tx1.dest_address = tx2.dest_address
      /\ tx1.value = tx2.value /\ tx1.fee = tx2.fee
  <2>. DEFINE h1 == transaction_compute_hash(tx1)
              h2 == transaction_compute_hash(tx2)
  <2>1. /\ h1.nonce = tx1.nonce /\ h1.expiry_block = tx1.expiry_block
        /\ h1.source_address = tx1.source_address
        /\ h1.dest_address = tx1.dest_address
        /\ h1.value = tx1.value /\ h1.fee = tx1.fee
    BY DEF transaction_compute_hash
  <2>2. /\ h2.nonce = tx2.nonce /\ h2.expiry_block = tx2.expiry_block
        /\ h2.source_address = tx2.source_address
        /\ h2.dest_address = tx2.dest_address
        /\ h2.value = tx2.value /\ h2.fee = tx2.fee
    BY DEF transaction_compute_hash
  <2>. HIDE DEF h1, h2
  <2>3. h1 = h2
    BY <1>3 DEF h1, h2
  <2>. QED
    BY <2>1, <2>2, <2>3
<1>5. tx1 = tx2
  BY <1>4 DEF IsTx
<1>. QED
  BY <1>1, <1>2, <1>3, <1>5

-----------------------------------------------------------------------------
(***************************************************************************)
(* The wallet and its file.                                                *)
(***************************************************************************)
HasPem(w) == w.private_key_pem.is = "pem"

\* A key and its PEM text come together, and with the address.
WalletOK(w) ==
    /\ w = [name |-> w.name, evp_key |-> w.evp_key, public_key |-> w.public_key,
            address |-> w.address, address_hex |-> w.address_hex,
            private_key_pem |-> w.private_key_pem, nonce |-> w.nonce]
    /\ w.evp_key # NoKey => HasPem(w)
    /\ HasPem(w) =>
         /\ w.evp_key \in Key
         /\ w.private_key_pem = Pem(w.evp_key)
         /\ w.public_key = PublicKey(w.evp_key)
         /\ w.address = wallet_derive_address(w.public_key)
         /\ w.address_hex = HexOf(w.address)

LEMMA WithKeyOK ==
    ASSUME NEW name, NEW k \in Key
    PROVE  WalletOK(WithKey(name, k))
  BY DEF WalletOK, WithKey, HasPem, Pem

\* The loop of Loaded, unrolled.
After1(items) == LoadItem(Blank, items[1])
After2(items) == LoadItem(After1(items), items[2])
After3(items) == LoadItem(After2(items), items[3])
After4(items) == LoadItem(After3(items), items[4])

After(items, n) ==
    IF n = 0 THEN Blank ELSE IF n = 1 THEN After1(items)
    ELSE IF n = 2 THEN After2(items) ELSE IF n = 3 THEN After3(items)
    ELSE After4(items)

LoadLoop(items, m, f) ==
    f = [n \in 0..m |-> IF n = 0 THEN Blank ELSE LoadItem(f[n - 1], items[n])]

LEMMA LoadedIsAfter ==
    ASSUME NEW items, Len(items) \in 0..4
    PROVE  Loaded(items) = After(items, Len(items))
<1>. DEFINE m == Len(items)
            after == CHOOSE f : LoadLoop(items, m, f)
            witness == [n \in 0..m |-> After(items, n)]
            step == [n \in 0..m |-> IF n = 0 THEN Blank
                                    ELSE LoadItem(witness[n - 1], items[n])]
<1>1. m \in 0..4
  OBVIOUS
<1>2. Loaded(items) = after[m]
  BY DEF Loaded, LoadLoop
<1>. HIDE DEF m
<1>3. ASSUME NEW n \in 0..m PROVE witness[n] = step[n]
  <2>1. n \in {0, 1, 2, 3, 4}
    BY <1>1
  <2>2. CASE n = 0
    BY <2>2 DEF After
  <2>3. CASE n # 0
    <3>1. n - 1 \in 0..m /\ n \in 1..4
      BY <1>1, <2>3
    <3>2. step[n] = LoadItem(After(items, n - 1), items[n])
      BY <2>3, <3>1
    <3>3. After(items, n) = LoadItem(After(items, n - 1), items[n])
      <4>1. n = 1 \/ n = 2 \/ n = 3 \/ n = 4
        BY <3>1
      <4>. QED
        BY <4>1 DEF After, After1, After2, After3, After4
    <3>. QED
      BY <3>2, <3>3
  <2>. QED
    BY <2>2, <2>3
<1>4. witness = step
  <2>1. /\ witness = [n \in 0..m |-> witness[n]]
        /\ step = [n \in 0..m |-> step[n]]
    OBVIOUS
  <2>. HIDE DEF witness, step
  <2>. QED
    BY <1>3, <2>1
<1>5. LoadLoop(items, m, witness)
  BY <1>4 DEF LoadLoop
<1>. HIDE DEF witness, step
<1>6. LoadLoop(items, m, after)
  BY <1>5
<1>. HIDE DEF after
<1>7. /\ after[0] = Blank
      /\ \A n \in 1..m : after[n] = LoadItem(after[n - 1], items[n])
  <2>1. 0 \in 0..m /\ \A n \in 1..m : n \in 0..m /\ n # 0
    BY <1>1
  <2>. QED
    BY <1>6, <2>1 DEF LoadLoop
<1>8. after[m] = After(items, m)
  <2>1. m >= 1 => after[1] = After1(items)
    BY <1>1, <1>7 DEF After1
  <2>2. m >= 2 => after[2] = After2(items)
    BY <1>1, <1>7, <2>1 DEF After2
  <2>3. m >= 3 => after[3] = After3(items)
    BY <1>1, <1>7, <2>2 DEF After3
  <2>4. m >= 4 => after[4] = After4(items)
    BY <1>1, <1>7, <2>3 DEF After4
  <2>. QED
    BY <1>1, <1>7, <2>1, <2>2, <2>3, <2>4 DEF After
<1>. QED
  BY <1>2, <1>8 DEF m

\* Loading the first three lines gives no key.
Keyless(w) ==
    /\ w = [name |-> w.name, evp_key |-> w.evp_key, public_key |-> w.public_key,
            address |-> w.address, address_hex |-> w.address_hex,
            private_key_pem |-> w.private_key_pem, nonce |-> w.nonce]
    /\ w.evp_key = NoKey
    /\ w.private_key_pem = NoText

LEMMA KeylessSteps ==
    ASSUME NEW w, Keyless(w), NEW t
    PROVE  /\ Keyless(LoadName(w, t)) /\ Keyless(LoadAddress(w, t))
           /\ Keyless([w EXCEPT !.nonce = t])
           /\ WalletOK(w)
<1>1. Keyless(LoadName(w, t))
  BY DEF Keyless, LoadName
<1>2. Keyless(LoadAddress(w, t))
  <2>. DEFINE to == IF t.is = "hex" THEN t.of ELSE w.address
  <2>1. LoadAddress(w, t) = [w EXCEPT !.address_hex = t, !.address = to]
    BY DEF LoadAddress, Keyless
  <2>. HIDE DEF to
  <2>. QED
    BY <2>1 DEF Keyless
<1>3. Keyless([w EXCEPT !.nonce = t])
  BY DEF Keyless
<1>4. ~HasPem(w)
  BY DEF Keyless, HasPem, NoText
<1>5. WalletOK(w)
  BY <1>4 DEF Keyless, WalletOK
<1>. QED
  BY <1>1, <1>2, <1>3, <1>5

LEMMA KeyStep ==
    ASSUME NEW w, Keyless(w), NEW t, t.is # "pem"
    PROVE  WalletOK(LoadKey(w, t)) /\ LoadKey(w, t).evp_key = NoKey
<1>. DEFINE v == LoadKey(w, t)
<1>1. v = [w EXCEPT !.private_key_pem = t]
  BY DEF LoadKey
<1>2. v.evp_key = NoKey /\ ~HasPem(v)
  BY <1>1 DEF Keyless, HasPem
<1>3. v = [name |-> v.name, evp_key |-> v.evp_key, public_key |-> v.public_key,
           address |-> v.address, address_hex |-> v.address_hex,
           private_key_pem |-> v.private_key_pem, nonce |-> v.nonce]
  BY <1>1 DEF Keyless
<1>. HIDE DEF v
<1>. QED
  BY <1>2, <1>3 DEF WalletOK, v

\* A line that was not written to its end.
LEMMA BrokenTag ==
    ASSUME NEW e, NEW i \in BrokenItems(e)
    PROVE  /\ i.tag = e.tag
           /\ e.tag = "PRIVATE_KEY" => i = Item("PRIVATE_KEY", Broken)
           /\ e.tag = "ADDRESS" => i = Item("ADDRESS", Broken)
<1>1. CASE e.tag = "NONCE"
  BY <1>1 DEF BrokenItems, Item
<1>2. CASE e.tag = "NAME"
  BY <1>2 DEF BrokenItems, Item
<1>3. CASE e.tag # "NONCE" /\ e.tag # "NAME"
  BY <1>3 DEF BrokenItems, Item
<1>. QED
  BY <1>1, <1>2, <1>3

\* The lines of a file.
LEMMA Lines ==
    ASSUME NEW w
    PROVE  LET text == Text(w)
           IN  /\ Len(text) = 4 /\ \E S : text \in Seq(S)
               /\ text[1].tag = "NAME" /\ text[1].text = w.name
               /\ text[2].tag = "ADDRESS" /\ text[2].text = w.address_hex
               /\ text[3].tag = "NONCE" /\ text[3].text = w.nonce
               /\ text[4].tag = "PRIVATE_KEY" /\ text[4].text = w.private_key_pem
<1>. DEFINE a == Item("NAME", w.name)
            b == Item("ADDRESS", w.address_hex)
            c == Item("NONCE", w.nonce)
            d == Item("PRIVATE_KEY", w.private_key_pem)
<1>1. Text(w) = <<a, b, c, d>>
  BY DEF Text
<1>2. /\ a.tag = "NAME" /\ a.text = w.name
      /\ b.tag = "ADDRESS" /\ b.text = w.address_hex
      /\ c.tag = "NONCE" /\ c.text = w.nonce
      /\ d.tag = "PRIVATE_KEY" /\ d.text = w.private_key_pem
  BY DEF Item
<1>. HIDE DEF a, b, c, d
<1>3. <<a, b, c, d>> \in Seq({a, b, c, d})
  OBVIOUS
<1>4. Len(Text(w)) = 4 /\ \E S : Text(w) \in Seq(S)
  BY <1>1, <1>3
<1>5. /\ Text(w)[1] = a /\ Text(w)[2] = b /\ Text(w)[3] = c /\ Text(w)[4] = d
  BY <1>1
<1>. QED
  BY <1>2, <1>4, <1>5

\* What a beginning of a file looks like: its lines are the text's, up to the
\* last one, which may be broken.
LEMMA FileShape ==
    ASSUME NEW w, NEW items \in Beginnings(Text(w))
    PROVE  /\ Len(items) \in 0..4
           /\ \A j \in 1..Len(items) : items[j].tag = Text(w)[j].tag
           /\ Len(items) >= 2 => \/ items[2] = Text(w)[2]
                                 \/ items[2] = Item("ADDRESS", Broken)
           /\ Len(items) = 4 => \/ \A j \in 1..4 : items[j] = Text(w)[j]
                                \/ items[4] = Item("PRIVATE_KEY", Broken)
<1>. DEFINE text == Text(w)
<1>1. Len(text) = 4 /\ text[4].tag = "PRIVATE_KEY" /\ text[2].tag = "ADDRESS"
  BY Lines
<1>2. PICK S : text \in Seq(S)
  BY Lines
<1>3. \/ \E n \in 0..4 : items = SubSeq(text, 1, n)
      \/ \E n \in 1..4 : \E i \in BrokenItems(text[n]) :
           items = Append(SubSeq(text, 1, n - 1), i)
  BY <1>1 DEF Beginnings
<1>. HIDE DEF text
<1>4. ASSUME NEW n \in 0..4
      PROVE  /\ SubSeq(text, 1, n) \in Seq(S) /\ Len(SubSeq(text, 1, n)) = n
             /\ \A j \in 1..n : SubSeq(text, 1, n)[j] = text[j]
  <2>1. \A j \in 1..n : text[j] \in S
    <3>. TAKE j \in 1..n
    <3>1. j \in 1..4
      OBVIOUS
    <3>2. j \in 1..Len(text)
      BY <1>1, <3>1
    <3>. QED
      BY <1>2, <3>2
  <2>2. 1 \in Int /\ n \in Int /\ (IF 1 <= n THEN n - 1 + 1 ELSE 0) = n
    OBVIOUS
  <2>3. \A j \in 1..n : j \in 1 .. n - 1 + 1 /\ 1 + j - 1 = j
    OBVIOUS
  <2>4. /\ SubSeq(text, 1, n) \in Seq(S)
        /\ Len(SubSeq(text, 1, n)) = IF 1 <= n THEN n - 1 + 1 ELSE 0
        /\ \A j \in 1 .. n - 1 + 1 : SubSeq(text, 1, n)[j] = text[1 + j - 1]
    BY <2>1, <2>2, SubSeqProperties
  <2>. QED
    BY <2>2, <2>3, <2>4
<1>5. CASE \E n \in 0..4 : items = SubSeq(text, 1, n)
  <2>1. PICK n \in 0..4 : items = SubSeq(text, 1, n)
    BY <1>5
  <2>2. Len(items) = n /\ \A j \in 1..n : items[j] = text[j]
    BY <1>4, <2>1
  <2>. QED
    BY <2>2 DEF text
<1>6. CASE \E n \in 1..4 : \E i \in BrokenItems(text[n]) :
             items = Append(SubSeq(text, 1, n - 1), i)
  <2>1. PICK n \in 1..4 : \E i \in BrokenItems(text[n]) :
                            items = Append(SubSeq(text, 1, n - 1), i)
    BY <1>6
  <2>2. PICK i \in BrokenItems(text[n]) : items = Append(SubSeq(text, 1, n - 1), i)
    BY <2>1
  <2>3. i.tag = text[n].tag
    BY BrokenTag
  <2>4. /\ n = 4 => i = Item("PRIVATE_KEY", Broken)
        /\ n = 2 => i = Item("ADDRESS", Broken)
    BY <1>1, BrokenTag
  <2>. DEFINE before == SubSeq(text, 1, n - 1)
              U == S \cup {i}
  <2>5. /\ before \in Seq(S) /\ Len(before) = n - 1
        /\ \A j \in 1 .. n - 1 : before[j] = text[j]
    <3>1. n - 1 \in 0..4
      OBVIOUS
    <3>. QED
      BY <1>4, <3>1
  <2>. HIDE DEF before
  <2>6. before \in Seq(U) /\ i \in U
    BY <2>5
  <2>. HIDE DEF U
  <2>7. /\ Len(items) = n /\ items[n] = i
        /\ \A j \in 1 .. n - 1 : items[j] = text[j]
    <3>1. items = Append(before, i)
      BY <2>2 DEF before
    <3>. QED
      BY <2>5, <2>6, <3>1
  <2>8. \A j \in 1..n : items[j].tag = text[j].tag
    <3>. TAKE j \in 1..n
    <3>1. j = n \/ j \in 1 .. n - 1
      OBVIOUS
    <3>. QED
      BY <2>3, <2>7, <3>1
  <2>. QED
    BY <2>4, <2>7, <2>8 DEF text
<1>. QED
  BY <1>3, <1>5, <1>6

LEMMA ItemSteps ==
    ASSUME NEW w, NEW i
    PROVE  /\ i.tag = "NAME" => LoadItem(w, i) = LoadName(w, i.text)
           /\ i.tag = "ADDRESS" => LoadItem(w, i) = LoadAddress(w, i.text)
           /\ i.tag = "NONCE" => LoadItem(w, i) = [w EXCEPT !.nonce = i.text]
           /\ i.tag = "PRIVATE_KEY" => LoadItem(w, i) = LoadKey(w, i.text)
  BY DEF LoadItem

\* The loop item by item: before the last one the wallet has no key.
LEMMA LoadSteps ==
    ASSUME NEW w, NEW items \in Beginnings(Text(w))
    PROVE  /\ Keyless(Blank)
           /\ Len(items) >= 1 => /\ After1(items) = LoadName(Blank, items[1].text)
                                 /\ Keyless(After1(items))
           /\ Len(items) >= 2 => /\ After2(items) = LoadAddress(After1(items), items[2].text)
                                 /\ Keyless(After2(items))
           /\ Len(items) >= 3 => /\ After3(items) = [After2(items) EXCEPT !.nonce = items[3].text]
                                 /\ Keyless(After3(items))
           /\ Len(items) >= 4 => After4(items) = LoadKey(After3(items), items[4].text)
<1>. DEFINE w1 == After1(items)  w2 == After2(items)  w3 == After3(items)
            w4 == After4(items)
            text == Text(w)
<1>1. /\ Len(items) \in 0..4
      /\ \A j \in 1..Len(items) : items[j].tag = text[j].tag
      /\ Len(items) = 4 => \/ \A j \in 1..4 : items[j] = text[j]
                           \/ items[4] = Item("PRIVATE_KEY", Broken)
  BY FileShape
<1>2. /\ text[1].tag = "NAME" /\ text[2].tag = "ADDRESS"
      /\ text[3].tag = "NONCE" /\ text[4].tag = "PRIVATE_KEY"
  BY Lines
<1>. HIDE DEF text
<1>3. /\ Len(items) >= 1 => items[1].tag = "NAME"
      /\ Len(items) >= 2 => items[2].tag = "ADDRESS"
      /\ Len(items) >= 3 => items[3].tag = "NONCE"
      /\ Len(items) >= 4 => items[4].tag = "PRIVATE_KEY"
  BY <1>1, <1>2
<1>4. Keyless(Blank)
  BY DEF Keyless, Blank
<1>5. Len(items) >= 1 => w1 = LoadName(Blank, items[1].text) /\ Keyless(w1)
  <2>. SUFFICES ASSUME Len(items) >= 1
                PROVE  w1 = LoadName(Blank, items[1].text) /\ Keyless(w1)
    OBVIOUS
  <2>1. w1 = LoadName(Blank, items[1].text)
    BY <1>3, ItemSteps DEF After1
  <2>. HIDE DEF w1
  <2>. QED
    BY <1>4, <2>1, KeylessSteps
<1>6. Len(items) >= 2 => w2 = LoadAddress(w1, items[2].text) /\ Keyless(w2)
  <2>. SUFFICES ASSUME Len(items) >= 2
                PROVE  w2 = LoadAddress(w1, items[2].text) /\ Keyless(w2)
    OBVIOUS
  <2>1. items[2].tag = "ADDRESS" /\ Keyless(w1)
    BY <1>1, <1>3, <1>5
  <2>2. w2 = LoadAddress(w1, items[2].text)
    BY <2>1, ItemSteps DEF After2
  <2>. HIDE DEF w1, w2
  <2>. QED
    BY <2>1, <2>2, KeylessSteps
<1>7. Len(items) >= 3 => w3 = [w2 EXCEPT !.nonce = items[3].text] /\ Keyless(w3)
  <2>. SUFFICES ASSUME Len(items) >= 3
                PROVE  w3 = [w2 EXCEPT !.nonce = items[3].text] /\ Keyless(w3)
    OBVIOUS
  <2>1. items[3].tag = "NONCE" /\ Keyless(w2)
    BY <1>1, <1>3, <1>6
  <2>2. w3 = [w2 EXCEPT !.nonce = items[3].text]
    BY <2>1, ItemSteps DEF After3
  <2>. HIDE DEF w2, w3
  <2>. QED
    BY <2>1, <2>2, KeylessSteps
<1>8. Len(items) >= 4 => w4 = LoadKey(w3, items[4].text)
  BY <1>3, ItemSteps DEF After4
<1>. QED
  BY <1>4, <1>5, <1>6, <1>7, <1>8

\* A file that was cut off gives no key; all of it gives the wallet back.
LEMMA LoadedOK ==
    ASSUME NEW w, WalletOK(w), NEW items \in Beginnings(Text(w))
    PROVE  /\ WalletOK(Loaded(items))
           /\ Loaded(items).evp_key # NoKey => Loaded(items) = LoadName(w, w.name)
<1>. DEFINE w1 == After1(items)  w2 == After2(items)  w3 == After3(items)
            w4 == After4(items)
            text == Text(w)
<1>1. /\ Len(items) \in 0..4
      /\ Len(items) = 4 => \/ \A j \in 1..4 : items[j] = text[j]
                           \/ items[4] = Item("PRIVATE_KEY", Broken)
  BY FileShape
<1>. HIDE DEF text
<1>4. Keyless(Blank)
  BY LoadSteps
<1>5. Len(items) >= 1 => w1 = LoadName(Blank, items[1].text) /\ Keyless(w1)
  BY LoadSteps
<1>6. Len(items) >= 2 => w2 = LoadAddress(w1, items[2].text) /\ Keyless(w2)
  BY LoadSteps
<1>7. Len(items) >= 3 => w3 = [w2 EXCEPT !.nonce = items[3].text] /\ Keyless(w3)
  BY LoadSteps
<1>8. Len(items) >= 4 => w4 = LoadKey(w3, items[4].text)
  BY LoadSteps
<1>9. Loaded(items) = After(items, Len(items))
  BY <1>1, LoadedIsAfter
<1>10. CASE Len(items) # 4
  <2>1. Keyless(Loaded(items))
    <3>. HIDE DEF w1, w2, w3
    <3>1. /\ After(items, 0) = Blank /\ After(items, 1) = w1
          /\ After(items, 2) = w2 /\ After(items, 3) = w3
      BY DEF After, w1, w2, w3
    <3>2. Len(items) \in {0, 1, 2, 3}
      BY <1>1, <1>10
    <3>3. CASE Len(items) = 0
      BY <1>4, <1>9, <3>1, <3>3
    <3>4. CASE Len(items) = 1
      BY <1>5, <1>9, <3>1, <3>4
    <3>5. CASE Len(items) = 2
      BY <1>6, <1>9, <3>1, <3>5
    <3>6. CASE Len(items) = 3
      BY <1>7, <1>9, <3>1, <3>6
    <3>. QED
      BY <3>2, <3>3, <3>4, <3>5, <3>6
  <2>. DEFINE v == Loaded(items)
  <2>. HIDE DEF v
  <2>2. Keyless(v)
    BY <2>1 DEF v
  <2>3. WalletOK(v) /\ v.evp_key = NoKey
    BY <2>2, KeylessSteps DEF Keyless
  <2>. QED
    BY <2>3 DEF v
<1>11. CASE Len(items) = 4
  <2>1. /\ w1 = LoadName(Blank, items[1].text)
        /\ w2 = LoadAddress(w1, items[2].text)
        /\ w3 = [w2 EXCEPT !.nonce = items[3].text]
        /\ w4 = LoadKey(w3, items[4].text)
        /\ Keyless(w3)
    BY <1>5, <1>6, <1>7, <1>8, <1>11
  <2>2. Loaded(items) = w4
    BY <1>9, <1>11 DEF After
  <2>. HIDE DEF w1, w2, w3, w4
  <2>3. CASE items[4].text.is # "pem"
    <3>1. WalletOK(w4) /\ w4.evp_key = NoKey
      BY <2>1, <2>3, KeyStep
    <3>. QED
      BY <2>2, <3>1
  <2>4. CASE items[4].text.is = "pem"
    <3>1. items[4] # Item("PRIVATE_KEY", Broken)
      <4>1. Item("PRIVATE_KEY", Broken).text.is = "broken"
        BY DEF Item, Broken
      <4>. QED
        BY <2>4, <4>1
    <3>2. /\ items[1] = text[1] /\ items[2] = text[2]
          /\ items[3] = text[3] /\ items[4] = text[4]
      BY <1>1, <1>11, <3>1
    <3>3. /\ items[1].text = w.name /\ items[2].text = w.address_hex
          /\ items[3].text = w.nonce /\ items[4].text = w.private_key_pem
      BY <3>2, Lines DEF text
    <3>4. /\ w.evp_key \in Key /\ w.private_key_pem = Pem(w.evp_key)
          /\ w.public_key = PublicKey(w.evp_key)
          /\ w.address = wallet_derive_address(w.public_key)
          /\ w.address_hex = HexOf(w.address)
      BY <2>4, <3>3 DEF WalletOK, HasPem
    <3>5. /\ w.evp_key # NoKey
          /\ w.private_key_pem.is = "pem" /\ w.private_key_pem.key = w.evp_key
          /\ w.address_hex.is = "hex" /\ w.address_hex.of = w.address
      BY <3>4, KeyAssumption DEF Pem, HexOf
    <3>. DEFINE name == IF w.name = None THEN None ELSE Trimmed[w.name]
    <3>6. w1 = [Blank EXCEPT !.name = name]
      BY <2>1, <3>3 DEF LoadName
    <3>7. LoadName(w, w.name) = [w EXCEPT !.name = name]
      BY DEF LoadName
    <3>. HIDE DEF name
    <3>8. w2 = [name |-> name, evp_key |-> NoKey, public_key |-> Zero,
                address |-> w.address, address_hex |-> w.address_hex,
                private_key_pem |-> NoText, nonce |-> 0]
      BY <2>1, <3>3, <3>5, <3>6 DEF LoadAddress, Blank
    <3>9. w3 = [name |-> name, evp_key |-> NoKey, public_key |-> Zero,
                address |-> w.address, address_hex |-> w.address_hex,
                private_key_pem |-> NoText, nonce |-> w.nonce]
      BY <2>1, <3>3, <3>8
    <3>10. w4 = [name |-> name, evp_key |-> w.evp_key, public_key |-> w.public_key,
                 address |-> w.address, address_hex |-> w.address_hex,
                 private_key_pem |-> w.private_key_pem, nonce |-> w.nonce]
      <4>1. PublicKeyOf(w.private_key_pem.key) = w.public_key
        BY <3>4, <3>5 DEF PublicKeyOf
      <4>2. w4 = [w3 EXCEPT !.private_key_pem = w.private_key_pem,
                            !.evp_key = w.evp_key, !.public_key = w.public_key]
        BY <2>1, <3>3, <3>5, <4>1 DEF LoadKey
      <4>. QED
        BY <3>9, <4>2
    <3>11. w4 = [w EXCEPT !.name = name]
      BY <3>10 DEF WalletOK
    <3>12. WalletOK(w4)
      BY <3>4, <3>10 DEF WalletOK, HasPem
    <3>. QED
      BY <2>2, <3>7, <3>11, <3>12
  <2>. QED
    BY <2>3, <2>4
<1>. QED
  BY <1>10, <1>11

-----------------------------------------------------------------------------
(***************************************************************************)
(* The invariant: a wallet in memory is sound, and so was the one that the *)
(* file is a beginning of.                                                 *)
(***************************************************************************)
WalletInv ==
    /\ wallet # None => WalletOK(wallet)
    /\ saving => wallet # None /\ wallet = saved
    /\ file # None => WalletOK(saved) /\ file \in Beginnings(Text(saved))

LEMMA EmptyFile == \A w : <<>> \in Beginnings(Text(w))
<1>. SUFFICES ASSUME NEW w PROVE <<>> \in Beginnings(Text(w))
  OBVIOUS
<1>1. Len(Text(w)) = 4
  BY Lines
<1>2. SubSeq(Text(w), 1, 0) = <<>>
  BY SubSeqEmpty
<1>3. 0 \in 0..Len(Text(w))
  BY <1>1
<1>. QED
  BY <1>2, <1>3 DEF Beginnings

LEMMA WalletStepInv ==
    ASSUME WalletInv, WalletNext
    PROVE  WalletInv'
<1>1. ASSUME NEW n \in Names, CreateNamed(n) PROVE WalletInv'
  <2>1. WalletOK(wallet_create_named(n))
    <3>1. KeyOf[n] \in Key
      BY NamesAssumption
    <3>. QED
      BY <3>1, WithKeyOK DEF wallet_create_named
  <2>. QED
    BY <1>1, <2>1 DEF CreateNamed, WalletInv
<1>2. ASSUME NEW k \in Key, CreateRandom(k) PROVE WalletInv'
  BY <1>2, WithKeyOK DEF CreateRandom, WalletInv
<1>3. ASSUME NEW n, wallet # None, ~saving,
             wallet' = [wallet EXCEPT !.nonce = n],
             UNCHANGED <<saving, file, saved>>
      PROVE  WalletInv'
  <2>1. WalletOK(wallet')
    <3>1. WalletOK(wallet)
      BY <1>3 DEF WalletInv
    <3>. DEFINE w == [wallet EXCEPT !.nonce = n]
    <3>2. /\ w.name = wallet.name /\ w.evp_key = wallet.evp_key
          /\ w.public_key = wallet.public_key /\ w.address = wallet.address
          /\ w.address_hex = wallet.address_hex
          /\ w.private_key_pem = wallet.private_key_pem
          /\ w = [name |-> w.name, evp_key |-> w.evp_key,
                  public_key |-> w.public_key, address |-> w.address,
                  address_hex |-> w.address_hex,
                  private_key_pem |-> w.private_key_pem, nonce |-> w.nonce]
      BY <3>1 DEF WalletOK
    <3>. HIDE DEF w
    <3>3. WalletOK(w)
      BY <3>1, <3>2 DEF WalletOK, HasPem
    <3>. QED
      BY <1>3, <3>3 DEF w
  <2>. QED
    BY <1>3, <2>1 DEF WalletInv
<1>4. CASE GetNextNonce \/ (\E n \in 0..MaxNonce : SetNonce(n))
  BY <1>3, <1>4 DEF GetNextNonce, SetNonce
<1>5. CASE SaveOpen
  BY <1>5, EmptyFile DEF SaveOpen, WalletInv
<1>6. CASE SaveClose
  BY <1>6 DEF SaveClose, WalletInv
<1>7. CASE LoseMemory
  BY <1>7 DEF LoseMemory, WalletInv
<1>8. CASE Load
  <2>1. WalletOK(Loaded(file))
    BY <1>8, LoadedOK DEF Load, WalletInv
  <2>. QED
    BY <1>8, <2>1 DEF Load, WalletInv
<1>. QED
  BY <1>1, <1>2, <1>4, <1>5, <1>6, <1>7, <1>8 DEF WalletNext

LEMMA WalletInvStep == WalletInv /\ [PathNext]_pathVars => WalletInv'
<1>. SUFFICES ASSUME WalletInv, [PathNext]_pathVars PROVE WalletInv'
  OBVIOUS
<1>1. CASE WalletStep
  BY <1>1, WalletStepInv DEF WalletStep
<1>2. CASE UNCHANGED walletVars
  BY <1>2 DEF WalletInv, walletVars
<1>3. WalletStep \/ UNCHANGED walletVars
  BY DEF PathNext, MakeBatch, Receive, Worker, RunIteration, Join, Summarize, pathVars
<1>. QED
  BY <1>1, <1>2, <1>3

THEOREM WalletInvariance == PathSpec => []WalletInv
<1>1. PathInit => WalletInv
  BY DEF PathInit, WalletInit, WalletInv
<1>. QED
  BY <1>1, WalletInvStep, PTL DEF PathSpec

\* Whatever part of a file a wallet was loaded from (wallet.c:100), and however
\* often it was saved and cut off before, a key never goes with another address,
\* as long as names are single lines.
THEOREM KeysMatch == PathSpec => []KeyMatchesAddress
<1>1. WalletInv => KeyMatchesAddress
  BY DEF WalletInv, WalletOK, KeyMatchesAddress
<1>. QED
  BY <1>1, WalletInvariance, PTL

\* A load gives a wallet that cannot sign or all of the one that was saved
\* (wallet.c:85), its nonce included, as long as names are single lines.
THEOREM LoadsAllOrNone == PathSpec => LoadsAllOrNoKey
<1>1. WalletInv =>
        [wallet = None /\ file # None /\ wallet' = Loaded(file)
           /\ wallet'.evp_key # NoKey
         => wallet' = LoadName(saved, saved.name)]_walletVars
  BY LoadedOK DEF WalletInv
<1>. QED
  BY <1>1, WalletInvariance, PTL DEF LoadsAllOrNoKey

-----------------------------------------------------------------------------
(***************************************************************************)
(* No wallet has the coinbase address, with which a transaction would need *)
(* no signature: it is derived from a key, or zero.                        *)
(***************************************************************************)
NotCoinbase(w) ==
    /\ w.address # COINBASE_ADDRESS
    /\ w.address_hex.is = "hex" => w.address_hex.of # COINBASE_ADDRESS

LEMMA CoinbaseDiffers ==
    /\ Zero # COINBASE_ADDRESS
    /\ \A pubkey : wallet_derive_address(pubkey) # COINBASE_ADDRESS
<1>1. /\ Zero.is = "zero" /\ COINBASE_ADDRESS.is = "coinbase"
      /\ \A pubkey : wallet_derive_address(pubkey).is = "address"
  BY DEF Zero, COINBASE_ADDRESS, wallet_derive_address
<1>. QED
  BY <1>1

LEMMA WithKeyNotCoinbase ==
    ASSUME NEW name, NEW k
    PROVE  NotCoinbase(WithKey(name, k))
<1>. DEFINE a == wallet_derive_address(PublicKey(k))
            w == WithKey(name, k)
<1>1. a # COINBASE_ADDRESS
  BY CoinbaseDiffers
<1>2. w.address = a /\ w.address_hex = HexOf(a)
  BY DEF WithKey
<1>. HIDE DEF a, w
<1>3. w.address_hex.of = a
  BY <1>2 DEF HexOf
<1>4. NotCoinbase(w)
  BY <1>1, <1>2, <1>3 DEF NotCoinbase
<1>. QED
  BY <1>4 DEF w

\* The other lines leave the address alone.
LEMMA AddressKept ==
    ASSUME NEW w, Keyless(w), NEW t, NotCoinbase(w)
    PROVE  /\ NotCoinbase(LoadName(w, t))
           /\ NotCoinbase([w EXCEPT !.nonce = t])
           /\ NotCoinbase(LoadKey(w, t))
<1>1. LoadName(w, t).address = w.address /\ LoadName(w, t).address_hex = w.address_hex
  BY DEF LoadName, Keyless
<1>. DEFINE v == [w EXCEPT !.nonce = t]
<1>2. v.address = w.address /\ v.address_hex = w.address_hex
  BY DEF Keyless
<1>. DEFINE u == LoadKey(w, t)
<1>3. u.address = w.address /\ u.address_hex = w.address_hex
  BY DEF LoadKey, Keyless
<1>. HIDE DEF v, u
<1>4. NotCoinbase(v) /\ NotCoinbase(u)
  BY <1>2, <1>3 DEF NotCoinbase
<1>. QED
  BY <1>1, <1>4 DEF NotCoinbase, v, u

LEMMA LoadedNotCoinbase ==
    ASSUME NEW w, NotCoinbase(w), NEW items \in Beginnings(Text(w))
    PROVE  NotCoinbase(Loaded(items))
<1>. DEFINE w1 == After1(items)  w2 == After2(items)  w3 == After3(items)
            w4 == After4(items)
<1>1. /\ Len(items) \in 0..4
      /\ Len(items) >= 2 => \/ items[2] = Text(w)[2]
                            \/ items[2] = Item("ADDRESS", Broken)
  BY FileShape
<1>2. /\ Keyless(Blank)
      /\ Len(items) >= 1 => w1 = LoadName(Blank, items[1].text) /\ Keyless(w1)
      /\ Len(items) >= 2 => w2 = LoadAddress(w1, items[2].text) /\ Keyless(w2)
      /\ Len(items) >= 3 => w3 = [w2 EXCEPT !.nonce = items[3].text] /\ Keyless(w3)
      /\ Len(items) >= 4 => w4 = LoadKey(w3, items[4].text)
  BY LoadSteps
<1>. HIDE DEF w1, w2, w3, w4
<1>3. NotCoinbase(Blank)
  <2>1. Blank.address = Zero /\ Blank.address_hex.is = "empty"
    BY DEF Blank, NoText
  <2>. QED
    BY <2>1, CoinbaseDiffers DEF NotCoinbase
<1>4. Len(items) >= 1 => NotCoinbase(w1)
  <2>. SUFFICES ASSUME Len(items) >= 1 PROVE NotCoinbase(w1)
    OBVIOUS
  <2>1. w1 = LoadName(Blank, items[1].text)
    BY <1>2
  <2>2. NotCoinbase(LoadName(Blank, items[1].text))
    BY <1>2, <1>3, AddressKept
  <2>. QED
    BY <2>1, <2>2
<1>5. Len(items) >= 2 => NotCoinbase(w2)
  <2>. SUFFICES ASSUME Len(items) >= 2 PROVE NotCoinbase(w2)
    OBVIOUS
  <2>. DEFINE t == items[2].text
  <2>1. t.is = "hex" => t.of # COINBASE_ADDRESS
    <3>1. CASE items[2] = Text(w)[2]
      <4>1. t = w.address_hex
        BY <3>1, Lines
      <4>. QED
        BY <4>1 DEF NotCoinbase
    <3>2. CASE items[2] = Item("ADDRESS", Broken)
      <4>1. t.is = "broken"
        BY <3>2 DEF Item, Broken
      <4>. QED
        BY <4>1
    <3>. QED
      BY <1>1, <3>1, <3>2
  <2>2. w2 = LoadAddress(w1, t) /\ Keyless(w1) /\ NotCoinbase(w1)
    BY <1>1, <1>2, <1>4
  <2>. HIDE DEF t
  <2>3. /\ w2.address_hex = t
        /\ w2.address = IF t.is = "hex" THEN t.of ELSE w1.address
    BY <2>2 DEF LoadAddress, Keyless
  <2>. QED
    BY <2>1, <2>2, <2>3 DEF NotCoinbase
<1>6. Len(items) >= 3 => NotCoinbase(w3)
  <2>. SUFFICES ASSUME Len(items) >= 3 PROVE NotCoinbase(w3)
    OBVIOUS
  <2>1. w3 = [w2 EXCEPT !.nonce = items[3].text] /\ Keyless(w2) /\ NotCoinbase(w2)
    BY <1>1, <1>2, <1>5
  <2>. QED
    BY <2>1, AddressKept
<1>7. Len(items) >= 4 => NotCoinbase(w4)
  <2>. SUFFICES ASSUME Len(items) >= 4 PROVE NotCoinbase(w4)
    OBVIOUS
  <2>1. w4 = LoadKey(w3, items[4].text) /\ Keyless(w3) /\ NotCoinbase(w3)
    BY <1>1, <1>2, <1>6
  <2>. QED
    BY <2>1, AddressKept
<1>8. Loaded(items) = After(items, Len(items))
  BY <1>1, LoadedIsAfter
<1>9. /\ After(items, 0) = Blank /\ After(items, 1) = w1
      /\ After(items, 2) = w2 /\ After(items, 3) = w3 /\ After(items, 4) = w4
  BY DEF After, w1, w2, w3, w4
<1>. QED
  <2>1. \/ Len(items) = 0 \/ Len(items) = 1 \/ Len(items) = 2
        \/ Len(items) = 3 \/ Len(items) = 4
    BY <1>1
  <2>2. NotCoinbase(After(items, Len(items)))
    <3>1. CASE Len(items) = 0
      BY <1>3, <1>9, <3>1
    <3>2. CASE Len(items) = 1
      BY <1>4, <1>9, <3>2
    <3>3. CASE Len(items) = 2
      BY <1>5, <1>9, <3>3
    <3>4. CASE Len(items) = 3
      BY <1>6, <1>9, <3>4
    <3>5. CASE Len(items) = 4
      BY <1>7, <1>9, <3>5
    <3>. QED
      BY <2>1, <3>1, <3>2, <3>3, <3>4, <3>5
  <2>. QED
    BY <1>8, <2>2

\* The wallet in memory, and the one behind the file.
SourceInv ==
    /\ wallet # None => NotCoinbase(wallet)
    /\ file # None => NotCoinbase(saved)

LEMMA SourceStep == WalletInv /\ SourceInv /\ [PathNext]_pathVars => SourceInv'
<1>. SUFFICES ASSUME WalletInv, SourceInv, [PathNext]_pathVars PROVE SourceInv'
  OBVIOUS
<1>1. ASSUME NEW n \in Names, CreateNamed(n) PROVE SourceInv'
  BY <1>1, WithKeyNotCoinbase DEF CreateNamed, wallet_create_named, SourceInv
<1>2. ASSUME NEW k \in Key, CreateRandom(k) PROVE SourceInv'
  BY <1>2, WithKeyNotCoinbase DEF CreateRandom, SourceInv
<1>3. ASSUME NEW n, wallet # None, wallet' = [wallet EXCEPT !.nonce = n],
             UNCHANGED <<file, saved>>
      PROVE  SourceInv'
  <2>. DEFINE w == [wallet EXCEPT !.nonce = n]
  <2>1. w.address = wallet.address /\ w.address_hex = wallet.address_hex
    BY <1>3 DEF WalletInv, WalletOK
  <2>. HIDE DEF w
  <2>2. NotCoinbase(w)
    BY <1>3, <2>1 DEF SourceInv, NotCoinbase
  <2>. QED
    BY <1>3, <2>2 DEF SourceInv, w
<1>4. CASE GetNextNonce \/ (\E n \in 0..MaxNonce : SetNonce(n))
  BY <1>3, <1>4 DEF GetNextNonce, SetNonce
<1>5. CASE SaveOpen
  BY <1>5 DEF SaveOpen, SourceInv
<1>6. CASE SaveClose
  <2>1. NotCoinbase(saved)
    BY <1>6 DEF SaveClose, WalletInv, SourceInv
  <2>. QED
    BY <1>6, <2>1 DEF SaveClose, SourceInv
<1>7. CASE LoseMemory
  BY <1>7 DEF LoseMemory, SourceInv
<1>8. CASE Load
  <2>1. NotCoinbase(Loaded(file))
    BY <1>8, LoadedNotCoinbase DEF Load, WalletInv, SourceInv
  <2>. QED
    BY <1>8, <2>1 DEF Load, SourceInv
<1>9. CASE UNCHANGED walletVars
  BY <1>9 DEF SourceInv, walletVars
<1>10. WalletNext \/ UNCHANGED walletVars
  BY DEF PathNext, WalletStep, MakeBatch, Receive, Worker, RunIteration, Join,
         Summarize, pathVars
<1>. QED
  BY <1>1, <1>2, <1>4, <1>5, <1>6, <1>7, <1>8, <1>9, <1>10 DEF WalletNext

-----------------------------------------------------------------------------
(***************************************************************************)
(* The batch.  Once it is made it only leaves the generator.               *)
(***************************************************************************)
LEMMA Created ==
    ASSUME NEW w, NEW dest, NEW value, NEW nonce, NEW signs
    PROVE  LET tx == transaction_create(w, dest, value, Fee, nonce, expiry, signs)
           IN  /\ IsTx(tx)
               /\ tx.signature # Zero =>
                    /\ w.evp_key # NoKey
                    /\ tx = transaction_create(w, dest, value, Fee, nonce, expiry, TRUE)
<1>. DEFINE unsigned == transaction_create_from_address(w.address, dest, value,
                                                        Fee, nonce, expiry)
            tx == transaction_create(w, dest, value, Fee, nonce, expiry, signs)
            signed == transaction_create(w, dest, value, Fee, nonce, expiry, TRUE)
            sig == wallet_sign(w.evp_key, transaction_compute_hash(unsigned))
<1>1. unsigned = [nonce |-> nonce, expiry_block |-> expiry,
                  source_address |-> w.address, dest_address |-> dest,
                  value |-> value, fee |-> Fee, signature |-> Zero]
  BY DEF transaction_create_from_address
<1>2. \/ tx = [unsigned EXCEPT !.signature = Zero]
      \/ tx = unsigned
      \/ w.evp_key # NoKey /\ tx = [unsigned EXCEPT !.signature = sig]
  BY DEF transaction_create, transaction_sign
<1>3. w.evp_key # NoKey => signed = [unsigned EXCEPT !.signature = sig]
  BY DEF transaction_create, transaction_sign
<1>. HIDE DEF unsigned, tx, sig, signed
<1>4. CASE tx = [unsigned EXCEPT !.signature = Zero]
  BY <1>1, <1>4 DEF IsTx, tx
<1>5. CASE tx = unsigned
  BY <1>1, <1>5 DEF IsTx, tx
<1>6. CASE w.evp_key # NoKey /\ tx = [unsigned EXCEPT !.signature = sig]
  <2>1. IsTx(tx) /\ tx = signed
    BY <1>1, <1>3, <1>6 DEF IsTx
  <2>. QED
    BY <1>6, <2>1 DEF tx, signed
<1>. QED
  BY <1>2, <1>4, <1>5, <1>6

LEMMA CreatedDest ==
    ASSUME NEW w, NEW dest, NEW value, NEW nonce, NEW signs
    PROVE  transaction_create(w, dest, value, Fee, nonce, expiry, signs).dest_address
             = dest
<1>. DEFINE unsigned == transaction_create_from_address(w.address, dest, value,
                                                        Fee, nonce, expiry)
<1>1. \A s : [unsigned EXCEPT !.signature = s].dest_address = dest
  BY DEF transaction_create_from_address
<1>2. unsigned.dest_address = dest
  BY DEF transaction_create_from_address
<1>. HIDE DEF unsigned
<1>. QED
  BY <1>1, <1>2 DEF transaction_create, transaction_sign, unsigned

LEMMA CreatedSigned ==
    ASSUME NEW w, NEW dest, NEW value, NEW nonce, NEW signs,
           transaction_create(w, dest, value, Fee, nonce, expiry, signs).signature # Zero
    PROVE  /\ w.evp_key # NoKey
           /\ transaction_create(w, dest, value, Fee, nonce, expiry, signs)
                = transaction_create(w, dest, value, Fee, nonce, expiry, TRUE)
  BY Created

LEMMA LenOf ==
    ASSUME NEW n \in Nat, NEW f, f = [i \in 1..n |-> f[i]]
    PROVE  Len(f) = n
<1>. DEFINE S == {f[i] : i \in 1..n}
<1>1. f \in [1..n -> S]
  OBVIOUS
<1>. HIDE DEF S
<1>. QED
  BY <1>1

\* What the receiver will read is what the generator made.
WireCarriesBatch ==
    stage = "wire" =>
        LET batch == blockchain__transaction_batch__unpack(wire)
        IN  /\ Len(batch.transactions) = Len(made)
            /\ \A i \in 1..Len(made) :
                 /\ pb_to_tx(batch.transactions[i]) = made[i].tx
                 /\ PubkeyOf(batch.transactions[i]) = made[i].pubkey

\* What carries a signature passes the receiver's --verify.
SignedAccepted ==
    \A i \in 1..Len(made) :
        made[i].tx.signature # Zero => Verdict(made[i].tx, made[i].pubkey)

BatchInv == WireCarriesBatch /\ SignedAccepted /\ PaysNamedWallet

LEMMA MadeBatch ==
    ASSUME WalletInv, NEW to \in Names, NEW amount \in Values,
           NEW signs \in BoundedSeq(BOOLEAN, MaxTxs), MakeBatch(to, amount, signs)
    PROVE  BatchInv'
<1>1. PICK n \in Nat : signs \in [1..n -> BOOLEAN]
  BY PathBoundsAssumption DEF BoundedSeq, SeqOf
<1>2. signs \in Seq(BOOLEAN) /\ Len(signs) = n
  BY <1>1
<1>. DEFINE tx(i) == transaction_create(wallet, wallet_parse_address(to), amount,
                                        Fee, i - 1, expiry, signs[i])
            entry(i) == WithPubkey(tx(i), wallet.public_key)
<1>3. made' = [i \in 1..n |-> entry(i)] /\ wallet # None /\ to_name' = to
  BY <1>2 DEF MakeBatch
<1>4. Len(made') = n /\ \A i \in 1..n : made'[i] = entry(i)
  <2>. HIDE DEF entry
  <2>. QED
    BY <1>3, LenOf
<1>5. ASSUME NEW i \in 1..n
      PROVE  /\ made'[i].tx = tx(i) /\ made'[i].pubkey = wallet.public_key
             /\ IsTx(tx(i)) /\ tx(i).dest_address = wallet_parse_address(to)
             /\ tx(i).signature # Zero =>
                  /\ wallet.evp_key # NoKey
                  /\ tx(i) = transaction_create(wallet, wallet_parse_address(to),
                                                amount, Fee, i - 1, expiry, TRUE)
  <2>1. /\ IsTx(tx(i)) /\ tx(i).dest_address = wallet_parse_address(to)
        /\ tx(i).signature # Zero =>
             /\ wallet.evp_key # NoKey
             /\ tx(i) = transaction_create(wallet, wallet_parse_address(to),
                                           amount, Fee, i - 1, expiry, TRUE)
    <3>1. IsTx(tx(i))
      BY Created
    <3>2. tx(i).dest_address = wallet_parse_address(to)
      BY CreatedDest
    <3>3. tx(i).signature # Zero => wallet.evp_key # NoKey
      BY CreatedSigned
    <3>4. tx(i).signature # Zero => tx(i) = transaction_create(wallet, wallet_parse_address(to),
                                           amount, Fee, i - 1, expiry, TRUE)
      BY CreatedSigned
    <3>. QED
      BY <3>1, <3>2, <3>3, <3>4
  <2>. HIDE DEF tx
  <2>2. made'[i].tx = tx(i) /\ made'[i].pubkey = wallet.public_key
    BY <1>4 DEF WithPubkey
  <2>. QED
    BY <2>1, <2>2
<1>6. SignedAccepted'
  <2>1. ASSUME NEW i \in 1..n, made'[i].tx.signature # Zero
        PROVE  Verdict(tx(i), wallet.public_key)
    <3>1. /\ wallet.evp_key # NoKey
          /\ tx(i) = transaction_create(wallet, wallet_parse_address(to), amount,
                                        Fee, i - 1, expiry, TRUE)
      BY <1>5, <2>1
    <3>2. /\ wallet.evp_key \in Key /\ wallet.public_key = PublicKey(wallet.evp_key)
          /\ wallet.address = wallet_derive_address(PublicKey(wallet.evp_key))
      BY <1>3, <3>1 DEF WalletInv, WalletOK
    <3>. QED
      BY <3>1, <3>2, SignedVerifies
  <2>. HIDE DEF tx
  <2>2. \A i \in 1..n : made'[i].tx.signature # Zero =>
                          Verdict(made'[i].tx, made'[i].pubkey)
    BY <1>5, <2>1
  <2>. QED
    BY <1>4, <2>2 DEF SignedAccepted
<1>7. PaysNamedWallet'
  <2>1. to \notin DOMAIN HexAddress =>
          wallet_parse_address(to) = wallet_create_named(to).address
    BY DEF wallet_parse_address, wallet_name_to_address, wallet_create_named, WithKey
  <2>. HIDE DEF tx
  <2>2. \A i \in 1..n : made'[i].tx.dest_address = wallet_parse_address(to)
    BY <1>5
  <2>. QED
    BY <1>3, <1>4, <2>1, <2>2 DEF PaysNamedWallet
<1>8. WireCarriesBatch'
  <2>. DEFINE pb_arr == [i \in 1..n |-> PbOfGenerator(made'[i].tx, made'[i].pubkey)]
              packed == [i \in 1..n |-> protobuf_c_message_pack(pb_arr[i])]
              unpacked == [i \in 1..n |-> protobuf_c_message_unpack(packed[i])]
  <2>1. pb_arr = [i \in 1..n |-> pb_arr[i]] /\ packed = [i \in 1..n |-> packed[i]]
        /\ unpacked = [i \in 1..n |-> unpacked[i]]
    OBVIOUS
  <2>2. ASSUME NEW i \in 1..n
        PROVE  /\ pb_to_tx(unpacked[i]) = made'[i].tx
               /\ PubkeyOf(unpacked[i]) = made'[i].pubkey
    <3>. DEFINE pt == protobuf_c_message_unpack(protobuf_c_message_pack(
                          PbOfGenerator(tx(i), wallet.public_key)))
    <3>1. unpacked[i] = pt
      BY <1>5
    <3>2. pb_to_tx(pt) = tx(i) /\ PubkeyOf(pt) = wallet.public_key
      <4>1. IsTx(tx(i))
        BY <1>5
      <4>. HIDE DEF tx
      <4>. QED
        BY <4>1, WireRoundTrip
    <3>. HIDE DEF pt, tx, unpacked
    <3>. QED
      BY <1>5, <3>1, <3>2
  <2>3. wire' = blockchain__transaction_batch__pack(TransactionBatch(pb_arr))
    BY <1>2 DEF MakeBatch
  <2>. HIDE DEF pb_arr
  <2>4. Len(pb_arr) = n
    BY <2>1, LenOf
  <2>5. wire' = packed
    BY <2>3, <2>4 DEF blockchain__transaction_batch__pack, TransactionBatch
  <2>. HIDE DEF packed
  <2>6. Len(packed) = n
    BY <2>1, LenOf
  <2>7. blockchain__transaction_batch__unpack(wire').transactions = unpacked
    BY <2>5, <2>6 DEF blockchain__transaction_batch__unpack, TransactionBatch
  <2>. HIDE DEF unpacked
  <2>8. Len(unpacked) = n
    BY <2>1, LenOf
  <2>. QED
    BY <1>4, <2>2, <2>7, <2>8 DEF WireCarriesBatch
<1>. QED
  BY <1>6, <1>7, <1>8 DEF BatchInv

LEMMA BatchInvStep == WalletInv /\ BatchInv /\ [PathNext]_pathVars => BatchInv'
<1>. SUFFICES ASSUME WalletInv, BatchInv, [PathNext]_pathVars PROVE BatchInv'
  OBVIOUS
<1>1. CASE \E to \in Names, amount \in Values, signs \in BoundedSeq(BOOLEAN, MaxTxs) :
             MakeBatch(to, amount, signs)
  BY <1>1, MadeBatch
<1>2. CASE UNCHANGED <<made, wire, to_name>> /\ (stage' = "wire" => stage = "wire")
  BY <1>2 DEF BatchInv, WireCarriesBatch, SignedAccepted, PaysNamedWallet
<1>3. \/ \E to \in Names, amount \in Values, signs \in BoundedSeq(BOOLEAN, MaxTxs) :
           MakeBatch(to, amount, signs)
      \/ UNCHANGED <<made, wire, to_name>> /\ (stage' = "wire" => stage = "wire")
  BY DEF PathNext, WalletStep, Receive, Worker, RunIteration, Join, Summarize,
         pathVars, batchVars
<1>. QED
  BY <1>1, <1>2, <1>3

LEMMA BatchInitially == PathInit => BatchInv
<1>. SUFFICES ASSUME PathInit PROVE BatchInv
  OBVIOUS
<1>1. made = <<>> /\ stage = "wallet"
  BY DEF PathInit
<1>2. 1..Len(made) = {}
  BY <1>1
<1>. QED
  BY <1>1, <1>2 DEF BatchInv, WireCarriesBatch, SignedAccepted, PaysNamedWallet

THEOREM BatchInvariance == PathSpec => []BatchInv
  BY WalletInvariance, BatchInitially, BatchInvStep, PTL DEF PathSpec

\* A receiver with --verify (receiver.c:168) accepts whatever the generator's
\* wallet could sign, wherever the wallet was loaded from.
THEOREM SignedIsAccepted == PathSpec => []SignedAccepted
<1>1. BatchInv => SignedAccepted
  BY DEF BatchInv
<1>. QED
  BY <1>1, BatchInvariance, PTL

\* What is on the wire unpacks to what was made, transaction by transaction and
\* key by key (receiver.c:161).
THEOREM WireIsFaithful == PathSpec => []WireCarriesBatch
<1>1. BatchInv => WireCarriesBatch
  BY DEF BatchInv
<1>. QED
  BY <1>1, BatchInvariance, PTL

\* A payment goes to the wallet that has the name, for every name that is no
\* address (wallet.c:233).
THEOREM NamedWalletIsPaid == PathSpec => []PaysNamedWallet
<1>1. BatchInv => PaysNamedWallet
  BY DEF BatchInv
<1>. QED
  BY <1>1, BatchInvariance, PTL

-----------------------------------------------------------------------------
(***************************************************************************)
(* The receiver.  Its check says whether a transaction is genuine, for     *)
(* whatever a wallet of the generator makes.                               *)
(***************************************************************************)
LEMMA CreatedFields ==
    ASSUME NEW w, NEW dest, NEW value, NEW nonce, NEW signs
    PROVE  LET tx == transaction_create(w, dest, value, Fee, nonce, expiry, signs)
           IN  tx.source_address = w.address /\ tx.fee = Fee
<1>. DEFINE unsigned == transaction_create_from_address(w.address, dest, value,
                                                        Fee, nonce, expiry)
<1>1. \A s : /\ [unsigned EXCEPT !.signature = s].source_address = w.address
             /\ [unsigned EXCEPT !.signature = s].fee = Fee
  BY DEF transaction_create_from_address
<1>2. unsigned.source_address = w.address /\ unsigned.fee = Fee
  BY DEF transaction_create_from_address
<1>. HIDE DEF unsigned
<1>. QED
  BY <1>1, <1>2 DEF transaction_create, transaction_sign, unsigned

LEMMA VerdictIsGenuine ==
    ASSUME WalletInv, SourceInv, wallet # None,
           NEW dest, NEW value, NEW nonce, NEW signs, NEW e,
           e = WithPubkey(transaction_create(wallet, dest, value, Fee, nonce,
                                             expiry, signs), wallet.public_key)
    PROVE  Verdict(e.tx, e.pubkey) <=> Genuine(e)
<1>. DEFINE tx == transaction_create(wallet, dest, value, Fee, nonce, expiry, signs)
<1>1. e.tx = tx /\ e.pubkey = wallet.public_key
  BY DEF WithPubkey
<1>2. tx.source_address = wallet.address
  BY CreatedFields
<1>3. tx.signature # Zero => wallet.evp_key # NoKey
  BY CreatedSigned
<1>. HIDE DEF tx
<1>4. ~TX_IS_COINBASE(e.tx)
  BY <1>1, <1>2 DEF SourceInv, NotCoinbase, TX_IS_COINBASE
<1>5. ASSUME Genuine(e) PROVE Verdict(e.tx, e.pubkey)
  <2>. DEFINE h == transaction_compute_hash(e.tx)
  <2>1. PICK k \in Key : /\ e.pubkey = PublicKey(k)
                         /\ e.tx.source_address = wallet_derive_address(e.pubkey)
                         /\ e.tx.signature = Signature(k, h)
    BY <1>5 DEF Genuine
  <2>. HIDE DEF h
  <2>2. e.pubkey # Zero
    BY <2>1, PublicKeyNotZero
  <2>3. e.tx.signature # Zero
    BY <2>1, SignatureParts
  <2>4. wallet_verify(e.pubkey, h, e.tx.signature)
    BY <2>1 DEF wallet_verify
  <2>. QED
    BY <2>1, <2>2, <2>3, <2>4 DEF Verdict, transaction_verify_ed25519, h
<1>6. ASSUME Verdict(e.tx, e.pubkey) PROVE Genuine(e)
  <2>1. e.pubkey # Zero
    <3>. SUFFICES ASSUME e.pubkey = Zero PROVE FALSE
      OBVIOUS
    <3>1. wallet.evp_key # NoKey
      BY <1>1, <1>3, <1>4, <1>6 DEF Verdict, transaction_verify
    <3>2. wallet.public_key = PublicKey(wallet.evp_key)
      BY <3>1 DEF WalletInv, WalletOK
    <3>. QED
      BY <1>1, <3>2, PublicKeyNotZero
  <2>2. /\ wallet_derive_address(e.pubkey) = e.tx.source_address
        /\ wallet_verify(e.pubkey, transaction_compute_hash(e.tx), e.tx.signature)
    BY <1>4, <1>6, <2>1 DEF Verdict, transaction_verify_ed25519
  <2>. QED
    BY <2>2 DEF wallet_verify, Genuine
<1>. QED
  BY <1>5, <1>6

Made == {made[i] : i \in 1..Len(made)}

MadeInv ==
    /\ made \in Seq(Made)
    /\ \A e \in Made : /\ e = WithPubkey(e.tx, e.pubkey)
                       /\ e.tx.fee = Fee
                       /\ Verdict(e.tx, e.pubkey) <=> Genuine(e)

LEMMA MakingMade ==
    ASSUME WalletInv, SourceInv, NEW to \in Names, NEW amount \in Values,
           NEW signs \in BoundedSeq(BOOLEAN, MaxTxs), MakeBatch(to, amount, signs)
    PROVE  MadeInv'
<1>1. PICK n \in Nat : signs \in [1..n -> BOOLEAN]
  BY PathBoundsAssumption DEF BoundedSeq, SeqOf
<1>2. Len(signs) = n
  BY <1>1
<1>. DEFINE tx(i) == transaction_create(wallet, wallet_parse_address(to), amount,
                                        Fee, i - 1, expiry, signs[i])
            entry(i) == WithPubkey(tx(i), wallet.public_key)
<1>3. made' = [i \in 1..n |-> entry(i)] /\ wallet # None
  BY <1>2 DEF MakeBatch
<1>4. ASSUME NEW i \in 1..n
      PROVE  /\ entry(i) = WithPubkey(entry(i).tx, entry(i).pubkey)
             /\ entry(i).tx.fee = Fee
             /\ Verdict(entry(i).tx, entry(i).pubkey) <=> Genuine(entry(i))
  <2>1. entry(i).tx = tx(i) /\ entry(i).pubkey = wallet.public_key
    BY DEF WithPubkey
  <2>2. tx(i).fee = Fee
    BY CreatedFields
  <2>3. Verdict(entry(i).tx, entry(i).pubkey) <=> Genuine(entry(i))
    <3>. DEFINE e == entry(i)
    <3>1. e = WithPubkey(transaction_create(wallet, wallet_parse_address(to), amount,
                                            Fee, i - 1, expiry, signs[i]), wallet.public_key)
      OBVIOUS
    <3>. HIDE DEF e
    <3>2. Verdict(e.tx, e.pubkey) <=> Genuine(e)
      BY <1>3, <3>1, VerdictIsGenuine
    <3>. QED
      BY <3>2 DEF e
  <2>. HIDE DEF tx
  <2>. QED
    BY <2>1, <2>2, <2>3
<1>. HIDE DEF entry
<1>5. Len(made') = n /\ \A i \in 1..n : made'[i] = entry(i)
  BY <1>3, LenOf
<1>6. Made' = {entry(i) : i \in 1..n}
  BY <1>5 DEF Made
<1>7. made' \in Seq(Made')
  <2>1. made' \in [1..n -> Made']
    BY <1>3, <1>6
  <2>. QED
    BY <2>1
<1>. QED
  BY <1>4, <1>6, <1>7 DEF MadeInv

\* What the receiver unpacks is the batch, and what it accepts is genuine.
LEMMA Receiving ==
    ASSUME WireCarriesBatch, MadeInv, NEW verifies \in BOOLEAN, Receive(verifies)
    PROVE  buf' = Chosen(made, {e \in ToSet(made) : g_verify' => Genuine(e)})
<1>. DEFINE batch == blockchain__transaction_batch__unpack(wire)
            entry(pt) == WithPubkey(pb_to_tx(pt), PubkeyOf(pt))
            entries == [i \in 1..Len(batch.transactions) |-> entry(batch.transactions[i])]
            n == Len(made)
<1>1. /\ Len(batch.transactions) = n
      /\ \A i \in 1..n : /\ pb_to_tx(batch.transactions[i]) = made[i].tx
                         /\ PubkeyOf(batch.transactions[i]) = made[i].pubkey
  BY DEF Receive, WireCarriesBatch
<1>2. \A i \in 1..n : made[i] \in Made /\ made[i] = WithPubkey(made[i].tx, made[i].pubkey)
  BY DEF MadeInv, Made
<1>3. made = [i \in 1..n |-> made[i]] /\ DOMAIN made = 1..n
  BY DEF MadeInv
<1>4. buf' = Chosen(entries, {e \in ToSet(entries) : verifies => Verdict(e.tx, e.pubkey)})
      /\ g_verify' = verifies
  BY DEF Receive
<1>5. entries = made
  <2>. HIDE DEF batch, n
  <2>1. \A i \in 1..n : entry(batch.transactions[i]) = made[i]
    BY <1>1, <1>2
  <2>2. entries = [i \in 1..n |-> made[i]]
    BY <1>1, <2>1
  <2>. QED
    BY <1>3, <2>2
<1>. HIDE DEF entries
<1>6. \A e \in ToSet(made) : Verdict(e.tx, e.pubkey) <=> Genuine(e)
  <2>1. \A e \in ToSet(made) : e \in Made
    BY <1>2, <1>3 DEF ToSet
  <2>. QED
    BY <2>1 DEF MadeInv
<1>7. {e \in ToSet(made) : verifies => Verdict(e.tx, e.pubkey)}
        = {e \in ToSet(made) : verifies => Genuine(e)}
  BY <1>6
<1>. QED
  BY <1>4, <1>5, <1>7

ArriveInv == SourceInv /\ MadeInv /\ ArrivesUnchanged

LEMMA ArriveStep ==
    WalletInv /\ BatchInv /\ ArriveInv /\ [PathNext]_pathVars => ArriveInv'
<1>. SUFFICES ASSUME WalletInv, BatchInv, ArriveInv, [PathNext]_pathVars
              PROVE  ArriveInv'
  OBVIOUS
<1>1. SourceInv'
  BY SourceStep DEF ArriveInv
<1>2. ASSUME NEW to \in Names, NEW amount \in Values,
             NEW signs \in BoundedSeq(BOOLEAN, MaxTxs), MakeBatch(to, amount, signs)
      PROVE  ArriveInv'
  <2>1. MadeInv'
    BY <1>2, MakingMade DEF ArriveInv
  <2>2. ArrivesUnchanged'
    BY <1>2 DEF MakeBatch, ArrivesUnchanged
  <2>. QED
    BY <1>1, <2>1, <2>2 DEF ArriveInv
<1>3. ASSUME NEW verifies \in BOOLEAN, Receive(verifies) PROVE ArriveInv'
  <2>1. UNCHANGED made
    BY <1>3 DEF Receive
  <2>2. MadeInv'
    BY <2>1 DEF ArriveInv, MadeInv, Made
  <2>3. buf' = Chosen(made, {e \in ToSet(made) : g_verify' => Genuine(e)})
    BY <1>3, Receiving DEF ArriveInv, BatchInv
  <2>4. ArrivesUnchanged'
    BY <2>1, <2>3 DEF ArrivesUnchanged
  <2>. QED
    BY <1>1, <2>2, <2>4 DEF ArriveInv
<1>4. CASE UNCHANGED <<made, g_verify, buf>>
           /\ (stage' \in {"loop", "done"} => stage \in {"loop", "done"})
  BY <1>1, <1>4 DEF ArriveInv, MadeInv, Made, ArrivesUnchanged
<1>5. \/ \E to \in Names, amount \in Values, signs \in BoundedSeq(BOOLEAN, MaxTxs) :
           MakeBatch(to, amount, signs)
      \/ \E verifies \in BOOLEAN : Receive(verifies)
      \/ UNCHANGED <<made, g_verify, buf>>
         /\ (stage' \in {"loop", "done"} => stage \in {"loop", "done"})
  BY DEF PathNext, WalletStep, Worker, RunIteration, Join, Summarize, pathVars, batchVars
<1>. QED
  BY <1>2, <1>3, <1>4, <1>5

LEMMA ArriveInit == PathInit => ArriveInv
<1>. SUFFICES ASSUME PathInit PROVE ArriveInv
  OBVIOUS
<1>1. made = <<>> /\ stage = "wallet" /\ wallet = None /\ file = None
  BY DEF PathInit, WalletInit
<1>2. Made = {} /\ made \in Seq(Made)
  BY <1>1 DEF Made
<1>. QED
  BY <1>1, <1>2 DEF ArriveInv, SourceInv, MadeInv, ArrivesUnchanged

THEOREM ArriveInvariance == PathSpec => []ArriveInv
  BY WalletInvariance, BatchInvariance, ArriveInit, ArriveStep, PTL DEF PathSpec

\* What a worker has is what the generator's thread made (main.c:169), in order
\* and with its keys: all of it, or with --verify (receiver.c:168) the genuinely
\* signed, whatever wallet signed it and wherever that came from.
THEOREM ArrivesAsMade == PathSpec => []ArrivesUnchanged
<1>1. ArriveInv => ArrivesUnchanged
  BY DEF ArriveInv
<1>. QED
  BY <1>1, ArriveInvariance, PTL

-----------------------------------------------------------------------------
(***************************************************************************)
(* The worker's loop.  The chunks of schedule(static) follow on one        *)
(* another and cover the iterations.                                       *)
(***************************************************************************)
LEMMA ChunkAt ==
    ASSUME NEW n \in Nat
    PROVE  /\ ChunkStart(0, n) = 0
           /\ ChunkStart(par_threads, n) = n
           /\ \A s, t \in 0..par_threads : s <= t =>
                /\ ChunkStart(s, n) \in Nat
                /\ ChunkStart(s, n) <= ChunkStart(t, n)
<1>1. par_threads \in Nat \ {0}
  BY PathBoundsAssumption
<1>. DEFINE q == n \div par_threads
            r == n % par_threads
<1>2. q \in Nat /\ r \in 0 .. par_threads - 1 /\ n = par_threads * q + r
  BY <1>1
<1>3. \A t \in 0..par_threads : ChunkStart(t, n) = t * q + SmallerOf(t, r)
  BY DEF ChunkStart
<1>. HIDE DEF q, r
<1>4. 0 * q = 0 /\ 0 \in 0..par_threads /\ par_threads \in 0..par_threads
  BY <1>1, <1>2
<1>5. ChunkStart(0, n) = 0
  BY <1>1, <1>2, <1>3, <1>4 DEF SmallerOf
<1>6. ChunkStart(par_threads, n) = n
  BY <1>1, <1>2, <1>3, <1>4 DEF SmallerOf
<1>7. ASSUME NEW s \in 0..par_threads, NEW t \in 0..par_threads, s <= t
      PROVE  ChunkStart(s, n) \in Nat /\ ChunkStart(s, n) <= ChunkStart(t, n)
  <2>1. s * q \in Nat /\ t * q \in Nat /\ s * q <= t * q
    <3>1. PICK d \in Nat : t = s + d
      <4>1. t - s \in Nat /\ t = s + (t - s)
        BY <1>1, <1>7
      <4>. QED
        BY <4>1
    <3>2. t * q = s * q + d * q /\ d * q \in Nat /\ s * q \in Nat
      BY <1>2, <3>1
    <3>. QED
      BY <3>2
  <2>2. SmallerOf(s, r) \in Nat /\ SmallerOf(s, r) <= SmallerOf(t, r)
    BY <1>1, <1>2, <1>7 DEF SmallerOf
  <2>3. SmallerOf(t, r) \in Nat
    BY <1>2 DEF SmallerOf
  <2>. QED
    BY <1>3, <2>1, <2>2, <2>3
<1>. QED
  BY <1>5, <1>6, <1>7

LEMMA Chunks ==
    ASSUME NEW n \in Nat, NEW t \in OmpThreads
    PROVE  /\ ChunkStart(t, n) \in Nat
           /\ ChunkLength(t, n) \in Nat
           /\ ChunkStart(t, n) + ChunkLength(t, n) <= n
           /\ \A s \in OmpThreads : s < t =>
                ChunkStart(s, n) + ChunkLength(s, n) <= ChunkStart(t, n)
<1>1. par_threads \in Nat \ {0} /\ t \in 0..par_threads /\ t + 1 \in 0..par_threads
  BY PathBoundsAssumption DEF OmpThreads
<1>2. /\ ChunkStart(t, n) \in Nat /\ ChunkStart(t + 1, n) \in Nat
      /\ ChunkStart(t, n) <= ChunkStart(t + 1, n)
      /\ ChunkStart(t + 1, n) <= n
  <2>1. par_threads \in 0..par_threads /\ t <= t + 1 /\ t + 1 <= par_threads
    BY <1>1
  <2>. QED
    BY <1>1, <2>1, ChunkAt
<1>3. ASSUME NEW s \in OmpThreads, s < t
      PROVE  ChunkStart(s, n) + ChunkLength(s, n) <= ChunkStart(t, n)
  <2>1. s \in 0..par_threads /\ s + 1 \in 0..par_threads /\ s <= s + 1 /\ s + 1 <= t
    BY <1>1, <1>3 DEF OmpThreads
  <2>2. ChunkStart(s, n) \in Nat /\ ChunkStart(s + 1, n) \in Nat
        /\ ChunkStart(s + 1, n) <= ChunkStart(t, n)
    BY <1>1, <2>1, ChunkAt
  <2>. QED
    BY <1>2, <2>2 DEF ChunkLength
<1>. QED
  BY <1>2, <1>3 DEF ChunkLength

\* Every iteration is in some thread's chunk.
LEMMA ChunksCover ==
    ASSUME NEW n \in Nat, NEW i \in 1..n
    PROVE  \E t \in OmpThreads :
             i \in ChunkStart(t, n) + 1 .. ChunkStart(t, n) + ChunkLength(t, n)
<1>1. par_threads \in Nat \ {0}
  BY PathBoundsAssumption
<1>. DEFINE T == {t \in 0..par_threads : i <= ChunkStart(t, n)}
<1>2. T \in SUBSET (0..par_threads) /\ par_threads \in T
  BY <1>1, ChunkAt
<1>3. PICK m \in T : \A k \in T : m <= k
  <2>. HIDE DEF T
  <2>. QED
    BY <1>1, <1>2, LeastElement
<1>4. m \in 0..par_threads /\ i <= ChunkStart(m, n) /\ m # 0
  BY <1>3, ChunkAt
<1>5. m - 1 \in OmpThreads /\ m - 1 \in 0..par_threads /\ (m - 1) + 1 = m
  BY <1>1, <1>4 DEF OmpThreads
<1>6. ~(i <= ChunkStart(m - 1, n))
  BY <1>3, <1>5
<1>7. ChunkStart(m - 1, n) \in Nat /\ ChunkStart(m, n) \in Nat
  BY <1>4, <1>5, ChunkAt
<1>8. ChunkLength(m - 1, n) = ChunkStart(m, n) - ChunkStart(m - 1, n)
  BY <1>5 DEF ChunkLength
<1>9. i \in ChunkStart(m - 1, n) + 1 .. ChunkStart(m - 1, n) + ChunkLength(m - 1, n)
  BY <1>4, <1>6, <1>7, <1>8
<1>. QED
  BY <1>5, <1>9

-----------------------------------------------------------------------------
(***************************************************************************)
(* The two folds of SummarySequential over the transactions b.             *)
(***************************************************************************)
FeesFrom(b, s, g) == IF s = {} THEN 0 ELSE g[s \ {Max(s)}] + b[Max(s)].tx.fee
Fees1(b, g) == g = [s \in SUBSET DOMAIN b |-> FeesFrom(b, s, g)]

LEMMA FeesFold ==
    ASSUME NEW n \in Nat, NEW b, DOMAIN b = 1..n, \A i \in 1..n : b[i].tx.fee \in Int
    PROVE  SequentialFees(b) = SumFunctionOnSet([i \in 1..n |-> b[i].tx.fee], 1..n)
<1>. DEFINE f == [i \in 1..n |-> b[i].tx.fee]
            k == CHOOSE g : Fees1(b, g)
<1>1. SequentialFees(b) = k[DOMAIN b]
  BY DEF SequentialFees, FoldLeft, MapThenFoldSet, Fees1, FeesFrom
<1>2. f \in [1..n -> Int] /\ IsFiniteSet(1..n)
  BY FS_Interval
<1>3. PICK g : Sums(f, 1..n, g) /\ SumFunctionOnSet(f, 1..n) = g[1..n]
  BY <1>2, SumIsSums
<1>4. Splits(f, 1..n, g)
  BY <1>2, <1>3, SumsSplit
<1>5. ASSUME NEW s \in SUBSET (1..n), s # {}
      PROVE  /\ Max(s) \in s /\ s \ {Max(s)} \in SUBSET (1..n)
             /\ g[s] = g[s \ {Max(s)}] + b[Max(s)].tx.fee
  <2>1. Max(s) \in s
    BY <1>5, MaxOf
  <2>. DEFINE m == Max(s)
  <2>2. m \in 1..n /\ f[m] = b[m].tx.fee /\ f[m] \in Int /\ s \ {m} \in SUBSET (1..n)
    BY <2>1
  <2>. HIDE DEF m, f
  <2>3. g[s] = f[m] + g[s \ {m}] /\ g[s \ {m}] \in Int
    BY <1>4, <2>1, <2>2 DEF Splits, m
  <2>. QED
    BY <2>1, <2>2, <2>3 DEF m
<1>6. Fees1(b, g)
  <2>. DEFINE h == [s \in SUBSET DOMAIN b |-> FeesFrom(b, s, g)]
  <2>1. g = [s \in SUBSET (1..n) |-> g[s]]
    BY <1>3 DEF Sums
  <2>2. ASSUME NEW s \in SUBSET (1..n) PROVE g[s] = FeesFrom(b, s, g)
    <3>1. CASE s = {}
      BY <1>3, <3>1, SumsAt DEF SumFrom, FeesFrom
    <3>2. CASE s # {}
      BY <1>5, <3>2 DEF FeesFrom
    <3>. QED
      BY <3>1, <3>2
  <2>3. h = [s \in SUBSET (1..n) |-> g[s]]
    BY <2>2
  <2>. HIDE DEF h
  <2>4. g = h
    BY <2>1, <2>3
  <2>. QED
    BY <2>4 DEF Fees1, h
<1>7. Fees1(b, k)
  BY <1>6
<1>. HIDE DEF k, f
<1>8. ASSUME NEW s \in SUBSET (1..n), \A x \in s : k[s \ {x}] = g[s \ {x}]
      PROVE  k[s] = g[s]
  <2>1. k[s] = FeesFrom(b, s, k) /\ g[s] = FeesFrom(b, s, g)
    BY <1>6, <1>7 DEF Fees1
  <2>2. CASE s = {}
    BY <2>1, <2>2 DEF FeesFrom
  <2>3. CASE s # {}
    <3>1. k[s \ {Max(s)}] = g[s \ {Max(s)}]
      BY <1>5, <1>8, <2>3
    <3>. QED
      BY <2>1, <2>3, <3>1 DEF FeesFrom
  <2>. QED
    BY <2>2, <2>3
<1>9. k[1..n] = g[1..n]
  BY <1>2, <1>8, SubsetsAgree, Zenon
<1>. QED
  BY <1>1, <1>3, <1>9, Zenon DEF f

RootFrom(b, s, g) ==
    IF s = {} THEN Zero
    ELSE sha256(g[s \ {Max(s)}], transaction_compute_hash(b[Max(s)].tx))
Roots(b, n, m, g) ==
    g = [s \in UpTo(1..n, m) |-> RootFrom(b, s, g)]
Roots1(b, g) == g = [s \in SUBSET DOMAIN b |-> RootFrom(b, s, g)]

LEMMA RootsExist ==
    ASSUME NEW b, NEW n \in Nat, DOMAIN b = 1..n
    PROVE  \E g : Roots1(b, g)
<1>. DEFINE N == {m \in Nat : \E g : Roots(b, n, m, g)}
<1>0. IsFiniteSet(1..n) /\ Cardinality(1..n) \in Nat
  BY FS_Interval, FS_CardinalityType
<1>1. 0 \in N
  <2>. DEFINE g == [s \in UpTo(1..n, 0) |-> Zero]
              h == [s \in UpTo(1..n, 0) |-> RootFrom(b, s, g)]
  <2>1. ASSUME NEW s \in UpTo(1..n, 0) PROVE s = {}
    <3>1. s \in SUBSET (1..n) /\ Cardinality(s) <= 0
      BY DEF UpTo
    <3>2. Cardinality(s) \in Nat /\ (Cardinality(s) = 0 <=> s = {})
      BY <1>0, <3>1, SubsetCard
    <3>. QED
      BY <3>1, <3>2
  <2>2. g = h
    BY <2>1 DEF RootFrom
  <2>3. Roots(b, n, 0, g)
    BY <2>2 DEF Roots
  <2>. HIDE DEF g
  <2>. QED
    BY <2>3
<1>2. ASSUME NEW m \in Nat, m \in N PROVE m + 1 \in N
  <2>1. PICK g : Roots(b, n, m, g)
    BY <1>2
  <2>. DEFINE h == [s \in UpTo(1..n, m + 1) |-> RootFrom(b, s, g)]
              k == [s \in UpTo(1..n, m + 1) |-> RootFrom(b, s, h)]
  <2>2. ASSUME NEW s \in UpTo(1..n, m + 1) PROVE RootFrom(b, s, g) = RootFrom(b, s, h)
    <3>1. CASE s = {}
      BY <3>1 DEF RootFrom
    <3>2. CASE s # {}
      <4>. DEFINE r == s \ {Max(s)}
      <4>1. s \in SUBSET (1..n) /\ Max(s) \in s
        BY <3>2, MaxOf DEF UpTo
      <4>2. /\ Cardinality(s) \in Nat /\ Cardinality(s) <= m + 1
            /\ r \in SUBSET (1..n) /\ Cardinality(r) = Cardinality(s) - 1
        BY <1>0, <4>1, SubsetCard DEF UpTo
      <4>3. r \in UpTo(1..n, m) /\ r \in UpTo(1..n, m + 1)
        BY <4>2 DEF UpTo
      <4>4. g[r] = RootFrom(b, r, g)
        BY <2>1, <4>3 DEF Roots
      <4>5. h[r] = RootFrom(b, r, g)
        BY <4>3
      <4>. QED
        BY <4>4, <4>5 DEF RootFrom
    <3>. QED
      BY <3>1, <3>2
  <2>3. h = k
    <3>1. \A s \in UpTo(1..n, m + 1) : h[s] = RootFrom(b, s, g) /\ k[s] = RootFrom(b, s, h)
      OBVIOUS
    <3>2. \A s \in UpTo(1..n, m + 1) : h[s] = k[s]
      BY <2>2, <3>1
    <3>3. /\ h = [s \in UpTo(1..n, m + 1) |-> h[s]]
          /\ k = [s \in UpTo(1..n, m + 1) |-> k[s]]
      OBVIOUS
    <3>. HIDE DEF h, k
    <3>. QED
      BY <3>2, <3>3
  <2>4. Roots(b, n, m + 1, h)
    BY <2>3 DEF Roots
  <2>. HIDE DEF h
  <2>. QED
    BY <2>4
<1>3. Nat \subseteq N
  <2>. HIDE DEF N
  <2>. QED
    BY <1>1, <1>2, Induction
<1>4. Cardinality(1..n) \in N
  BY <1>0, <1>3
<1>5. UpTo(1..n, Cardinality(1..n)) = SUBSET DOMAIN b
  BY <1>0, SubsetCard DEF UpTo
<1>. QED
  BY <1>4, <1>5 DEF Roots, Roots1

\* The loop of MerkleRoot.
RunningHash(hashes, m, r) ==
    r = [i \in 0..m |-> IF i = 0 THEN Zero ELSE sha256(r[i - 1], hashes[i])]

LEMMA RootFold ==
    ASSUME NEW n \in Nat, NEW b, DOMAIN b = 1..n
    PROVE  SequentialRoot(b)
             = MerkleRoot([i \in 1..n |-> transaction_compute_hash(b[i].tx)])
<1>. DEFINE hashes == [i \in 1..n |-> transaction_compute_hash(b[i].tx)]
            g == CHOOSE g : Roots1(b, g)
            r == CHOOSE r : RunningHash(hashes, n, r)
<1>1. SequentialRoot(b) = g[DOMAIN b]
  BY DEF SequentialRoot, FoldLeft, MapThenFoldSet, Roots1, RootFrom
<1>2. Roots1(b, g)
  BY RootsExist
<1>. HIDE DEF g
<1>3. MerkleRoot(hashes) = r[n]
  <2>1. Len(hashes) = n
    <3>1. hashes = [i \in 1..n |-> hashes[i]]
      OBVIOUS
    <3>. HIDE DEF hashes
    <3>. QED
      BY <3>1, LenOf
  <2>. HIDE DEF hashes
  <2>. QED
    BY <2>1 DEF MerkleRoot, RunningHash
<1>4. /\ g[{}] = Zero
      /\ \A i \in 1..n : g[1..i] = sha256(g[1 .. i - 1], hashes[i])
  <2>1. {} \in SUBSET DOMAIN b
    OBVIOUS
  <2>2. g[{}] = Zero
    BY <1>2, <2>1 DEF Roots1, RootFrom
  <2>3. ASSUME NEW i \in 1..n PROVE g[1..i] = sha256(g[1 .. i - 1], hashes[i])
    <3>. DEFINE s == 1..i
    <3>1. s \in SUBSET (1..n) /\ s # {} /\ i \in s
      OBVIOUS
    <3>2. Max(s) \in s /\ i <= Max(s)
      BY <3>1, MaxOf
    <3>3. Max(s) = i
      BY <3>2
    <3>. DEFINE m == Max(s)
    <3>4. s \ {i} = 1 .. i - 1
      OBVIOUS
    <3>5. g[s] = RootFrom(b, s, g)
      BY <1>2, <3>1 DEF Roots1
    <3>. HIDE DEF s
    <3>6. g[s] = sha256(g[s \ {i}], transaction_compute_hash(b[i].tx))
      BY <3>1, <3>3, <3>5 DEF RootFrom
    <3>7. hashes[i] = transaction_compute_hash(b[i].tx)
      OBVIOUS
    <3>. HIDE DEF hashes
    <3>. QED
      BY <3>4, <3>6, <3>7 DEF s
  <2>. QED
    BY <2>2, <2>3
<1>. HIDE DEF hashes
<1>5. RunningHash(hashes, n, [i \in 0..n |-> g[1..i]])
  <2>. DEFINE w == [i \in 0..n |-> g[1..i]]
              v == [i \in 0..n |-> IF i = 0 THEN Zero ELSE sha256(w[i - 1], hashes[i])]
  <2>1. ASSUME NEW i \in 0..n PROVE w[i] = v[i]
    <3>1. CASE i = 0
      <4>1. 1..i = {}
        BY <3>1
      <4>. QED
        BY <1>4, <3>1, <4>1
    <3>2. CASE i # 0
      <4>1. i \in 1..n /\ i - 1 \in 0..n
        BY <3>2
      <4>2. w[i] = g[1..i] /\ w[i - 1] = g[1 .. i - 1]
        BY <4>1
      <4>3. v[i] = sha256(w[i - 1], hashes[i])
        BY <3>2
      <4>. HIDE DEF w, v
      <4>. QED
        BY <1>4, <4>1, <4>2, <4>3
    <3>. QED
      BY <3>1, <3>2
  <2>2. w = [i \in 0..n |-> w[i]] /\ v = [i \in 0..n |-> v[i]]
    OBVIOUS
  <2>3. w = v
    <3>. HIDE DEF w, v
    <3>. QED
      BY <2>1, <2>2
  <2>. QED
    BY <2>3 DEF RunningHash
<1>6. RunningHash(hashes, n, r)
  BY <1>5
<1>. HIDE DEF r
<1>. DEFINE Q == {i \in Nat : i <= n => r[i] = g[1..i]}
<1>7. 0 \in Q
  <2>1. 1..0 = {} /\ 0 \in 0..n
    OBVIOUS
  <2>2. r[0] = Zero
    BY <1>6, <2>1 DEF RunningHash
  <2>. QED
    BY <1>4, <2>1, <2>2
<1>8. ASSUME NEW i \in Nat, i \in Q PROVE i + 1 \in Q
  <2>. SUFFICES ASSUME i + 1 <= n PROVE r[i + 1] = g[1 .. i + 1]
    OBVIOUS
  <2>1. i + 1 \in 1..n /\ i + 1 \in 0..n /\ i + 1 # 0 /\ (i + 1) - 1 = i
    OBVIOUS
  <2>2. r[i + 1] = sha256(r[i], hashes[i + 1])
    BY <1>6, <2>1 DEF RunningHash
  <2>3. g[1 .. i + 1] = sha256(g[1..i], hashes[i + 1])
    BY <1>4, <2>1
  <2>4. r[i] = g[1..i]
    BY <1>8
  <2>. QED
    BY <2>2, <2>3, <2>4
<1>9. r[n] = g[1..n]
  <2>1. Nat \subseteq Q
    <3>. HIDE DEF Q
    <3>. QED
      BY <1>7, <1>8, Induction
  <2>. QED
    BY <2>1
<1>. QED
  BY <1>1, <1>3, <1>9 DEF hashes

-----------------------------------------------------------------------------
(***************************************************************************)
(* The parallel loop does what a sequential one does: an entry of          *)
(* tx_hashes is written once its iteration has run, and what the threads   *)
(* have added up, or hold still, is the fees of the iterations that ran.   *)
(***************************************************************************)
HashAt(i) == transaction_compute_hash(buf[i].tx)

Reached(i) ==
    \E t \in OmpThreads :
        i \in ChunkStart(t, Len(buf)) + 1 .. ChunkStart(t, Len(buf)) + iter[t]

Owed == [t \in OmpThreads |-> IF t \in joined THEN 0 ELSE private_fees[t]]
Earned == [i \in 1..Len(buf) |-> IF Reached(i) THEN buf[i].tx.fee ELSE 0]

LoopTypes ==
    /\ stage \in {"wallet", "wire", "loop", "done"}
    /\ iter \in [OmpThreads -> Nat]
    /\ private_fees \in [OmpThreads -> Int]
    /\ joined \in SUBSET OmpThreads
    /\ total_fees \in Int

NotStarted ==
    stage \in {"wallet", "wire"} =>
        /\ \A t \in OmpThreads : iter[t] = 0 /\ private_fees[t] = 0
        /\ joined = {} /\ total_fees = 0

IterationsCounted ==
    /\ \A t \in OmpThreads : iter[t] <= ChunkLength(t, Len(buf))
    /\ \A t \in joined : iter[t] = ChunkLength(t, Len(buf))

HashesWritten ==
    tx_hashes = [i \in 1..Len(buf) |-> IF Reached(i) THEN HashAt(i) ELSE Zero]

FeesBalance ==
    total_fees + SumFunctionOnSet(Owed, OmpThreads)
      = SumFunctionOnSet(Earned, 1..Len(buf))

LoopParts ==
    stage = "loop" => IterationsCounted /\ HashesWritten /\ FeesBalance

LoopInv == LoopTypes /\ NotStarted /\ LoopParts /\ SummarySequential

LEMMA ThreadsFinite == IsFiniteSet(OmpThreads) /\ OmpThreads \subseteq Nat
<1>1. 0 \in Int /\ par_threads - 1 \in Int
  BY PathBoundsAssumption
<1>. QED
  BY <1>1, FS_Interval DEF OmpThreads

LEMMA BufFacts ==
    ASSUME ArriveInv, stage \in {"loop", "done"}
    PROVE  /\ Len(buf) \in Nat /\ DOMAIN buf = 1..Len(buf)
           /\ IsFiniteSet(1..Len(buf))
           /\ \A i \in 1..Len(buf) : buf[i].tx.fee \in Int
<1>1. buf \in Seq(Made)
  BY ChosenType DEF ArriveInv, MadeInv, ArrivesUnchanged
<1>2. \A e \in Made : e.tx.fee \in Int
  BY DEF ArriveInv, MadeInv, Fee
<1>3. /\ Len(buf) \in Nat /\ DOMAIN buf = 1..Len(buf)
      /\ \A i \in 1..Len(buf) : buf[i] \in Made
  BY <1>1
<1>4. IsFiniteSet(1..Len(buf))
  BY <1>3, FS_Interval
<1>. QED
  BY <1>2, <1>3, <1>4

\* Nothing has run yet when the batch arrives.
LEMMA LoopStarts ==
    ASSUME LoopInv, BatchInv, ArriveInv, NEW verifies \in BOOLEAN, Receive(verifies)
    PROVE  LoopInv'
<1>1. /\ stage = "wire" /\ stage' = "loop"
      /\ UNCHANGED <<iter, private_fees, joined, total_fees, summary>>
      /\ tx_hashes' = [i \in 1..Len(buf') |-> Zero]
  BY DEF Receive
<1>2. /\ \A t \in OmpThreads : iter'[t] = 0 /\ private_fees'[t] = 0
      /\ joined' = {} /\ total_fees' = 0
  BY <1>1 DEF LoopInv, NotStarted
<1>3. Len(buf') \in Nat /\ IsFiniteSet(1..Len(buf'))
  <2>1. buf' = Chosen(made, {e \in ToSet(made) : g_verify' => Genuine(e)})
    BY Receiving DEF ArriveInv, BatchInv
  <2>2. buf' \in Seq(Made)
    BY <2>1, ChosenType DEF ArriveInv, MadeInv
  <2>3. Len(buf') \in Nat
    BY <2>2
  <2>. QED
    BY <2>3, FS_Interval
<1>. DEFINE n == Len(buf')
<1>4. \A t \in OmpThreads : ChunkStart(t, n) \in Nat /\ ChunkLength(t, n) \in Nat
  BY <1>3, Chunks
<1>5. IterationsCounted'
  BY <1>2, <1>4 DEF IterationsCounted
<1>6. \A i \in 1..n : ~Reached(i)'
  BY <1>2, <1>4 DEF Reached
<1>7. HashesWritten'
  BY <1>1, <1>6 DEF HashesWritten
<1>8. FeesBalance'
  <2>1. Owed' \in [OmpThreads -> Int] /\ \A t \in OmpThreads : Owed'[t] = 0
    BY <1>2 DEF Owed
  <2>2. Earned' \in [1..n -> Int] /\ \A i \in 1..n : Earned'[i] = 0
    BY <1>6 DEF Earned
  <2>3. SumFunctionOnSet(Owed', OmpThreads) = 0
    BY <2>1, ThreadsFinite, SumZero
  <2>4. SumFunctionOnSet(Earned', 1..n) = 0
    BY <1>3, <2>2, SumZero
  <2>. QED
    BY <1>2, <2>3, <2>4 DEF FeesBalance
<1>9. LoopTypes' /\ NotStarted' /\ SummarySequential'
  BY <1>1 DEF LoopInv, LoopTypes, NotStarted, SummarySequential
<1>. QED
  BY <1>5, <1>7, <1>8, <1>9 DEF LoopInv, LoopParts

\* An iteration adds its own index to those that have run.
LEMMA OneMore ==
    ASSUME LoopInv, ArriveInv, NEW t \in OmpThreads, RunIteration(t)
    PROVE  LET i == ChunkStart(t, Len(buf)) + iter[t] + 1
           IN  /\ i \in 1..Len(buf) /\ ~Reached(i)
               /\ \A j \in 1..Len(buf) : Reached(j)' <=> Reached(j) \/ j = i
<1>. DEFINE n == Len(buf)
            i == ChunkStart(t, n) + iter[t] + 1
<1>1. stage = "loop" /\ iter[t] < ChunkLength(t, n) /\ UNCHANGED buf
      /\ iter' = [iter EXCEPT ![t] = @ + 1] /\ iter \in [OmpThreads -> Nat]
  BY DEF RunIteration, LoopInv, LoopTypes
<1>2. n \in Nat
  BY <1>1, BufFacts
<1>3. \A s \in OmpThreads : iter[s] <= ChunkLength(s, n)
  BY <1>1 DEF LoopInv, LoopParts, IterationsCounted
<1>. DEFINE from == [s \in OmpThreads |-> ChunkStart(s, n)]
            size == [s \in OmpThreads |-> ChunkLength(s, n)]
<1>4. /\ \A s \in OmpThreads : /\ from[s] \in Nat /\ size[s] \in Nat
                               /\ from[s] + size[s] <= n
                               /\ from[s] = ChunkStart(s, n)
                               /\ size[s] = ChunkLength(s, n)
      /\ \A s, u \in OmpThreads : s < u => from[s] + size[s] <= from[u]
  BY <1>2, Chunks
<1>. HIDE DEF from, size
<1>5. i = from[t] + iter[t] + 1
  BY <1>4
<1>6. /\ \A j : Reached(j) <=> \E s \in OmpThreads : j \in from[s] + 1 .. from[s] + iter[s]
      /\ \A j : Reached(j)' <=> \E s \in OmpThreads : j \in from[s] + 1 .. from[s] + iter'[s]
  BY <1>1, <1>4 DEF Reached
<1>. HIDE DEF n, i
<1>7. i \in 1..n
  BY <1>1, <1>2, <1>4, <1>5
<1>8. ~Reached(i)
  <2>. SUFFICES ASSUME NEW s \in OmpThreads, i \in from[s] + 1 .. from[s] + iter[s]
                PROVE  FALSE
    BY <1>6
  <2>1. /\ iter[s] \in Nat /\ iter[t] \in Nat /\ iter[s] <= size[s] /\ iter[t] < size[t]
        /\ from[s] \in Nat /\ size[s] \in Nat /\ from[t] \in Nat /\ size[t] \in Nat
    BY <1>1, <1>3, <1>4
  <2>2. s \in Nat /\ t \in Nat
    BY ThreadsFinite
  <2>3. s < t => from[s] + size[s] <= from[t]
    BY <1>4
  <2>4. t < s => from[t] + size[t] <= from[s]
    BY <1>4
  <2>5. CASE s = t
    BY <1>5, <2>1, <2>5
  <2>6. CASE s # t
    BY <1>5, <2>1, <2>2, <2>3, <2>4, <2>6
  <2>. QED
    BY <2>5, <2>6
<1>9. ASSUME NEW j \in 1..n PROVE Reached(j)' <=> Reached(j) \/ j = i
  <2>1. /\ iter'[t] = iter[t] + 1 /\ iter[t] \in Nat /\ from[t] \in Nat
        /\ \A s \in OmpThreads : s # t => iter'[s] = iter[s]
    BY <1>1, <1>4
  <2>2. j \in from[t] + 1 .. from[t] + iter'[t]
          <=> j \in from[t] + 1 .. from[t] + iter[t] \/ j = i
    BY <1>2, <1>5, <2>1
  <2>. QED
    BY <1>6, <2>1, <2>2
<1>. QED
  BY <1>7, <1>8, <1>9 DEF n, i

LEMMA LoopRuns ==
    ASSUME LoopInv, ArriveInv, NEW t \in OmpThreads, RunIteration(t)
    PROVE  LoopInv'
<1>. DEFINE n == Len(buf)
            i == ChunkStart(t, n) + iter[t] + 1
            fee == buf[i].tx.fee
<1>1. /\ stage = "loop" /\ stage' = "loop" /\ iter[t] < ChunkLength(t, n)
      /\ UNCHANGED <<buf, joined, total_fees, summary>>
      /\ private_fees' = [private_fees EXCEPT ![t] = @ + fee]
      /\ tx_hashes' = [tx_hashes EXCEPT ![i] = HashAt(i)]
      /\ iter' = [iter EXCEPT ![t] = @ + 1]
  BY DEF RunIteration, Private, HashAt
<1>2. /\ iter \in [OmpThreads -> Nat] /\ private_fees \in [OmpThreads -> Int]
      /\ joined \in SUBSET OmpThreads /\ total_fees \in Int
      /\ IterationsCounted /\ HashesWritten /\ FeesBalance
  BY <1>1 DEF LoopInv, LoopTypes, LoopParts
<1>3. /\ n \in Nat /\ IsFiniteSet(1..n)
      /\ \A j \in 1..n : buf[j].tx.fee \in Int
  BY <1>1, BufFacts
<1>4. /\ i \in 1..n /\ ~Reached(i)
      /\ \A j \in 1..n : Reached(j)' <=> Reached(j) \/ j = i
  BY OneMore
<1>5. t \notin joined
  <2>1. iter[t] \in Nat /\ ChunkLength(t, n) \in Nat
    BY <1>2, <1>3, Chunks
  <2>. QED
    BY <1>1, <1>2, <2>1 DEF IterationsCounted
<1>6. fee \in Int
  BY <1>3, <1>4
<1>. HIDE DEF i, fee
<1>7. IterationsCounted'
  <2>1. \A s \in OmpThreads : iter[s] \in Nat /\ ChunkLength(s, n) \in Nat
    BY <1>2, <1>3, Chunks
  <2>2. \A s \in OmpThreads : iter'[s] <= ChunkLength(s, n)
    BY <1>1, <1>2, <2>1 DEF IterationsCounted
  <2>3. \A s \in joined : iter'[s] = ChunkLength(s, n)
    BY <1>1, <1>2, <1>5 DEF IterationsCounted
  <2>. QED
    BY <1>1, <2>2, <2>3 DEF IterationsCounted
<1>8. HashesWritten'
  <2>. DEFINE new == [j \in 1..n |-> IF Reached(j)' THEN HashAt(j) ELSE Zero]
  <2>1. DOMAIN tx_hashes = 1..n
        /\ \A j \in 1..n : tx_hashes[j] = IF Reached(j) THEN HashAt(j) ELSE Zero
    BY <1>2 DEF HashesWritten
  <2>2. tx_hashes' = [j \in 1..n |-> IF j = i THEN HashAt(i) ELSE tx_hashes[j]]
    BY <1>1, <1>4, <2>1
  <2>3. ASSUME NEW j \in 1..n
        PROVE  (IF j = i THEN HashAt(i) ELSE tx_hashes[j])
                 = IF Reached(j)' THEN HashAt(j) ELSE Zero
    BY <1>4, <2>1
  <2>4. tx_hashes' = new
    BY <2>2, <2>3
  <2>5. \A j : HashAt(j)' = HashAt(j)
    BY <1>1 DEF HashAt
  <2>. QED
    BY <1>1, <2>4, <2>5 DEF HashesWritten
<1>9. FeesBalance'
  <2>1. /\ Owed \in [OmpThreads -> Int] /\ Owed' \in [OmpThreads -> Int]
        /\ \A s \in OmpThreads \ {t} : Owed'[s] = Owed[s]
        /\ Owed'[t] = Owed[t] + fee /\ Owed[t] \in Int
    BY <1>1, <1>2, <1>5, <1>6 DEF Owed
  <2>2. /\ Earned \in [1..n -> Int] /\ Earned' \in [1..n -> Int]
        /\ \A j \in 1..n \ {i} : Earned'[j] = Earned[j]
        /\ Earned'[i] = fee /\ Earned[i] = 0
    BY <1>1, <1>3, <1>4 DEF Earned, fee
  <2>3. SumFunctionOnSet(Owed', OmpThreads)
          = SumFunctionOnSet(Owed, OmpThreads) + Owed'[t] - Owed[t]
    <3>. DEFINE f == Owed
                h == Owed'
    <3>1. /\ f \in [OmpThreads -> Int] /\ h \in [OmpThreads -> Int]
          /\ \A s \in OmpThreads \ {t} : h[s] = f[s]
      BY <2>1
    <3>2. IsFiniteSet(OmpThreads) /\ t \in OmpThreads
      BY ThreadsFinite
    <3>. HIDE DEF f, h
    <3>3. SumFunctionOnSet(h, OmpThreads) = SumFunctionOnSet(f, OmpThreads) + h[t] - f[t]
      BY <3>1, <3>2, SumChange, SMTT(60)
    <3>. QED
      BY <3>3 DEF f, h
  <2>4. SumFunctionOnSet(Earned', 1..n)
          = SumFunctionOnSet(Earned, 1..n) + Earned'[i] - Earned[i]
    <3>. DEFINE I == 1..n
    <3>1. /\ IsFiniteSet(I) /\ i \in I
          /\ Earned \in [I -> Int] /\ Earned' \in [I -> Int]
          /\ \A j \in I \ {i} : Earned'[j] = Earned[j]
      BY <1>3, <1>4, <2>2
    <3>. HIDE DEF I
    <3>2. SumFunctionOnSet(Earned', I)
            = SumFunctionOnSet(Earned, I) + Earned'[i] - Earned[i]
      BY <3>1, SumChange
    <3>. QED
      BY <3>2 DEF I
  <2>5. /\ SumFunctionOnSet(Owed, OmpThreads) \in Int
        /\ SumFunctionOnSet(Earned, 1..n) \in Int
    BY <1>3, <2>1, <2>2, ThreadsFinite, SumType
  <2>6. total_fees + SumFunctionOnSet(Owed, OmpThreads) = SumFunctionOnSet(Earned, 1..n)
    BY <1>2 DEF FeesBalance
  <2>. DEFINE o == SumFunctionOnSet(Owed, OmpThreads)
              e == SumFunctionOnSet(Earned, 1..n)
              oo == SumFunctionOnSet(Owed', OmpThreads)
              ee == SumFunctionOnSet(Earned', 1..n)
  <2>7. total_fees + oo = ee
    <3>1. oo = o + fee
      <4>. HIDE DEF o, oo
      <4>1. oo = o + Owed'[t] - Owed[t] /\ o \in Int
        BY <2>3, <2>5 DEF o, oo
      <4>. QED
        BY <1>6, <2>1, <4>1
    <3>2. ee = e + fee
      <4>. HIDE DEF e, ee
      <4>1. ee = e + Earned'[i] - Earned[i] /\ e \in Int
        BY <2>4, <2>5 DEF e, ee
      <4>. QED
        BY <1>6, <2>2, <4>1
    <3>. HIDE DEF o, e, oo, ee
    <3>3. total_fees + o = e /\ o \in Int /\ e \in Int
      BY <2>5, <2>6 DEF o, e
    <3>. QED
      BY <1>2, <1>6, <3>1, <3>2, <3>3
  <2>. QED
    BY <1>1, <2>7 DEF FeesBalance
<1>10. LoopTypes'
  BY <1>1, <1>2, <1>6 DEF LoopTypes
<1>11. NotStarted' /\ SummarySequential'
  BY <1>1 DEF NotStarted, SummarySequential
<1>. QED
  BY <1>7, <1>8, <1>9, <1>10, <1>11 DEF LoopInv, LoopParts

\* A thread that joins hands over what it owes.
LEMMA LoopJoins ==
    ASSUME LoopInv, ArriveInv, NEW t \in OmpThreads, Join(t)
    PROVE  LoopInv'
<1>1. /\ stage = "loop" /\ stage' = "loop" /\ t \notin joined
      /\ iter[t] = ChunkLength(t, Len(buf))
      /\ joined' = joined \cup {t}
      /\ total_fees' = total_fees + private_fees[t]
      /\ UNCHANGED <<buf, iter, private_fees, tx_hashes, summary>>
  BY DEF Join, Private
<1>2. /\ iter \in [OmpThreads -> Nat] /\ private_fees \in [OmpThreads -> Int]
      /\ joined \in SUBSET OmpThreads /\ total_fees \in Int
      /\ IterationsCounted /\ HashesWritten /\ FeesBalance
  BY <1>1 DEF LoopInv, LoopTypes, LoopParts
<1>3. IterationsCounted'
  BY <1>1, <1>2 DEF IterationsCounted
<1>4. \A j : Reached(j)' <=> Reached(j)
  BY <1>1 DEF Reached
<1>5. HashesWritten'
  BY <1>1, <1>2, <1>4 DEF HashesWritten, HashAt
<1>6. Earned' = Earned
  BY <1>1, <1>4 DEF Earned
<1>7. FeesBalance'
  <2>1. /\ Owed \in [OmpThreads -> Int] /\ Owed' \in [OmpThreads -> Int]
        /\ \A s \in OmpThreads \ {t} : Owed'[s] = Owed[s]
        /\ Owed'[t] = 0 /\ Owed[t] = private_fees[t] /\ private_fees[t] \in Int
    BY <1>1, <1>2 DEF Owed
  <2>. DEFINE o == SumFunctionOnSet(Owed, OmpThreads)
              oo == SumFunctionOnSet(Owed', OmpThreads)
  <2>2. oo = o + Owed'[t] - Owed[t]
    <3>. DEFINE f == Owed
                h == Owed'
    <3>1. /\ f \in [OmpThreads -> Int] /\ h \in [OmpThreads -> Int]
          /\ \A s \in OmpThreads \ {t} : h[s] = f[s]
      BY <2>1
    <3>2. IsFiniteSet(OmpThreads) /\ t \in OmpThreads
      BY ThreadsFinite
    <3>. HIDE DEF f, h
    <3>3. SumFunctionOnSet(h, OmpThreads) = SumFunctionOnSet(f, OmpThreads) + h[t] - f[t]
      BY <3>1, <3>2, SumChange, SMTT(60)
    <3>. QED
      BY <3>3 DEF f, h
  <2>3. o \in Int
    BY <2>1, ThreadsFinite, SumType
  <2>. HIDE DEF o, oo
  <2>4. total_fees' + oo = total_fees + o
    BY <1>1, <1>2, <2>1, <2>2, <2>3
  <2>. QED
    BY <1>1, <1>2, <1>6, <2>4 DEF FeesBalance, o, oo
<1>8. LoopTypes'
  <2>1. total_fees' \in Int
    BY <1>1, <1>2
  <2>. QED
    BY <1>1, <1>2, <2>1 DEF LoopTypes
<1>9. NotStarted' /\ SummarySequential'
  BY <1>1 DEF NotStarted, SummarySequential
<1>. QED
  BY <1>3, <1>5, <1>7, <1>8, <1>9 DEF LoopInv, LoopParts

\* When all have joined, all iterations have run and nothing is owed.
LEMMA LoopEnds ==
    ASSUME LoopInv, ArriveInv, Summarize
    PROVE  LoopInv'
<1>. DEFINE n == Len(buf)
<1>1. /\ stage = "loop" /\ stage' = "done" /\ joined = OmpThreads
      /\ summary' = [tx_count |-> n, total_fees |-> total_fees,
                     merkle_root |-> MerkleRoot(tx_hashes)]
      /\ UNCHANGED <<buf, iter, private_fees, joined, total_fees>>
  BY DEF Summarize, loopVars
<1>2. LoopTypes /\ IterationsCounted /\ HashesWritten /\ FeesBalance
  BY <1>1 DEF LoopInv, LoopParts
<1>3. /\ n \in Nat /\ DOMAIN buf = 1..n /\ IsFiniteSet(1..n)
      /\ \A j \in 1..n : buf[j].tx.fee \in Int
  BY <1>1, BufFacts
<1>4. \A j \in 1..n : Reached(j)
  <2>1. \A t \in OmpThreads : iter[t] = ChunkLength(t, n)
    BY <1>1, <1>2 DEF IterationsCounted
  <2>. QED
    BY <1>3, <2>1, ChunksCover DEF Reached
<1>5. tx_hashes = [j \in 1..n |-> transaction_compute_hash(buf[j].tx)]
  BY <1>2, <1>4 DEF HashesWritten, HashAt
<1>6. Earned = [j \in 1..n |-> buf[j].tx.fee]
  BY <1>4 DEF Earned
<1>7. total_fees = SumFunctionOnSet(Earned, 1..n)
  <2>1. Owed \in [OmpThreads -> Int] /\ \A t \in OmpThreads : Owed[t] = 0
    BY <1>1 DEF Owed
  <2>2. SumFunctionOnSet(Owed, OmpThreads) = 0
    BY <2>1, ThreadsFinite, SumZero
  <2>. QED
    BY <1>2, <2>2 DEF FeesBalance, LoopTypes
<1>8. total_fees = SequentialFees(buf)
  BY <1>3, <1>6, <1>7, FeesFold
<1>9. MerkleRoot(tx_hashes) = SequentialRoot(buf)
  BY <1>3, <1>5, RootFold
<1>10. /\ summary'.tx_count = n /\ summary'.total_fees = total_fees
       /\ summary'.merkle_root = MerkleRoot(tx_hashes)
  BY <1>1
<1>11. SummarySequential'
  BY <1>1, <1>8, <1>9, <1>10 DEF SummarySequential
<1>12. LoopTypes' /\ NotStarted' /\ LoopParts'
  BY <1>1, <1>2 DEF LoopTypes, NotStarted, LoopParts
<1>. QED
  BY <1>11, <1>12 DEF LoopInv

LEMMA LoopStep ==
    BatchInv /\ ArriveInv /\ LoopInv /\ [PathNext]_pathVars => LoopInv'
<1>. SUFFICES ASSUME BatchInv, ArriveInv, LoopInv, [PathNext]_pathVars
              PROVE  LoopInv'
  OBVIOUS
<1>. DEFINE Before == /\ UNCHANGED <<buf, loopVars, summary>>
                      /\ \/ stage' = stage
                         \/ stage = "wallet" /\ stage' = "wire"
<1>1. CASE Before
  <2>1. UNCHANGED <<iter, private_fees, joined, total_fees, tx_hashes, buf, summary>>
    BY <1>1 DEF loopVars
  <2>2. LoopTypes' /\ NotStarted'
    BY <1>1, <2>1 DEF LoopInv, LoopTypes, NotStarted
  <2>3. stage' = "loop" => stage = "loop"
    BY <1>1
  <2>4. /\ IterationsCounted => IterationsCounted'
        /\ HashesWritten => HashesWritten'
        /\ FeesBalance => FeesBalance'
    BY <2>1 DEF IterationsCounted, HashesWritten, FeesBalance, Reached, HashAt,
                Owed, Earned
  <2>5. SummarySequential'
    BY <1>1, <2>1 DEF LoopInv, SummarySequential
  <2>. QED
    BY <2>2, <2>3, <2>4, <2>5 DEF LoopInv, LoopParts
<1>2. ASSUME NEW verifies \in BOOLEAN, Receive(verifies) PROVE LoopInv'
  BY <1>2, LoopStarts
<1>3. ASSUME NEW t \in OmpThreads, RunIteration(t) PROVE LoopInv'
  BY <1>3, LoopRuns
<1>4. ASSUME NEW t \in OmpThreads, Join(t) PROVE LoopInv'
  BY <1>4, LoopJoins
<1>5. CASE Summarize
  BY <1>5, LoopEnds
<1>6. \/ Before
      \/ \E verifies \in BOOLEAN : Receive(verifies)
      \/ \E t \in OmpThreads : RunIteration(t)
      \/ \E t \in OmpThreads : Join(t)
      \/ Summarize
  <2>1. WalletStep => Before
    BY DEF WalletStep
  <2>2. ASSUME NEW to \in Names, NEW amount \in Values,
               NEW signs \in BoundedSeq(BOOLEAN, MaxTxs), MakeBatch(to, amount, signs)
        PROVE  Before
    BY <2>2 DEF MakeBatch
  <2>3. UNCHANGED pathVars => Before
    BY DEF pathVars
  <2>. HIDE DEF Before
  <2>. QED
    BY <2>1, <2>2, <2>3 DEF PathNext, Worker
<1>. QED
  BY <1>1, <1>2, <1>3, <1>4, <1>5, <1>6

LEMMA LoopInit == PathInit => LoopInv
  BY DEF PathInit, LoopInv, LoopTypes, NotStarted, LoopParts, SummarySequential

THEOREM LoopInvariance == PathSpec => []LoopInv
  BY BatchInvariance, ArriveInvariance, LoopInit, LoopStep, PTL DEF PathSpec

\* The loop of process_transactions (shard_worker.c:205-246), for any number of
\* OpenMP threads in any order: no fee is added twice or left out, and the root
\* is over the hashes in the order of the stream.
THEOREM SummariesSequential == PathSpec => []SummarySequential
<1>1. LoopInv => SummarySequential
  BY DEF LoopInv
<1>. QED
  BY <1>1, LoopInvariance, PTL

-----------------------------------------------------------------------------
(***************************************************************************)
(* Hexadecimal text.                                                       *)
(***************************************************************************)

\* The digit of a value has that value.
LEMMA DigitValue ==
    ASSUME NEW d \in 0..15
    PROVE  hex_chars[d] \in Char /\ hex_char_value(hex_chars[d]) = d
<1>1. CASE d < 10
  <2>1. hex_chars[d] = 48 + d
    BY <1>1 DEF hex_chars
  <2>2. 48 + d \in 48..57
    BY <1>1
  <2>. QED
    BY <2>1, <2>2 DEF hex_char_value, Char
<1>2. CASE d >= 10
  <2>1. hex_chars[d] = 87 + d
    BY <1>2 DEF hex_chars
  <2>2. 87 + d \in 97..102 /\ 87 + d \notin 48..57
    BY <1>2
  <2>. QED
    BY <2>1, <2>2 DEF hex_char_value, Char
<1>. QED
  BY <1>1, <1>2

\* A byte is made of its two digits.
LEMMA DigitsOfByte ==
    ASSUME NEW b \in Byte
    PROVE  /\ b \div 16 \in 0..15 /\ b % 16 \in 0..15
           /\ b = 16 * (b \div 16) + (b % 16)
  BY DEF Byte

\* The text has two digits for each byte: the high one first.
LEMMA TextOfBytes ==
    ASSUME NEW bytes \in Seq(Byte)
    PROVE  /\ Len(bytes_to_hex(bytes)) = 2 * Len(bytes)
           /\ \A i \in 1..Len(bytes) :
                /\ bytes_to_hex(bytes)[2 * i - 1] = hex_chars[bytes[i] \div 16]
                /\ bytes_to_hex(bytes)[2 * i] = hex_chars[bytes[i] % 16]
<1>. DEFINE n == Len(bytes)
<1>1. n \in Nat
  OBVIOUS
<1>2. Len(bytes_to_hex(bytes)) = 2 * n
  <2>. DEFINE F(i) == IF i % 2 = 1 THEN HighDigit(bytes[(i + 1) \div 2])
                                   ELSE LowDigit(bytes[i \div 2])
  <2>1. bytes_to_hex(bytes) = [i \in 1 .. 2 * n |-> F(i)]
    BY DEF bytes_to_hex
  <2>. HIDE DEF F, n
  <2>. QED
    BY <1>1, <2>1
<1>3. ASSUME NEW i \in 1..n
      PROVE  /\ bytes_to_hex(bytes)[2 * i - 1] = hex_chars[bytes[i] \div 16]
             /\ bytes_to_hex(bytes)[2 * i] = hex_chars[bytes[i] % 16]
  <2>1. /\ 2 * i - 1 \in 1 .. 2 * n /\ 2 * i \in 1 .. 2 * n
        /\ (2 * i - 1) % 2 = 1 /\ (2 * i) % 2 # 1
        /\ ((2 * i - 1) + 1) \div 2 = i /\ (2 * i) \div 2 = i
    <3>. HIDE DEF n
    <3>. QED
      BY <1>1
  <2>2. bytes_to_hex(bytes)[2 * i - 1] = HighDigit(bytes[i])
    BY <2>1 DEF bytes_to_hex
  <2>3. bytes_to_hex(bytes)[2 * i] = LowDigit(bytes[i])
    BY <2>1 DEF bytes_to_hex
  <2>. QED
    BY <2>2, <2>3 DEF HighDigit, LowDigit
<1>. QED
  BY <1>2, <1>3

\* Every character of the text is a digit, and its bytes are the ones it is of.
LEMMA TextReadsBack ==
    ASSUME NEW bytes \in Seq(Byte)
    PROVE  /\ \A i \in 1 .. 2 * Len(bytes) : IsHexDigit(bytes_to_hex(bytes)[i])
           /\ hex_to_bytes_buf(bytes_to_hex(bytes), Len(bytes)) = bytes
<1>. DEFINE n == Len(bytes)
            hex == bytes_to_hex(bytes)
<1>1. ASSUME NEW i \in 1..n
      PROVE  /\ hex_char_value(hex[2 * i - 1]) = bytes[i] \div 16
             /\ hex_char_value(hex[2 * i]) = bytes[i] % 16
             /\ bytes[i] \in Byte
             /\ bytes[i] \div 16 \in 0..15 /\ bytes[i] % 16 \in 0..15
             /\ bytes[i] = 16 * (bytes[i] \div 16) + (bytes[i] % 16)
  <2>1. bytes[i] \in Byte
    OBVIOUS
  <2>2. /\ bytes[i] \div 16 \in 0..15 /\ bytes[i] % 16 \in 0..15
        /\ bytes[i] = 16 * (bytes[i] \div 16) + (bytes[i] % 16)
    BY <2>1, DigitsOfByte
  <2>3. /\ hex[2 * i - 1] = hex_chars[bytes[i] \div 16]
        /\ hex[2 * i] = hex_chars[bytes[i] % 16]
    BY TextOfBytes
  <2>4. /\ hex_char_value(hex_chars[bytes[i] \div 16]) = bytes[i] \div 16
        /\ hex_char_value(hex_chars[bytes[i] % 16]) = bytes[i] % 16
    BY <2>2, DigitValue
  <2>. QED
    BY <2>1, <2>2, <2>3, <2>4
<1>2. ASSUME NEW i \in 1 .. 2 * n
      PROVE  IsHexDigit(hex[i])
  <2>1. n \in Nat
    OBVIOUS
  <2>2. PICK j \in 1..n : i = 2 * j - 1 \/ i = 2 * j
    <3>1. CASE i % 2 = 0
      <4>1. i \div 2 \in 1..n /\ i = 2 * (i \div 2)
        <5>. HIDE DEF n
        <5>. QED
          BY <2>1, <3>1
      <4>. QED
        BY <4>1
    <3>2. CASE i % 2 # 0
      <4>1. (i + 1) \div 2 \in 1..n /\ i = 2 * ((i + 1) \div 2) - 1
        <5>. HIDE DEF n
        <5>. QED
          BY <2>1, <3>2
      <4>. QED
        BY <4>1
    <3>. QED
      BY <3>1, <3>2
  <2>3. hex_char_value(hex[i]) \in 0..15
    BY <1>1, <2>2
  <2>. QED
    BY <2>3 DEF IsHexDigit
<1>3. hex_to_bytes_buf(hex, n) =
        [i \in 1..n |-> 16 * hex_char_value(hex[2 * i - 1]) + hex_char_value(hex[2 * i])]
  <2>. HIDE DEF n, hex
  <2>. QED
    BY <1>2 DEF hex_to_bytes_buf
<1>4. \A i \in 1..n :
        16 * hex_char_value(hex[2 * i - 1]) + hex_char_value(hex[2 * i]) = bytes[i]
  BY <1>1
<1>5. bytes = [i \in 1..n |-> bytes[i]]
  OBVIOUS
<1>6. hex_to_bytes_buf(hex, n) = [i \in 1..n |-> bytes[i]]
  <2>. HIDE DEF n, hex
  <2>. QED
    BY <1>3, <1>4
<1>. QED
  BY <1>2, <1>5, <1>6

\* hex_to_bytes gives back what bytes_to_hex was given (common.c:74 and 101).
THEOREM HexRoundTrip ==
    ASSUME NEW bytes \in Seq(Byte)
    PROVE  hex_to_bytes(bytes_to_hex(bytes)) = bytes
<1>. DEFINE n == Len(bytes)
<1>1. Len(bytes_to_hex(bytes)) = 2 * n
  BY TextOfBytes
<1>2. (2 * n) % 2 = 0 /\ (2 * n) \div 2 = n
  <2>1. n \in Nat
    OBVIOUS
  <2>. HIDE DEF n
  <2>. QED
    BY <2>1
<1>. QED
  BY <1>1, <1>2, TextReadsBack DEF hex_to_bytes

\* A transaction's struct survives its hexadecimal form (transaction.c:245
\* and 249): no byte of the 128 is lost or moved.
THEOREM StructRoundTrip ==
    ASSUME NEW struct \in Seq(Byte), Len(struct) = TX_TOTAL_SIZE
    PROVE  transaction_deserialize(transaction_serialize(struct)) = struct
  BY TextOfBytes, TextReadsBack
     DEF transaction_deserialize, transaction_serialize

\* The text of an address is taken for an address, not for a name, and parses
\* back to it (wallet.c:250, 267 and 271): paying to the address a wallet shows
\* pays that wallet.
THEOREM AddressRoundTrip ==
    ASSUME NEW address \in Seq(Byte), Len(address) = TX_ADDRESS_LENGTH
    PROVE  /\ wallet_is_hex_address(address_to_hex(address))
           /\ hex_to_address(address_to_hex(address)) = address
  BY TextOfBytes, TextReadsBack
     DEF wallet_is_hex_address, hex_to_address, address_to_hex
=============================================================================
