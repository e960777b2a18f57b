------------------------------ MODULE Transaction ------------------------------
(***************************************************************************)
(* Transactions as values: how one is created, hashed, signed and verified *)
(* (src/src/transaction.c, src/src/wallet.c), and how it is carried in a    *)
(* protobuf message (src/proto/blockchain.pb-c.c, src/main.c,              *)
(* src/src/receiver.c).                                                    *)
(*                                                                         *)
(* A byte array is opaque: a public key says whose it is, an address which *)
(* public key it was derived from, a signature whose it is and over what.  *)
(* That is what BLAKE3 and Ed25519 are assumed to be: free of collisions,  *)
(* and right.  Integers are below 2^32 or 2^64 as the struct has them.     *)
(***************************************************************************)
EXTENDS Integers, Sequences

CONSTANTS
    Key,              \* the private keys
    NoKey,            \* wallet->evp_key = NULL
    Nonces, Heights, Values, Fees    \* values of the integer fields

ASSUME KeyAssumption == NoKey \notin Key
ASSUME FieldsAssumption ==
    /\ {Nonces, Heights, Values, Fees} \subseteq SUBSET Nat
    /\ 0 \in Heights /\ 0 \in Fees

\* A byte array that is all zeros, and a piece of one.
Zero == [is |-> "zero"]
Part(b) == [is |-> "part", of |-> b]

PublicKey(k) == [is |-> "pubkey", key |-> k]
wallet_derive_address(pubkey) == [is |-> "address", of |-> pubkey]
COINBASE_ADDRESS == [is |-> "coinbase"]
Signature(k, hash) == [is |-> "signature", key |-> k, over |-> hash]

\* wallet->public_key stays zero in a wallet without a key.
PublicKeyOf(k) == IF k = NoKey THEN Zero ELSE PublicKey(k)

PublicKeys == {PublicKey(k) : k \in Key} \cup {Zero}
Addresses == {wallet_derive_address(PublicKey(k)) : k \in Key}
             \cup {Zero, COINBASE_ADDRESS}
Hashes == [nonce : Nonces, expiry_block : Heights, source_address : Addresses,
           dest_address : Addresses, value : Values, fee : Fees]
Signatures == {Signature(k, h) : k \in Key, h \in Hashes} \cup {Zero}
Transactions ==
    [nonce : Nonces, expiry_block : Heights, source_address : Addresses,
     dest_address : Addresses, value : Values, fee : Fees,
     signature : Signatures]

-----------------------------------------------------------------------------
(***************************************************************************)
(* Seeded faults, substituted one at a time to show that a property fails. *)
(***************************************************************************)
FaultyTxOfPb(pt) ==
    [nonce |-> pt.nonce, expiry_block |-> 0,
     source_address |-> pt.source_address.data,
     dest_address |-> pt.dest_address.data, value |-> pt.value,
     fee |-> pt.fee, signature |-> pt.signature.data]

-----------------------------------------------------------------------------
(***************************************************************************)
(* Creating, hashing and signing.  A wallet is a record with a key and an  *)
(* address, whichever way it was made.                                     *)
(***************************************************************************)
\* Every field except the signature.
transaction_compute_hash(tx) ==
    [nonce |-> tx.nonce, expiry_block |-> tx.expiry_block,
     source_address |-> tx.source_address, dest_address |-> tx.dest_address,
     value |-> tx.value, fee |-> tx.fee]

wallet_sign(key, hash) == Signature(key, hash)

\* signs: whether OpenSSL does; if not, the signature stays what it was.
transaction_sign(tx, wallet, signs) ==
    IF wallet.evp_key = NoKey THEN [tx EXCEPT !.signature = Zero]
    ELSE IF signs
         THEN [tx EXCEPT !.signature = wallet_sign(wallet.evp_key,
                                               transaction_compute_hash(tx))]
         ELSE tx

transaction_create_from_address(source, dest, value, fee, nonce, expiry) ==
    [nonce |-> nonce, expiry_block |-> expiry, source_address |-> source,
     dest_address |-> dest, value |-> value, fee |-> fee, signature |-> Zero]

\* The result of transaction_sign is not looked at.
transaction_create(wallet, dest, value, fee, nonce, expiry, signs) ==
    transaction_sign(transaction_create_from_address(wallet.address, dest,
                                     value, fee, nonce, expiry), wallet, signs)

transaction_create_coinbase(farmer, base_reward, total_fees, block_height) ==
    [nonce |-> block_height, expiry_block |-> 0,
     source_address |-> COINBASE_ADDRESS, dest_address |-> farmer,
     value |-> base_reward + total_fees, fee |-> 0, signature |-> Zero]

-----------------------------------------------------------------------------
(***************************************************************************)
(* Verifying.                                                              *)
(***************************************************************************)
TX_IS_COINBASE(tx) == tx.source_address = COINBASE_ADDRESS

wallet_verify(pubkey, hash, signature) ==
    \E k \in Key : pubkey = PublicKey(k) /\ signature = Signature(k, hash)

transaction_verify(tx) == TX_IS_COINBASE(tx) \/ tx.signature # Zero

transaction_verify_ed25519(tx, pubkey) ==
    \/ TX_IS_COINBASE(tx)
    \/ /\ pubkey # Zero /\ tx.signature # Zero
       /\ wallet_derive_address(pubkey) = tx.source_address
       /\ wallet_verify(pubkey, transaction_compute_hash(tx), tx.signature)

\* The receiver (--verify) and a shard worker choose the check alike.
Verdict(tx, pubkey) ==
    IF pubkey # Zero THEN transaction_verify_ed25519(tx, pubkey)
                     ELSE transaction_verify(tx)

-----------------------------------------------------------------------------
(***************************************************************************)
(* The wire.  A field's number is its place among the descriptors.  What   *)
(* is packed of a proto3 message are the fields that are not 0 or empty.   *)
(***************************************************************************)
Fields == <<"nonce", "expiry_block", "source_address", "dest_address", "value",
            "fee", "signature", "public_key">>
Numbers == 1..8
BytesFields == {"source_address", "dest_address", "signature", "public_key"}

Bytes(n, b) == [len |-> n, data |-> b]
Default(f) == IF f \in BytesFields THEN Bytes(0, Zero) ELSE 0

IsDefault(f, v) == IF f \in BytesFields THEN v.len = 0 ELSE v = 0

protobuf_c_message_pack(pt) ==
    [n \in {m \in Numbers : ~IsDefault(Fields[m], pt[Fields[m]])} |->
       pt[Fields[n]]]

FieldOf(wire, n) ==
    IF n \in DOMAIN wire THEN wire[n] ELSE Default(Fields[n])

protobuf_c_message_unpack(wire) ==
    [nonce |-> FieldOf(wire, 1), expiry_block |-> FieldOf(wire, 2),
     source_address |-> FieldOf(wire, 3), dest_address |-> FieldOf(wire, 4),
     value |-> FieldOf(wire, 5), fee |-> FieldOf(wire, 6),
     signature |-> FieldOf(wire, 7), public_key |-> FieldOf(wire, 8)]

\* Its count is filled in and never read.
TransactionBatch(transactions) ==
    [transactions |-> transactions, count |-> Len(transactions)]

blockchain__transaction_batch__pack(batch) ==
    [i \in 1..Len(batch.transactions) |->
       protobuf_c_message_pack(batch.transactions[i])]
blockchain__transaction_batch__unpack(data) ==
    TransactionBatch([i \in 1..Len(data) |-> protobuf_c_message_unpack(data[i])])

\* The message of transaction_serialize_pb, without a public key; a signature
\* of zeros is left out.
PbOfTx(tx) ==
    [nonce |-> tx.nonce, expiry_block |-> tx.expiry_block,
     source_address |-> Bytes(20, tx.source_address),
     dest_address |-> Bytes(20, tx.dest_address),
     value |-> tx.value, fee |-> tx.fee,
     signature |-> IF tx.signature = Zero THEN Bytes(0, Zero)
                   ELSE Bytes(64, tx.signature),
     public_key |-> Bytes(0, Zero)]

\* The generator fills the same message and adds its wallet's key.
PbOfGenerator(tx, pubkey) ==
    [PbOfTx(tx) EXCEPT !.public_key = Bytes(32, pubkey)]

CopyIfLong(bytes, n) == IF bytes.len >= n THEN bytes.data ELSE Zero

\* The receiver keeps what there is of a short signature.
pb_to_tx(pt) ==
    [nonce |-> pt.nonce, expiry_block |-> pt.expiry_block,
     source_address |-> CopyIfLong(pt.source_address, 20),
     dest_address |-> CopyIfLong(pt.dest_address, 20),
     value |-> pt.value, fee |-> pt.fee,
     signature |-> IF pt.signature.len \in 1..63
                   THEN Part(pt.signature.data)
                   ELSE CopyIfLong(pt.signature, 64)]

\* transaction_deserialize_pb drops it.
transaction_deserialize_pb(pt) ==
    [pb_to_tx(pt) EXCEPT !.signature = CopyIfLong(pt.signature, 64)]

\* The key the receiver stores next to the transaction.
PubkeyOf(pt) == CopyIfLong(pt.public_key, 32)
=============================================================================
