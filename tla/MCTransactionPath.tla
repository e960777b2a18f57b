--------------------------- MODULE MCTransactionPath ---------------------------
(***************************************************************************)
(* An instance of TransactionPath for TLC.  padded is name after a blank,  *)
(* the first 63 characters of long are padded, and hex has 40 hexadecimal  *)
(* digits, which spell the address of name's wallet.                       *)
(***************************************************************************)
EXTENDS TransactionPath, TLC

CONSTANTS name, padded, long, hex, k1, k2, k3, k4

MCNames == {name, padded, long, hex}
MCCut == long :> padded @@ [n \in MCNames |-> n]
MCTrimmed == padded :> name @@ [n \in MCNames |-> n]
MCKey == {k1, k2, k3, k4}
MCKeyOf == name :> k1 @@ long :> k2 @@ padded :> k3 @@ hex :> k4
MCHexAddress == hex :> wallet_derive_address(PublicKey(k1))
MCValues == {0, 5}
MCNonces == 0..1
MCHeights == {0, 1000}
MCFees == {0, 1}

\* Once the batch is made no step reads the wallet or its file.
MCView == IF stage = "wallet" THEN pathVars
          ELSE <<stage, batchVars, buf, loopVars, summary>>

\* hex_to_bytes against what hexadecimal text means: two bytes at the edges of
\* the digits read back, in capitals too; what is no text of bytes does not.
H == INSTANCE Hex
Edges == {0, 9, 10, 15, 16, 153, 160, 255}
Capitals(text) == [i \in DOMAIN text |-> IF text[i] >= 97 THEN text[i] - 32 ELSE text[i]]
ASSUME HexReadsBack ==
    \A a, b \in Edges :
        LET text == H!bytes_to_hex(<<a, b>>)
        IN  /\ H!hex_to_bytes(text) = <<a, b>>
            /\ H!hex_to_bytes(Capitals(text)) = <<a, b>>
            /\ H!hex_to_bytes(Tail(text)) = H!NULL
            /\ H!hex_to_bytes([text EXCEPT ![4] = 103]) = H!NULL
=============================================================================
