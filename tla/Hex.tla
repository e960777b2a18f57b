---------------------------------- MODULE Hex ----------------------------------
(***************************************************************************)
(* Hexadecimal text (src/src/common.c) and what is stored as such: a       *)
(* transaction's struct (src/src/transaction.c), an address or a hash      *)
(* (src/src/wallet.c).  A character is its ASCII code, a byte a number.    *)
(***************************************************************************)
EXTENDS Integers, Sequences

Byte == 0..255
Char == 0..127

\* What a conversion that fails returns: NULL, or false.
NULL == <<"NULL">>

hex_chars == [d \in 0..15 |-> IF d < 10 THEN 48 + d ELSE 87 + d]

HighDigit(b) == hex_chars[b \div 16]
LowDigit(b) == hex_chars[b % 16]

bytes_to_hex(bytes) ==
    [i \in 1 .. 2 * Len(bytes) |->
       IF i % 2 = 1 THEN HighDigit(bytes[(i + 1) \div 2])
                    ELSE LowDigit(bytes[i \div 2])]

hex_char_value(c) ==
    CASE c \in 48..57 -> c - 48
      [] c \in 97..102 -> c - 97 + 10
      [] c \in 65..70 -> c - 65 + 10
      [] OTHER -> -1

IsHexDigit(c) == hex_char_value(c) >= 0

\* It reads the first 2 * byte_len characters, which the caller ensures exist.
hex_to_bytes_buf(hex, byte_len) ==
    IF \A i \in 1 .. 2 * byte_len : IsHexDigit(hex[i])
    THEN [i \in 1..byte_len |-> 16 * hex_char_value(hex[2 * i - 1])
                                + hex_char_value(hex[2 * i])]
    ELSE NULL

hex_to_bytes(hex) ==
    IF Len(hex) % 2 # 0 THEN NULL ELSE hex_to_bytes_buf(hex, Len(hex) \div 2)

-----------------------------------------------------------------------------
\* The 128 bytes of the packed struct are its whole value.
TX_TOTAL_SIZE == 128
transaction_serialize(struct) == bytes_to_hex(struct)
transaction_deserialize(hex_data) ==
    IF Len(hex_data) # 2 * TX_TOTAL_SIZE THEN NULL
    ELSE hex_to_bytes_buf(hex_data, TX_TOTAL_SIZE)

TX_ADDRESS_LENGTH == 20
address_to_hex(address) == bytes_to_hex(address)
hex_to_address(hex) ==
    IF Len(hex) # 2 * TX_ADDRESS_LENGTH THEN NULL
    ELSE hex_to_bytes_buf(hex, TX_ADDRESS_LENGTH)

wallet_is_hex_address(str) ==
    /\ Len(str) = 2 * TX_ADDRESS_LENGTH
    /\ \A i \in 1..Len(str) : IsHexDigit(str[i])
=============================================================================
