-------------------------------- MODULE Wallet --------------------------------
(***************************************************************************)
(* A wallet in memory and the file it is saved to (src/src/wallet.c).      *)
(* The process that holds it may end at any moment, and the file may end   *)
(* up as any beginning of what was written: fopen truncates it, and        *)
(* nobody looks whether fprintf and fclose could write (a full disk).      *)
(*                                                                         *)
(* A name is opaque, up to what the code does to it: it is cut to 63       *)
(* characters when it is kept, and trimmed when it is read back.  It is    *)
(* written as it is (wallet.c:91), so it is one line of the file only if   *)
(* it holds no line break: the names here are single lines.                *)
(*                                                                         *)
(* wallet_save and wallet_load are offered by wallet.h, but none of the    *)
(* three programs calls them: this is what a caller could rely on.         *)
(***************************************************************************)
EXTENDS Transaction

CONSTANTS
    Names,            \* the names a wallet is given, each a single line
    Cut,              \* Cut[n]: the first 63 characters of n
    Trimmed,          \* Trimmed[n]: n without blanks around it
    KeyOf,            \* KeyOf[n]: the key whose seed is BLAKE3(n)
    MaxNonce,         \* bound: the nonces a wallet hands out
    MaxSaves,         \* bound: calls of wallet_save
    None              \* no wallet, no file

ASSUME NamesAssumption ==
    /\ {Cut, Trimmed} \subseteq [Names -> Names]
    /\ KeyOf \in [Names -> Key]
ASSUME WalletBoundsAssumption == MaxNonce \in Nat /\ MaxSaves \in Nat

VARIABLES
    wallet,           \* the wallet in memory
    saving,           \* wallet_save is between its fopen and its fclose
    file,             \* the items the file holds, in order
    saves,            \* calls of wallet_save
    saved             \* history: the wallet the file was last opened for

walletVars == <<wallet, saving, file, saves, saved>>

\* The text of a line that breaks off, and of an empty buffer.
Broken == [is |-> "broken"]
NoText == [is |-> "empty"]

HexOf(address) == [is |-> "hex", of |-> address]
Pem(k) == [is |-> "pem", key |-> k]

Item(tag, text) == [tag |-> tag, text |-> text]

-----------------------------------------------------------------------------
(***************************************************************************)
(* Seeded faults, substituted one at a time to show that a property fails. *)
(***************************************************************************)
FaultyNameToAddress(name) == wallet_derive_address(PublicKey(KeyOf[Cut[name]]))
FaultyText(w) ==
    <<Item("NAME", w.name), Item("PRIVATE_KEY", w.private_key_pem),
      Item("ADDRESS", w.address_hex), Item("NONCE", w.nonce)>>
FaultyLoadAddress(w, t) == [w EXCEPT !.address_hex = t]

-----------------------------------------------------------------------------
(***************************************************************************)
(* Making a wallet.                                                        *)
(***************************************************************************)
WithKey(name, k) ==
    [name |-> name, evp_key |-> k, public_key |-> PublicKey(k),
     address |-> wallet_derive_address(PublicKey(k)),
     address_hex |-> HexOf(wallet_derive_address(PublicKey(k))),
     private_key_pem |-> Pem(k), nonce |-> 0]

\* The key comes from the whole name, the name that is kept may be shorter.
wallet_create_named(name) == WithKey(Cut[name], KeyOf[name])

\* The memset that opens wallet_load; None stands for the empty name.
Blank == [name |-> None, evp_key |-> NoKey, public_key |-> Zero,
          address |-> Zero, address_hex |-> NoText,
          private_key_pem |-> NoText, nonce |-> 0]

wallet_name_to_address(name) == wallet_derive_address(PublicKey(KeyOf[name]))

-----------------------------------------------------------------------------
(***************************************************************************)
(* The file: one item for each line, the PEM block being the last.  The    *)
(* name makes one item because it holds no line break.                     *)
(***************************************************************************)
Text(w) ==
    <<Item("NAME", w.name), Item("ADDRESS", w.address_hex),
      Item("NONCE", w.nonce), Item("PRIVATE_KEY", w.private_key_pem)>>

DecimalPrefixes(n) == {0, n} \cup {n \div 10}

\* What a line may look like that was not written to its end.
BrokenItems(i) ==
    IF i.tag = "NONCE" THEN {Item("NONCE", n) : n \in DecimalPrefixes(i.text)}
    ELSE IF i.tag = "NAME" THEN {Item("NAME", None)}
    ELSE {Item(i.tag, Broken)}

\* Every beginning of a text.
Beginnings(text) ==
    {SubSeq(text, 1, n) : n \in 0..Len(text)}
    \cup UNION {{Append(SubSeq(text, 1, n - 1), i) : i \in BrokenItems(text[n])}
                  : n \in 1..Len(text)}

\* hex_to_address leaves the address alone if the text is not 40 digits, and
\* OpenSSL makes a key of a whole PEM block only.
LoadName(w, t) == [w EXCEPT !.name = IF t = None THEN None ELSE Trimmed[t]]
LoadAddress(w, t) ==
    [w EXCEPT !.address_hex = t,
              !.address = IF t.is = "hex" THEN t.of ELSE @]
LoadKey(w, t) ==
    IF t.is = "pem"
    THEN [w EXCEPT !.private_key_pem = t, !.evp_key = t.key,
                   !.public_key = PublicKeyOf(t.key)]
    ELSE [w EXCEPT !.private_key_pem = t]

LoadItem(w, i) ==
    CASE i.tag = "NAME" -> LoadName(w, i.text)
      [] i.tag = "ADDRESS" -> LoadAddress(w, i.text)
      [] i.tag = "NONCE" -> [w EXCEPT !.nonce = i.text]
      [] i.tag = "PRIVATE_KEY" -> LoadKey(w, i.text)

\* The wallet after the first n items.
Loaded(items) ==
    LET after[n \in 0..Len(items)] ==
          IF n = 0 THEN Blank ELSE LoadItem(after[n - 1], items[n])
    IN  after[Len(items)]

-----------------------------------------------------------------------------
WalletInit ==
    /\ wallet = None
    /\ saving = FALSE
    /\ file = None
    /\ saves = 0
    /\ saved = None

CreateNamed(n) ==
    /\ wallet = None
    /\ wallet' = wallet_create_named(n)
    /\ UNCHANGED <<saving, file, saves, saved>>

\* wallet_create: a fresh key and no name.
CreateRandom(k) ==
    /\ wallet = None
    /\ wallet' = WithKey(None, k)
    /\ UNCHANGED <<saving, file, saves, saved>>

GetNextNonce ==
    /\ wallet # None /\ ~saving
    /\ wallet.nonce < MaxNonce
    /\ wallet' = [wallet EXCEPT !.nonce = @ + 1]
    /\ UNCHANGED <<saving, file, saves, saved>>

SetNonce(n) ==
    /\ wallet # None /\ ~saving
    /\ wallet' = [wallet EXCEPT !.nonce = n]
    /\ UNCHANGED <<saving, file, saves, saved>>

\* fopen(filepath, "w"); if it fails nothing happens.
SaveOpen ==
    /\ wallet # None /\ ~saving
    /\ saves < MaxSaves
    /\ saves' = saves + 1
    /\ saving' = TRUE
    /\ file' = <<>>
    /\ saved' = wallet
    /\ UNCHANGED wallet

\* fclose writes what fits; wallet_save returns true whatever that is.
SaveClose ==
    /\ saving
    /\ file' \in Beginnings(Text(wallet))
    /\ saving' = FALSE
    /\ UNCHANGED <<wallet, saves, saved>>

\* The process ends, by wallet_destroy and exit or by a crash.
LoseMemory ==
    /\ wallet # None
    /\ wallet' = None
    /\ saving' = FALSE
    /\ UNCHANGED <<file, saves, saved>>

Load ==
    /\ wallet = None
    /\ file # None
    /\ wallet' = Loaded(file)
    /\ UNCHANGED <<saving, file, saves, saved>>

WalletNext ==
    \/ \E n \in Names : CreateNamed(n)
    \/ \E k \in Key : CreateRandom(k)
    \/ GetNextNonce
    \/ \E n \in 0..MaxNonce : SetNonce(n)
    \/ SaveOpen
    \/ SaveClose
    \/ LoseMemory
    \/ Load

-----------------------------------------------------------------------------
\* A wallet that can sign holds the address its key gives it, whatever part of
\* a file it was loaded from: what it signs verifies as its own.  This is about
\* names of one line.
KeyMatchesAddress ==
    wallet # None /\ wallet.evp_key # NoKey =>
        /\ wallet.public_key = PublicKey(wallet.evp_key)
        /\ wallet.address = wallet_derive_address(wallet.public_key)
        /\ wallet.address_hex = HexOf(wallet.address)

\* A file that was cut off yields a wallet without a key or all of the wallet
\* that was saved: one that can sign never goes back to a nonce before the save.
\* This is about names of one line, too.
LoadsAllOrNoKey ==
    [][wallet = None /\ file # None /\ wallet' = Loaded(file)
         /\ wallet'.evp_key # NoKey
       => wallet' = LoadName(saved, saved.name)]_walletVars
=============================================================================
