------------------------------- MODULE MCNode -------------------------------
(***************************************************************************)
(* The keys and texts of the identity store's runs, computed by Schnorr    *)
(* and Bech32.  The curve is y^2 = x^3 + 7 over the field of 43 elements,  *)
(* which has 31 points.  A key is written in 7 bytes, which like 32 leave  *)
(* one bit for the last character.                                         *)
(***************************************************************************)
EXTENDS Node, Schnorr, Bech32, SequencesExt

MCBase == <<2, 12>>

MCKeys == {d \in 1..OrderN : in_range(d)}

Payload(d) == [i \in 1..7 |-> IF i = 7 THEN BitsIn(d, 8) ELSE {}]

to_nsec(d) == bech32_encode(Nsec, Payload(d))

(* Keypair.from_nsec of a text: the key of which it is the payload *)
KeyOf(text) ==
    LET bytes == from_nsec(text)
    IN IF \E d \in MCKeys : bytes = Payload(d)
       THEN CHOOSE d \in MCKeys : bytes = Payload(d) ELSE Refused

(* A character off by one bit, two neighbours swapped, one left out, one   *)
(* typed twice; the prefix of an npub; a key of mixed case.                *)
Near(text) ==
    LET data == text.data
        size == Len(data)
        With(d) == [text EXCEPT !.data = d]
    IN  {With([data EXCEPT ![i] = Xor(@, {b})]) : i \in 1..size, b \in 0..4}
        \cup {With([data EXCEPT ![i] = data[i + 1], ![i + 1] = data[i]]) : i \in 1..(size - 1)}
        \cup {With(RemoveAt(data, i)) : i \in 1..size}
        \cup {With(InsertAt(data, i, data[i])) : i \in 1..size}
        \cup {[text EXCEPT !.hrp = Npub], [text EXCEPT !.case = "mixed"]}

NpubTable == [d \in MCKeys |-> pubkey_from_seckey(d)]
ExactTable == [d \in Secrets |-> KeyOf(to_nsec(d))]
SlipsTable == [d \in Secrets |-> LET text == to_nsec(d)
                                 IN {KeyOf(near) : near \in Near(text) \ {text}}]
VerifyTable == [d \in Secrets |-> verify_keypair(d)]
WorksTable == [d \in MCKeys \cup {Refused} |->
                  IF d = Refused THEN {FALSE}
                  ELSE IF d \in Secrets THEN VerifyTable[d] ELSE {TRUE}]

MCNpubOf == NpubTable
MCExact == ExactTable
MCSlips == SlipsTable
MCWorks == WorksTable

ASSUME ChecksumCatches == NoSlipIsAKey

(* One build with pyca/cryptography, one without: both derive with scrypt. *)
MCDerives == [t \in Terminals |-> {"scrypt"}]
(* A build whose hashlib has no scrypt. *)
MCDerivesMixed == [t \in Terminals |-> {"scrypt", "pbkdf2"}]

Listens(addresses) == [s \in DOMAIN addresses |-> [listen |-> addresses[s]]]
Everywhere == Listens([event_store |-> <<"any", 5848>>, blob_store |-> <<"any", 5849>>,
                       gateway |-> <<"any", 5850>>])
Onion(word) == [tor |-> [inbound_onion |-> word]]
SiteOf(text) == << [pubkey |-> text] >>

(* The default; the old boolean, with sites; everything, on all addresses; *)
(* a gateway alone, of a site whose key has a slip; a relay alone, on the  *)
(* port of the default gateway; a gateway that the policy disables.        *)
MCStarts ==
    {<<NoKeys, "">>,
     <<[transport |-> [inbound_onion |-> "true"], sites |-> SiteOf("npub")], "">>,
     <<[services |-> Everywhere, transport |-> Onion("ALL")], "">>,
     <<[transport |-> Onion("Gateway"), sites |-> SiteOf("slip")], "gateway">>,
     <<[services |-> Listens([event_store |-> <<"", 4850>>]), transport |-> Onion("true")],
       "event_store">>,
     <<[services |-> [gateway |-> [enabled |-> FALSE]], transport |-> Onion("gateway")], "gateway">>}

(* A gateway for the local network beside a relay for this machine. *)
MCStartsLan ==
    {<<[services |-> [gateway |-> [listen |-> <<"lan", 4848>>]],
        transport |-> Onion("gateway")], "">>}

MCnormalize(text) == IF text = "npub" THEN "hex" ELSE "no key"

MCOtherSteps == {"build", "onion", "serve", "closing"}

Symmetric == Permutations(Terminals) \cup Permutations(Passwords \ Unencodable)
=============================================================================
