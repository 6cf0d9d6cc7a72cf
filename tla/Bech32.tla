------------------------------- MODULE Bech32 -------------------------------
(***************************************************************************)
(* nostr/bech32.py: keys as people copy them.                              *)
(*                                                                         *)
(* A number is the set of its one bits, so that ^ is the symmetric         *)
(* difference.  A text is its prefix, as character codes, the indices of   *)
(* its characters in _CHARSET, and the case it is written in.              *)
(***************************************************************************)
EXTENDS Integers, Sequences

Xor(a, b) == (a \ b) \cup (b \ a)

BitsIn(n, width) == {b \in 0..(width - 1) : (n \div 2^b) % 2 = 1}

generator ==
    LET constants == <<996825010, 642813549, 513874426, 1027748829, 705979059>>
    IN [i \in 0..4 |-> BitsIn(constants[i + 1], 30)]

One == {0}

polymod(values) ==
    LET gen == generator
        chk[i \in 0..Len(values)] ==
            IF i = 0 THEN One
            ELSE LET last == chk[i - 1]
                     fed[j \in 0..5] ==
                         IF j = 0 THEN {}
                         ELSE IF 24 + j \in last THEN Xor(fed[j - 1], gen[j - 1]) ELSE fed[j - 1]
                 IN Xor(Xor({b + 5 : b \in last \cap 0..24}, values[i]), fed[5])
    IN chk[Len(values)]

hrp_expand(hrp) == [i \in 1..Len(hrp) |-> {b - 5 : b \in hrp[i] \cap 5..7}] \o <<{}>>
                   \o [i \in 1..Len(hrp) |-> hrp[i] \cap 0..4]

verify_checksum(hrp, data) == polymod(hrp_expand(hrp) \o data) = One

create_checksum(hrp, data) ==
    LET chk == Xor(polymod(hrp_expand(hrp) \o data \o [i \in 1..6 |-> {}]), One)
    IN [i \in 1..6 |-> {b \in 0..4 : b + 5 * (6 - i) \in chk}]

-----------------------------------------------------------------------------
Raises == <<"ValueError">>

(* Written one after the other, most significant bit first, and read again *)
(* in groups of the other size.  What is left over is filled up, or must   *)
(* be short and all zeros.                                                 *)
convertbits(data, frombits, tobits, pad) ==
    LET ones == UNION {{i * frombits - 1 - b : b \in data[i]} : i \in 1..Len(data)}
        whole == (Len(data) * frombits) \div tobits
        left == (Len(data) * frombits) % tobits
    IN IF ~pad /\ (left >= frombits \/ \E at \in ones : at >= whole * tobits)
       THEN Raises
       ELSE [g \in 1..(IF pad /\ left > 0 THEN whole + 1 ELSE whole) |->
                {b \in 0..(tobits - 1) : g * tobits - 1 - b \in ones}]

bech32_encode(hrp, bytes) ==
    LET data == convertbits(bytes, 8, 5, TRUE)
    IN [hrp |-> hrp, data |-> data \o create_checksum(hrp, data), case |-> "lower"]

bech32_decode(text) ==
    IF \/ text.case = "mixed"
       \/ text.hrp = <<>> \/ Len(text.data) < 6
       \/ ~verify_checksum(text.hrp, text.data)
    THEN Raises
    ELSE convertbits(SubSeq(text.data, 1, Len(text.data) - 6), 5, 8, FALSE)

Prefix(codes) == [i \in 1..4 |-> BitsIn(codes[i], 8)]
Nsec == Prefix(<<110, 115, 101, 99>>)
Npub == Prefix(<<110, 112, 117, 98>>)

from_nsec(text) == IF text.hrp = Nsec THEN bech32_decode(text) ELSE Raises
=============================================================================
