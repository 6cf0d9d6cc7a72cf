---------------------------- MODULE MCDiscovery ----------------------------
(* Ann announces her relays twice, the second time with a relay the        *)
(* operator does not know, and publishes two versions of her site; Bob     *)
(* seeds it and announces that on Ann's relay; Eve announces a server in   *)
(* the private network.  The operator has one relay that answers as it     *)
(* likes and one that answers as it should.                                *)
EXTENDS Discovery, TLC

Site == site_coord(KIND_ROOT, "ann", "")

Policy(who, now, ids, read, write, server, seeds) ==
    [pubkey |-> who, now |-> now, ids |-> ids, read |-> read, write |-> write,
     server |-> server, seeds |-> seeds]

AnnOld == Policy("ann", 1, <<1>>, <<"outbox">>, <<"bracket">>, "none", <<>>)
AnnNew == Policy("ann", 2, <<2>>, <<"op2">>, <<"outbox", "op2">>, "none", <<>>)
Bob    == Policy("bob", 1, <<3, 4>>, <<>>, <<"outbox", "mirror">>, "bobs", <<Site>>)

Announcers == "ann1" :> AnnOld @@ "ann2" :> AnnNew @@ "bob" :> Bob

AnnouncersNew   == "ann2" :> AnnNew
AnnouncersOnion == "ann2" :> [AnnNew EXCEPT !.write = <<"onion", "op2">>]

Manifest(id, now, tags) ==
    [id |-> id, pubkey |-> "ann", created_at |-> now, kind |-> KIND_ROOT, tags |-> tags]

M1 == Manifest(11, 1, << <<"path", <<"index.html">>, "x">>, <<"server", "rebound">>, <<"server", "hint">> >>)
M2 == Manifest(12, 2, << <<"path", <<"index.html">>, "y">> >>)

Address(scheme, host, addresses) == [scheme |-> scheme, host |-> host, addresses |-> addresses]

MCUrl ==
    [url \in {"op1", "op2", "outbox", "mirror"} |-> Address("wss", "name", {"1.1.1.1"})]
    @@ [url \in {"hint", "bobs", "default"} |-> Address("https", "name", {"1.1.1.1"})]
    @@ "rebound" :> Address("http", "name", {"1.1.1.1", "10.0.0.1"})
    @@ "onion" :> Address("ws", "onion", {})
    @@ "local" :> Address("ws", "loopback", {"127.0.0.1"})
    @@ "bracket" :> Address("ws", "none", {})

MCSourceRelays == <<"op1", "op2">>
LocalRelays    == <<"local">>
MCServers      == <<"default">>
MCBlobs        == "bobs" :> {"x", "y"} @@ "hint" :> {"x"} @@ "default" :> {}
MCManifests    == {M1, M2}
MCLetters      == {"a", "d"}
MCDotted       == {"index.html"}
=============================================================================
