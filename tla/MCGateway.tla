----------------------------- MODULE MCGateway -----------------------------
(* Ann's root site in two versions of which the second is a blog, a post   *)
(* in two versions, and Bob's wiki; links of every form to them; and what  *)
(* a relay may make up: another event with the id of Ann's post, and a     *)
(* newer version of her site whose tags raise.                             *)
EXTENDS Gateway, TLC

Event(i, author, t, k, ts) ==
    [id |-> i, pubkey |-> author, created_at |-> t, kind |-> k, tags |-> ts]

Home  == Event(1, "ann", 1, 15128,
               << <<"path", <<"index.html">>, "x">>, <<"server", "hinted">> >>)
Blog  == Event(2, "ann", 2, 15128, << <<"app", "blog">> >>)
Post1 == Event(3, "ann", 1, 30023, << <<"d", "hello">> >>)
Post2 == Event(4, "ann", 2, 30023, << <<"d", "hello">> >>)
Wiki  == Event(5, "bob", 1, 35128,
               << <<"d", "wiki">>, <<"path", <<"a", "b.css">>, "y">>, <<"path", <<"index.html">>, "lost">> >>)
Home2 == Event(7, "ann", 1, 15128, << <<"path", <<"index.html">>, "y">> >>)

Forged  == Event(3, "ann", 2, 30023, << <<"d", "other">> >>)
Raising == Event(8, "ann", 3, 15128, <<>>)

Link(host, path, author, identifier, rest) ==
    [host |-> host, path |-> path,
     means |-> [author |-> author, identifier |-> identifier, path |-> rest]]

Addresses ==
    {Link(<<"npubann", "localhost">>, <<"">>, "ann", "", <<"">>),
     Link(<<"npubann", "localhost">>, <<"hello">>, "ann", "", <<"hello">>),
     Link(<<"127", "0", "0", "1">>, <<"n", "npubann", "hello">>, "ann", "", <<"hello">>),
     Link(<<"localhost">>, <<"n", "npubann">>, "ann", "", <<"">>),
     Link(<<"wiki", "npubbob", "localhost">>, <<"a", "b.css">>, "bob", "wiki", <<"a", "b.css">>),
     Link(<<"localhost">>, <<"s", "npubbob", "wiki">>, "bob", "wiki", <<"">>),
     Link(<<"localhost">>, <<"s", "npubbob", "wiki", "a", "b.css">>, "bob", "wiki", <<"a", "b.css">>),
     Link(<<"localhost">>, <<"n", "nobody">>, "none", "", <<>>)}

(* publish prints http://<identifier>.<npub>.localhost/, a dot or none. *)
DottedAddress ==
    {Link(<<"my", "site", "npubbob", "localhost">>, <<"">>, "bob", "my.site", <<"">>)}

PostLink == {Link(<<"npubann", "localhost">>, <<"hello">>, "ann", "", <<"hello">>)}
HomeLink == {Link(<<"npubann", "localhost">>, <<"">>, "ann", "", <<"">>)}

MCPubkey == "npubann" :> "ann" @@ "npubbob" :> "bob"
MCNpub   == "ann" :> "npubann" @@ "bob" :> "npubbob"
MCLetters == {"d"}
MCDotted  == {"index.html", "b.css"}
MCNumeric == {"127", "0", "1"}

TwoRelays  == <<"shaky", "steady">>
SteadyTwo  == <<"steady", "calm">>
OneServer  == <<"default">>
MCBlobs    == "hinted" :> {"x"} @@ "default" :> {"x", "y"}

World     == {Home, Blog, Post1, Wiki}
BlogWorld == {Blog, Post1, Post2}
TieWorld  == {Home, Home2}

Forgeries == {Forged, Raising}
Broken    == {Raising}
=============================================================================
