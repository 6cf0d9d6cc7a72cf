---------------------------- MODULE MCPublishing ----------------------------
(* Ann publishes a root site and a post from a laptop, and a blog from a   *)
(* desktop whose clock is ahead.  The site has a file without an extension *)
(* and competes with the blog for the root address; another tool asks to   *)
(* delete the post, and yet another publishes a root site with a tag that  *)
(* SQLite cannot bind.                                                     *)
EXTENDS Publishing, TLC

CONSTANTS laptop, desktop

MCLetters == {"d"}
MCDotted  == {"index.html", "style.css"}

Site1 == [type |-> "site", identifier |-> "",
          files |-> (<<"index.html">> :> "x") @@ (<<"LICENSE">> :> "y")]
Blog  == [type |-> "blog", identifier |-> ""]
Post  == [type |-> "post", slug |-> "first-post"]

Deletion == [id |-> 98, pubkey |-> "ann", created_at |-> 1, kind |-> 5,
             tags |-> << <<"a", <<30023, "ann", "first-post">>>> >>]

Unbindable == [id |-> 97, pubkey |-> "ann", created_at |-> 1, kind |-> 15128,
               tags |-> << <<"d", <<>>>> >>]

MCJobs    == (laptop :> {Site1, Post}) @@ (desktop :> {Blog})
Ann       == [p \in {laptop, desktop} |-> "ann"]
Behind    == (laptop :> 0) @@ (desktop :> 1)
MCForeign == {Deletion, Unbindable}
MCRaising == {Unbindable}
=============================================================================
