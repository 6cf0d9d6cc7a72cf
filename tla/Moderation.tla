----------------------------- MODULE Moderation -----------------------------
(***************************************************************************)
(* moderation.py: whether this node carries an item (an event id or a blob *)
(* hash) of an author.                                                     *)
(***************************************************************************)
CONSTANTS
    ContentBlock, ContentAllow,     \* items
    AuthorBlock, AuthorAllow,       \* pubkeys
    OptIn                           \* whether mode is "opt-in"

(* Most specific first: exact item, then author, then the mode. *)
Carries(item, author) ==
    /\ item \notin ContentBlock
    /\ \/ item \in ContentAllow
       \/ /\ author \notin AuthorBlock
          /\ author \in AuthorAllow \/ ~OptIn
=============================================================================
