------------------------------- MODULE Policy -------------------------------
(***************************************************************************)
(* policy.py and transport/config.py: what a node does with the document   *)
(* its operator wrote.                                                     *)
(*                                                                         *)
(* A mapping of the document is a function from the keys it has, those     *)
(* without a value left out.  Scalars are abstracted to what the code      *)
(* takes out of them: an address is <<host, port>>, the host "" when the   *)
(* text has none; a size or a duration is <<tenths, unit>>; the words of   *)
(* `inbound_onion` are those that matter.                                  *)
(***************************************************************************)
EXTENDS Integers, Sequences, SequencesExt

LOCAL INSTANCE TLC

CONSTANTS
    Kilo,           \* 1024
    normalize_pubkey(_), NoKey      \* NoKey where it raises

NoKeys == [key \in {} |-> key]

(* doc.get(key, default) *)
get(doc, key, default) == IF key \in DOMAIN doc THEN doc[key] ELSE default

(* A text without a unit is whole; int() truncates. *)
parse_size(v) ==
    LET power == CASE v[2] \in {"", "B"} -> 0 [] v[2] = "KB" -> 1 [] v[2] = "MB" -> 2
                   [] v[2] = "GB" -> 3 [] v[2] = "TB" -> 4
    IN (v[1] * Kilo^power) \div 10

parse_duration(v) ==
    (v[1] * (CASE v[2] \in {"", "s"} -> 1 [] v[2] = "m" -> 60 [] v[2] = "h" -> 3600
               [] v[2] = "d" -> 86400)) \div 10

parse_listen(v) == <<IF v[1] = "" THEN "loopback" ELSE v[1], v[2]>>

_DEFAULTS ==
    LET Default(port) == [enabled |-> TRUE, listen |-> <<"loopback", port>>]
    IN [event_store |-> Default(4848), blob_store |-> Default(4849), gateway |-> Default(4850)]

(* The files are in the identity's home, unless the document says where. *)
_build_services(raw, data_dir) ==
    [name \in DOMAIN _DEFAULTS |->
        LET cfg == get(raw, name, NoKeys) @@ _DEFAULTS[name]
        IN [enabled |-> cfg.enabled, at |-> parse_listen(cfg.listen),
            stored |-> get(cfg, "stored", data_dir)]]

limit(raw, key, default) ==
    LET limits == get(raw, "limits", NoKeys)
    IN IF key \in DOMAIN limits THEN parse_size(limits[key]) ELSE default

storage_total(raw) == limit(raw, "storage_total", 0)
bandwidth_day(raw) == limit(raw, "bandwidth_day", 0)
bandwidth_month(raw) == limit(raw, "bandwidth_month", 0)
blob_max_size(raw) == limit(raw, "blob_max_size", 100 * Kilo^2)

eviction(raw) ==
    LET e == get(raw, "eviction", NoKeys)
    IN [policy |-> get(e, "policy", "manual"), protect_pinned |-> get(e, "protect_pinned", TRUE)]

(* Entries without a usable key are skipped. *)
sites(raw) ==
    LET Usable(entry) == normalize_pubkey(get(entry, "pubkey", "")) # NoKey
        Parsed(entry) ==
            [pubkey |-> normalize_pubkey(entry.pubkey),
             identifier |-> get(entry, "identifier", ""),
             seed |-> get(entry, "seed", TRUE), pin |-> get(entry, "pin", TRUE),
             storage_cap |-> parse_size(get(entry, "storage_cap", <<0, "">>)),
             transport |-> get(entry, "transport", "direct"),
             refresh |-> parse_duration(get(entry, "refresh", <<9000, "">>))]
        usable == SelectSeq(get(raw, "sites", <<>>), Usable)
    IN [i \in DOMAIN usable |-> Parsed(usable[i])]

(* The place of `inbound_onion` is the `tor` mapping, or the one around    *)
(* it.  YAML's booleans, of which `off` is one, and three words in any     *)
(* case; any other means off.                                              *)
inbound(raw) ==
    LET t == get(raw, "transport", NoKeys)
        word == get(get(t, "tor", NoKeys), "inbound_onion", get(t, "inbound_onion", "off"))
    IN CASE word \in {"true", "gateway", "Gateway"} -> "gateway"
         [] word \in {"all", "ALL"} -> "all"
         [] OTHER -> "off"

(* `identity.npub`, or the active identity, and its home *)
load_policy(raw, active) ==
    LET npub == get(get(raw, "identity", NoKeys), "npub", active)
    IN [npub |-> npub, services |-> _build_services(get(raw, "services", NoKeys), npub),
        sites |-> sites(raw), inbound |-> inbound(raw)]
=============================================================================
