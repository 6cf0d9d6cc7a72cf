------------------------------ MODULE Keystore ------------------------------
(***************************************************************************)
(* keystore.py, nostr/cipher.py and the commands of __main__.py that use   *)
(* them: the keys under ~/.pijn, which several terminals write and read.   *)
(*                                                                         *)
(* The home is the file `active` and, per npub, `nsec.enc`.  A file that   *)
(* is written is first emptied by open(), then filled when it is closed;   *)
(* between the two the process may die, and another may read.  The texts   *)
(* people type, and what becomes of them, are parameters (MCNode computes  *)
(* them from Bech32 and Schnorr).  `<npub>/npub` is never read, and left   *)
(* out; so is chmod.                                                       *)
(***************************************************************************)
EXTENDS Integers, FiniteSets

CONSTANTS
    Terminals,
    Keys, Secrets,  \* the valid secret keys, and those of the operators
    NpubOf,         \* Keys -> the npub of a secret key
    Exact, Slips,   \* what from_nsec makes of a secret's nsec, and of texts
                    \* near it: a key, or Refused
    Works,          \* what _verify_keypair may answer for a key; for Refused, FALSE
    Passwords, Unencodable,
    Derives,        \* Terminals -> the functions its _derive may use
    Pins,           \* the values of PIJN_NPUB, and of a policy's npub
    OtherSteps,     \* of commands that leave all of this alone
    None, Refused, Absent, Empty

Npubs == {NpubOf[k] : k \in Keys}

ASSUME KeystoreAssumption ==
    /\ Secrets \subseteq Keys /\ None \notin Keys /\ Refused \notin Keys
    /\ None \notin Npubs /\ Pins \subseteq Npubs \cup {None}
    /\ Unencodable \subseteq Passwords
    /\ Works \in [Keys \cup {Refused} -> SUBSET BOOLEAN] /\ Works[Refused] = {FALSE}
    /\ \A s \in Secrets : Exact[s] \in Keys \cup {Refused} /\ Slips[s] \subseteq Keys \cup {Refused}

VARIABLES
    active,     \* what `active` names; None while it is absent or empty
    key,        \* per npub, nsec.enc: Absent, Empty or a container
    pc,         \* per terminal, the step its command is at
    kp,         \* ... the key it holds
    meant,      \* ... the key its operator meant, None if none was asked for
    pw,         \* ... the passphrase it was given
    name,       \* ... the npub it goes on with
    home,       \* ... the npub of the policy it loaded
    saved,      \* history: per npub, the last key written whole, and by no
                \* two saves at a time
    torn,       \* history: npubs whose last save was cut short, or ran
                \* beside another
    adrift      \* history: the last write of `active` was cut short

keystoreVars == <<active, key, pc, kp, meant, pw, name, home, saved, torn, adrift>>

Container == [secret : Keys, pw : Passwords, kdf : {"scrypt", "pbkdf2"}]

ASSUME ContainerAssumption ==
    /\ Derives \in [Terminals -> SUBSET {"scrypt", "pbkdf2"}]
    /\ Absent # Empty /\ Absent \notin Container /\ Empty \notin Container

Init ==
    /\ active = None
    /\ key = [n \in Npubs |-> Absent]
    /\ pc = [t \in Terminals |-> "idle"]
    /\ kp = [t \in Terminals |-> None]
    /\ meant = [t \in Terminals |-> None]
    /\ pw = [t \in Terminals |-> None]
    /\ name = [t \in Terminals |-> None]
    /\ home = [t \in Terminals |-> None]
    /\ saved = [n \in Npubs |-> None]
    /\ torn = {}
    /\ adrift = FALSE

files == <<active, key>>
history == <<saved, torn, adrift>>

At(t, step) == pc[t] = step

Goto(t, step) == pc' = [pc EXCEPT ![t] = step]

(* The command ends, and with it what the process knew. *)
Ends(t, step) ==
    /\ Goto(t, step)
    /\ kp' = [kp EXCEPT ![t] = None]
    /\ meant' = [meant EXCEPT ![t] = None]
    /\ pw' = [pw EXCEPT ![t] = None]
    /\ name' = [name EXCEPT ![t] = None]
    /\ home' = [home EXCEPT ![t] = None]

(* PIJN_NPUB, or what `active` says *)
active_npub(pin) == IF pin # None THEN pin ELSE active

-----------------------------------------------------------------------------
(* Mutant: the name is taken as it comes. *)
Named(n) == n # None

HasKey(n) == n # None /\ key[n] # Absent

(* save_identity begins, with the key k for what was meant to be m. *)
Save(t, k, m, w) ==
    /\ Goto(t, "open")
    /\ kp' = [kp EXCEPT ![t] = k]
    /\ meant' = [meant EXCEPT ![t] = m]
    /\ pw' = [pw EXCEPT ![t] = w]
    /\ name' = [name EXCEPT ![t] = NpubOf[k]]
    /\ UNCHANGED home

Saving(t, n) == At(t, "seal") /\ name[t] = n

(* open(nsec.enc, "w") *)
OpenKey(t) ==
    /\ At(t, "open")
    /\ key' = [key EXCEPT ![name[t]] = Empty]
    /\ saved' = [saved EXCEPT ![name[t]] = None]
    /\ torn' = IF \E u \in Terminals \ {t} : Saving(u, name[t])
               THEN torn \cup {name[t]} ELSE torn \ {name[t]}
    /\ Goto(t, "seal")
    /\ UNCHANGED <<active, kp, meant, pw, name, home, adrift>>

(* encrypt_secret, and the close that writes what it returns *)
Seal(t) ==
    /\ At(t, "seal") /\ pw[t] \notin Unencodable
    /\ \E d \in Derives[t] :
          key' = [key EXCEPT ![name[t]] = [secret |-> kp[t], pw |-> pw[t], kdf |-> d]]
    /\ saved' = IF name[t] \in torn THEN saved
                ELSE [saved EXCEPT ![name[t]] = [secret |-> meant[t], pw |-> pw[t]]]
    /\ Goto(t, "point")
    /\ UNCHANGED <<active, kp, meant, pw, name, home, torn, adrift>>

(* password.encode("utf-8") raises for what the terminal or environment    *)
(* passed on undecoded: an error message, and the file stays empty.        *)
SealRaises(t) ==
    /\ At(t, "seal") /\ pw[t] \in Unencodable
    /\ torn' = torn \cup {name[t]}
    /\ Ends(t, "idle")
    /\ UNCHANGED <<files, saved, adrift>>

(* set_active: open(active, "w") *)
OpenActive(t) ==
    /\ At(t, "point")
    /\ active' = None
    /\ Goto(t, "name")
    /\ UNCHANGED <<key, kp, meant, pw, name, home, history>>

(* set_active: the name is written. *)
NameActive(t) ==
    /\ At(t, "name")
    /\ active' = name[t]
    /\ adrift' = FALSE
    /\ Ends(t, "idle")
    /\ UNCHANGED <<key, saved, torn>>

-----------------------------------------------------------------------------
(* _new_identity: a fresh key *)
Generates(t) ==
    /\ \E s \in Secrets, w \in Passwords : Save(t, s, s, w)
    /\ UNCHANGED <<files, history>>

(* keygen --force *)
KeygenForce(t) == At(t, "idle") /\ Generates(t)

(* keygen: an identity that has a key may be kept. *)
Keygen(t) ==
    /\ At(t, "idle")
    /\ \E pin \in Pins :
          LET existing == active_npub(pin)
          IN IF HasKey(existing)
             THEN Goto(t, "keep?") /\ name' = [name EXCEPT ![t] = existing]
             ELSE Goto(t, "new") /\ UNCHANGED name
    /\ UNCHANGED <<files, kp, meant, pw, home, history>>

(* The key is kept: it is unlocked and verified, or not.  Or the operator  *)
(* reads that what was typed is no valid nsec.  Nothing is written.        *)
Leave(t) ==
    /\ pc[t] \in {"keep?", "refused"}
    /\ Ends(t, "idle")
    /\ UNCHANGED <<files, history>>

Generate(t) == pc[t] \in {"keep?", "new"} /\ Generates(t)

(* Typed by hand, or pasted, with or without a slip.  What is not a key,   *)
(* or does not work, is refused before anything is written.                *)
Import(t) ==
    /\ pc[t] \in {"keep?", "new"}
    /\ \E s \in Secrets, slip \in BOOLEAN :
       \E k \in (IF slip THEN Slips[s] ELSE {Exact[s]}) :
          \/ FALSE \in Works[k] /\ Ends(t, IF slip THEN "idle" ELSE "refused")
          \/ TRUE \in Works[k] /\ \E w \in Passwords : Save(t, k, s, w)
    /\ UNCHANGED <<files, history>>

(* identities --use: what has a file nsec.enc is listed *)
Use(t) ==
    /\ At(t, "idle")
    /\ \E n \in Npubs : HasKey(n) /\ name' = [name EXCEPT ![t] = n]
    /\ Goto(t, "point")
    /\ UNCHANGED <<files, kp, meant, pw, home, history>>

-----------------------------------------------------------------------------
(* A command that signs, and not with PIJN_NSEC: load_policy, *)
LoadPolicy(t) ==
    /\ At(t, "idle")
    /\ \E pin \in Pins : home' = [home EXCEPT ![t] = active_npub(pin)]
    /\ Goto(t, "loaded")
    /\ UNCHANGED <<files, kp, meant, pw, name, history>>

(* Mutant: the identity is looked up again. *)
Current(t) == active

(* ... then load_active_keypair of the policy's npub, if it has one ... *)
Asked(t) == IF home[t] # None THEN home[t] ELSE active

FindKey(t) ==
    /\ At(t, "loaded")
    /\ \/ /\ HasKey(Asked(t))
          /\ name' = [name EXCEPT ![t] = Asked(t)]
          /\ Goto(t, "unlock")
          /\ UNCHANGED <<kp, meant, pw, home>>
       \/ ~HasKey(Asked(t)) /\ Ends(t, "idle")
    /\ UNCHANGED <<files, history>>

(* decrypt_secret, with the key that _derive returns *)
Opens(c, w, d) == c \notin {Absent, Empty} /\ c.pw = w /\ c.kdf = d

(* ... whose file is read when the passphrase has been typed, *)
Unlock(t) ==
    /\ At(t, "unlock")
    /\ \E w \in Passwords, d \in Derives[t] :
          \/ /\ Opens(key[name[t]], w, d)
             /\ kp' = [kp EXCEPT ![t] = key[name[t]].secret]
             /\ Goto(t, "signing")
             /\ UNCHANGED <<meant, pw, name, home>>
          \/ ~Opens(key[name[t]], w, d) /\ Ends(t, "idle")
    /\ UNCHANGED <<files, history>>

(* ... and events are signed. *)
Sign(t) ==
    /\ At(t, "signing")
    /\ Ends(t, "idle")
    /\ UNCHANGED <<files, history>>

-----------------------------------------------------------------------------
(* The process dies.  What it had written stays, and no more is written. *)
Crash(t) ==
    /\ pc[t] # "idle"
    /\ torn' = IF At(t, "seal") THEN torn \cup {name[t]} ELSE torn
    /\ adrift' = (adrift \/ pc[t] \in {"point", "name"})
    /\ Ends(t, "idle")
    /\ UNCHANGED <<files, saved>>

Command(t) ==
    \/ KeygenForce(t) \/ Keygen(t) \/ Leave(t) \/ Generate(t) \/ Import(t)
    \/ OpenKey(t) \/ Seal(t) \/ SealRaises(t) \/ OpenActive(t) \/ NameActive(t)
    \/ Use(t)
    \/ LoadPolicy(t) \/ FindKey(t) \/ Unlock(t) \/ Sign(t)

Next == \E t \in Terminals : Command(t) \/ Crash(t)

Spec == Init /\ [][Next]_keystoreVars

-----------------------------------------------------------------------------
(* What the checksum of an nsec is there for: of the texts near that of a  *)
(* secret, and of its own, none is another key.                            *)
NoSlipIsAKey == \A s \in Secrets : {Exact[s]} \cup Slips[s] \subseteq {s, Refused}

(* "no silent cross-environment mismatch" (cipher.py:19) *)
OneKdf == \A t, u \in Terminals : \A d \in Derives[t], e \in Derives[u] : d = e

Steps == {"idle", "keep?", "new", "refused", "open", "seal", "point", "name",
          "loaded", "unlock", "signing"}

ASSUME StepsAssumption == OtherSteps \cap Steps = {}

TypeOK ==
    /\ active \in Npubs \cup {None}
    /\ key \in [Npubs -> Container \cup {Absent, Empty}]
    /\ pc \in [Terminals -> Steps \cup OtherSteps]
    /\ kp \in [Terminals -> Keys \cup {None}]
    /\ meant \in [Terminals -> Secrets \cup {None}]
    /\ pw \in [Terminals -> Passwords \cup {None}]
    /\ name \in [Terminals -> Npubs \cup {None}]
    /\ home \in [Terminals -> Npubs \cup {None}]
    /\ saved \in [Npubs -> [secret : Secrets, pw : Passwords] \cup {None}]
    /\ torn \subseteq Npubs
    /\ adrift \in BOOLEAN

(* A key that was saved can be unlocked, in every terminal, with the       *)
(* passphrase that was typed, and is the one the operator meant, until the *)
(* same identity is saved again.                                           *)
KeyOpens ==
    \A n \in Npubs : saved[n] # None =>
        \A t \in Terminals : \A d \in Derives[t] :
            /\ Opens(key[n], saved[n].pw, d)
            /\ key[n].secret = saved[n].secret

(* A key is filed under its own npub. *)
FiledByNpub == \A n \in Npubs : key[n] \in {Absent, Empty} \/ NpubOf[key[n].secret] = n

(* `active` names an identity whose key is there, unless a save of it is   *)
(* under way or was cut short.                                             *)
ActiveHasKey ==
    active # None =>
        /\ key[active] # Absent
        /\ key[active] = Empty => active \in torn \/ \E t \in Terminals : Saving(t, active)

(* Once an identity has been saved there is an active one, unless one is   *)
(* being set or the process that was setting it died.                      *)
SomeActive ==
    (\E n \in Npubs : saved[n] # None) /\ active = None =>
        adrift \/ \E t \in Terminals : pc[t] \in {"point", "name"}

(* What save_identity and set_active leave, wherever they are cut short.    *)
KeysHold == KeyOpens /\ FiledByNpub /\ ActiveHasKey /\ SomeActive

(* A key that a command signs with is the identity's whose policy it      *)
(* loaded, though `active` may be set to another between the two.          *)
SignsForHome ==
    \A t \in Terminals : At(t, "signing") /\ home[t] # None => NpubOf[kp[t]] = home[t]

(* An nsec that was typed right is never refused: what to_nsec writes,     *)
(* from_nsec reads, and every valid key passes the check of _new_identity, *)
(* whatever the random message.                                            *)
GoodKeyAccepted == \A t \in Terminals : ~At(t, "refused")
=============================================================================
