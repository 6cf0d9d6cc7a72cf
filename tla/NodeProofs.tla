----------------------------- MODULE NodeProofs -----------------------------
(***************************************************************************)
(* Machine-checked proofs about Keystore and Node, for any set of          *)
(* terminals, keys, passphrases and pins, with a crash between any two     *)
(* system calls: type correctness, that a saved key opens until it is      *)
(* saved again, that a command signs for the home it loaded, and the same  *)
(* beside any number of running nodes, whatever they serve.                *)
(*                                                                         *)
(* First the identity store alone (Spec), then with the nodes (NodeSpec).  *)
(***************************************************************************)
EXTENDS Node, TLAPS


-----------------------------------------------------------------------------
(* What one command knows while it is at a step. *)
Knows(t) ==
    /\ pc[t] \in {"open", "seal"} =>
          /\ kp[t] \in Secrets /\ meant[t] = kp[t] /\ pw[t] \in Passwords
          /\ name[t] = NpubOf[kp[t]]
    /\ pc[t] \in {"point", "name"} => name[t] \in Npubs /\ key[name[t]] # Absent
    /\ pc[t] = "unlock" => name[t] \in Npubs /\ (home[t] # None => name[t] = home[t])
    /\ pc[t] = "signing" /\ home[t] # None => NpubOf[kp[t]] = home[t]

Locals == \A t \in Terminals : Knows(t)

(* Nothing is promised of an identity that is being saved, or whose last   *)
(* save was cut short or ran beside another.                               *)
Unpromised == \A n \in Npubs : n \in torn \/ (\E t \in Terminals : Saving(t, n)) => saved[n] = None

(* Two that save the same identity at a time. *)
Beside ==
    \A t, u \in Terminals :
        t # u /\ pc[t] = "seal" /\ pc[u] = "seal" /\ name[t] = name[u] => name[t] \in torn

EmptyIsTorn == \A n \in Npubs : key[n] = Empty => n \in torn \/ \E t \in Terminals : Saving(t, n)

Derived == \A n \in Npubs : key[n] \notin {Absent, Empty} => \E t \in Terminals : key[n].kdf \in Derives[t]

SavedIsThere ==
    \A n \in Npubs : saved[n] # None =>
        /\ key[n] \notin {Absent, Empty}
        /\ key[n].pw = saved[n].pw /\ key[n].secret = saved[n].secret

ActiveIsThere == active # None => key[active] # Absent

Files ==
    /\ Unpromised /\ Beside /\ EmptyIsTorn /\ Derived
    /\ SavedIsThere /\ FiledByNpub /\ ActiveIsThere /\ SomeActive

IInv == TypeOK /\ Locals /\ Files

-----------------------------------------------------------------------------
LEMMA Refusals ==
    ASSUME NoSlipIsAKey, NEW s \in Secrets, NEW slip \in BOOLEAN,
           NEW k \in (IF slip THEN Slips[s] ELSE {Exact[s]}), TRUE \in Works[k]
    PROVE  k = s
<1>1. k \in {s, Refused}
  BY DEF NoSlipIsAKey
<1>2. k # Refused
  BY KeystoreAssumption
<1> QED BY <1>1, <1>2

LEMMA NpubOfSecret == \A s \in Secrets : NpubOf[s] \in Npubs
BY KeystoreAssumption DEF Npubs

LEMMA EndsTypes ==
    ASSUME TypeOK, NEW t \in Terminals, NEW s \in Steps \cup OtherSteps, Ends(t, s)
    PROVE  /\ pc' \in [Terminals -> Steps \cup OtherSteps] /\ kp' \in [Terminals -> Keys \cup {None}]
           /\ meant' \in [Terminals -> Secrets \cup {None}]
           /\ pw' \in [Terminals -> Passwords \cup {None}]
           /\ name' \in [Terminals -> Npubs \cup {None}]
           /\ home' \in [Terminals -> Npubs \cup {None}]
BY DEF TypeOK, Ends, Goto

LEMMA SaveTypes ==
    ASSUME TypeOK, NEW t \in Terminals, NEW s \in Secrets, NEW k \in Keys, NEW w \in Passwords,
           Save(t, k, s, w)
    PROVE  /\ pc' \in [Terminals -> Steps \cup OtherSteps] /\ kp' \in [Terminals -> Keys \cup {None}]
           /\ meant' \in [Terminals -> Secrets \cup {None}]
           /\ pw' \in [Terminals -> Passwords \cup {None}]
           /\ name' \in [Terminals -> Npubs \cup {None}]
           /\ home' \in [Terminals -> Npubs \cup {None}]
BY DEF TypeOK, Save, Goto, Steps, Npubs

LEMMA TypeStep == TypeOK /\ Locals /\ [Next]_keystoreVars => TypeOK'
<1> SUFFICES ASSUME TypeOK, Locals, NEW t \in Terminals, Command(t) \/ Crash(t) PROVE TypeOK'
  BY DEF TypeOK, Next, keystoreVars
<1> USE KeystoreAssumption
<1>0. "idle" \in Steps
  BY DEF Steps
<1>1. CASE KeygenForce(t) \/ Generate(t)
  <2>1. /\ \E s \in Secrets, w \in Passwords : Save(t, s, s, w)
        /\ UNCHANGED <<files, history>>
    BY <1>1 DEF KeygenForce, Generate, Generates
  <2>2. PICK s \in Secrets, w \in Passwords : Save(t, s, s, w)
    BY <2>1
  <2>3. s \in Keys
    OBVIOUS
  <2> QED BY <2>1, <2>2, <2>3, SaveTypes DEF TypeOK, files, history
<1>2. CASE Keygen(t)
  BY <1>2 DEF TypeOK, Keygen, files, history, active_npub, HasKey, Goto, Steps
<1>3. CASE Leave(t)
  BY <1>3, <1>0, EndsTypes DEF TypeOK, Leave, files, history
<1>4. CASE Import(t)
  <2>1. UNCHANGED <<files, history>>
    BY <1>4 DEF Import
  <2>2. PICK s \in Secrets, slip \in BOOLEAN : \E k \in (IF slip THEN Slips[s] ELSE {Exact[s]}) :
            \/ FALSE \in Works[k] /\ Ends(t, IF slip THEN "idle" ELSE "refused")
            \/ TRUE \in Works[k] /\ \E w \in Passwords : Save(t, k, s, w)
    BY <1>4 DEF Import
  <2>3. PICK k \in (IF slip THEN Slips[s] ELSE {Exact[s]}) :
            \/ FALSE \in Works[k] /\ Ends(t, IF slip THEN "idle" ELSE "refused")
            \/ TRUE \in Works[k] /\ \E w \in Passwords : Save(t, k, s, w)
    BY <2>2
  <2>4. CASE Ends(t, IF slip THEN "idle" ELSE "refused")
    <3>1. (IF slip THEN "idle" ELSE "refused") \in Steps \cup OtherSteps
      BY DEF Steps
    <3> QED BY <2>1, <2>4, <3>1, EndsTypes DEF TypeOK, files, history
  <2>5. CASE TRUE \in Works[k] /\ \E w \in Passwords : Save(t, k, s, w)
    <3>1. k \in Keys
      BY <2>5
    <3> QED BY <2>1, <2>5, <3>1, SaveTypes DEF TypeOK, files, history
  <2> QED BY <2>3, <2>4, <2>5
<1>5. CASE OpenKey(t)
  <2>1. name[t] \in Npubs
    BY <1>5, NpubOfSecret DEF Locals, Knows, OpenKey, At
  <2> QED BY <1>5, <2>1 DEF TypeOK, OpenKey, Goto, Steps
<1>6. CASE Seal(t)
  <2>1. /\ name[t] \in Npubs /\ kp[t] \in Keys /\ meant[t] \in Secrets /\ pw[t] \in Passwords
    BY <1>6, NpubOfSecret DEF Locals, Knows, Seal, At
  <2>2. key' \in [Npubs -> Container \cup {Absent, Empty}]
    <3>1. PICK d \in Derives[t] :
              key' = [key EXCEPT ![name[t]] = [secret |-> kp[t], pw |-> pw[t], kdf |-> d]]
      BY <1>6 DEF Seal
    <3>2. [secret |-> kp[t], pw |-> pw[t], kdf |-> d] \in Container
      BY <2>1, ContainerAssumption DEF Container
    <3> QED BY <3>1, <3>2 DEF TypeOK
  <2>3. saved' \in [Npubs -> [secret : Secrets, pw : Passwords] \cup {None}]
    BY <1>6, <2>1 DEF TypeOK, Seal
  <2> QED BY <1>6, <2>2, <2>3 DEF TypeOK, Seal, Goto, Steps
<1>7. CASE SealRaises(t)
  <2>1. name[t] \in Npubs
    BY <1>7, NpubOfSecret DEF Locals, Knows, SealRaises, At
  <2> QED BY <1>0, <1>7, <2>1, EndsTypes DEF TypeOK, SealRaises, files
<1>8. CASE OpenActive(t)
  BY <1>8 DEF TypeOK, OpenActive, Goto, Steps, history
<1>9. CASE NameActive(t)
  <2>1. Ends(t, "idle") /\ active' = name[t] /\ adrift' = FALSE /\ UNCHANGED <<key, saved, torn>>
    BY <1>9 DEF NameActive
  <2> QED BY <1>0, <2>1, EndsTypes DEF TypeOK
<1>10. CASE Use(t)
  BY <1>10 DEF TypeOK, Use, Goto, Steps, files, history
<1>11. CASE LoadPolicy(t)
  BY <1>11 DEF TypeOK, LoadPolicy, Goto, Steps, files, history, active_npub
<1>12. CASE FindKey(t)
  <2>1. UNCHANGED <<files, history>>
    BY <1>12 DEF FindKey
  <2>2. CASE Ends(t, "idle")
    BY <1>0, <2>1, <2>2, EndsTypes DEF TypeOK, files, history
  <2>3. CASE /\ name' = [name EXCEPT ![t] = Asked(t)]
             /\ Goto(t, "unlock") /\ UNCHANGED <<kp, meant, pw, home>>
    BY <2>1, <2>3 DEF TypeOK, Asked, Goto, Steps, files, history
  <2> QED BY <1>12, <2>2, <2>3 DEF FindKey
<1>13. CASE Unlock(t)
  <2>1. UNCHANGED <<files, history>>
    BY <1>13 DEF Unlock
  <2>2. CASE Ends(t, "idle")
    BY <1>0, <2>1, <2>2, EndsTypes DEF TypeOK, files, history
  <2>3. CASE \E w \in Passwords, d \in Derives[t] :
                /\ Opens(key[name[t]], w, d)
                /\ kp' = [kp EXCEPT ![t] = key[name[t]].secret]
                /\ Goto(t, "signing") /\ UNCHANGED <<meant, pw, name, home>>
    <3>1. name[t] \in Npubs
      BY <1>13 DEF Locals, Knows, Unlock, At
    <3>2. key[name[t]].secret \in Keys
      <4>1. key[name[t]] \in Container
        BY <2>3, <3>1 DEF TypeOK, Opens
      <4> QED BY <4>1 DEF Container
    <3> QED BY <2>1, <2>3, <3>2 DEF TypeOK, Goto, Steps, files, history
  <2> QED BY <1>13, <2>2, <2>3 DEF Unlock
<1>14. CASE Sign(t)
  BY <1>0, <1>14, EndsTypes DEF TypeOK, Sign, files, history
<1>15. CASE Crash(t)
  <2>1. torn' \subseteq Npubs
    BY <1>15, NpubOfSecret DEF TypeOK, Locals, Knows, Crash, At
  <2>2. adrift' \in BOOLEAN
    BY <1>15, Zenon DEF TypeOK, Crash
  <2> QED BY <1>0, <1>15, <2>1, <2>2, EndsTypes DEF TypeOK, Crash, files
<1> QED
  BY <1>1, <1>2, <1>3, <1>4, <1>5, <1>6, <1>7, <1>8, <1>9, <1>10, <1>11, <1>12, <1>13, <1>14, <1>15
  DEF Command

-----------------------------------------------------------------------------
(* A step of t leaves what the other terminals know alone. *)
Only(t) ==
    \A u \in Terminals \ {t} :
        /\ pc'[u] = pc[u] /\ kp'[u] = kp[u] /\ meant'[u] = meant[u]
        /\ pw'[u] = pw[u] /\ name'[u] = name[u] /\ home'[u] = home[u]

LEMMA EndsOnly ==
    ASSUME TypeOK, NEW t \in Terminals, NEW s, Ends(t, s)
    PROVE  Only(t) /\ pc'[t] = s
BY DEF TypeOK, Ends, Goto, Only

LEMMA SaveOnly ==
    ASSUME TypeOK, NEW t \in Terminals, NEW k, NEW m, NEW w, Save(t, k, m, w)
    PROVE  /\ Only(t) /\ pc'[t] = "open"
           /\ kp'[t] = k /\ meant'[t] = m /\ pw'[t] = w /\ name'[t] = NpubOf[k]
BY DEF TypeOK, Save, Goto, Only

(* No file of a key is ever removed. *)
LEMMA OthersKnow ==
    ASSUME Locals, NEW t \in Terminals, Only(t), Knows(t)',
           \A n \in Npubs : key[n] # Absent => key'[n] # Absent
    PROVE  Locals'
<1> SUFFICES ASSUME NEW u \in Terminals \ {t} PROVE Knows(u)'
  BY DEF Locals
<1>1. Knows(u)
  BY DEF Locals
<1> QED BY <1>1 DEF Knows, Only

(* A step that touches no file, of a command that was not writing. *)
LEMMA FilesAlone ==
    ASSUME Files, NEW t \in Terminals, Only(t), UNCHANGED <<files, history>>,
           pc[t] \notin {"seal", "point", "name"}, pc'[t] # "seal"
    PROVE  Files'
<1> USE DEF Only, files, history, Saving, At
<1>1. /\ active' = active /\ key' = key /\ saved' = saved /\ torn' = torn /\ adrift' = adrift
  OBVIOUS
<1>2. \A u \in Terminals, n \in Npubs : Saving(u, n)' <=> Saving(u, n)
  OBVIOUS
<1>3. Unpromised'
  BY <1>1, <1>2 DEF Files, Unpromised
<1>4. Beside'
  BY <1>1 DEF Files, Beside
<1>5. EmptyIsTorn'
  BY <1>1, <1>2 DEF Files, EmptyIsTorn
<1>6. SomeActive'
  <2>1. \A u \in Terminals : pc[u] \in {"point", "name"} => pc'[u] \in {"point", "name"}
    OBVIOUS
  <2> QED BY <1>1, <2>1 DEF Files, SomeActive
<1>7. Derived' /\ SavedIsThere' /\ FiledByNpub' /\ ActiveIsThere'
  BY <1>1 DEF Files, Derived, SavedIsThere, FiledByNpub, ActiveIsThere
<1> QED BY <1>3, <1>4, <1>5, <1>6, <1>7 DEF Files

LEMMA Aside ==
    ASSUME IInv, NEW t \in Terminals, Only(t), UNCHANGED <<files, history>>,
           pc[t] \notin {"seal", "point", "name"}, pc'[t] # "seal", Knows(t)'
    PROVE  Locals' /\ Files'
<1>1. \A n \in Npubs : key[n] # Absent => key'[n] # Absent
  BY DEF files
<1> QED BY <1>1, OthersKnow, FilesAlone DEF IInv

(* Commands that go on, or end, without writing. *)
LEMMA ReadingStep ==
    ASSUME IInv, NoSlipIsAKey, NEW t \in Terminals,
           \/ KeygenForce(t) \/ Keygen(t) \/ Leave(t) \/ Generate(t) \/ Import(t)
           \/ Use(t) \/ LoadPolicy(t) \/ FindKey(t) \/ Unlock(t) \/ Sign(t)
    PROVE  Locals' /\ Files'
<1> USE DEF IInv
<1>1. CASE KeygenForce(t) \/ Generate(t)
  <2>1. /\ \E s \in Secrets, w \in Passwords : Save(t, s, s, w)
        /\ UNCHANGED <<files, history>>
        /\ pc[t] \notin {"seal", "point", "name"}
    BY <1>1 DEF KeygenForce, Generate, Generates, At
  <2>2. Knows(t)' /\ Only(t) /\ pc'[t] # "seal"
    BY <2>1, SaveOnly DEF Knows
  <2> QED BY <2>1, <2>2, Aside
<1>2. CASE Keygen(t)
  <2>1. /\ Only(t) /\ pc'[t] \in {"keep?", "new"} /\ pc[t] = "idle" /\ UNCHANGED <<files, history>>
    BY <1>2 DEF Keygen, TypeOK, Goto, Only, At
  <2> QED BY <2>1, Aside DEF Knows
<1>3. CASE Leave(t)
  <2>1. /\ pc[t] \in {"keep?", "refused"} /\ Ends(t, "idle") /\ UNCHANGED <<files, history>>
    BY <1>3 DEF Leave
  <2>2. Only(t) /\ pc'[t] = "idle"
    BY <2>1, EndsOnly
  <2> QED BY <2>1, <2>2, Aside DEF Knows
<1>4. CASE Import(t)
  <2>1. UNCHANGED <<files, history>> /\ pc[t] \in {"keep?", "new"}
    BY <1>4 DEF Import
  <2>2. PICK s \in Secrets, slip \in BOOLEAN : \E k \in (IF slip THEN Slips[s] ELSE {Exact[s]}) :
            \/ FALSE \in Works[k] /\ Ends(t, IF slip THEN "idle" ELSE "refused")
            \/ TRUE \in Works[k] /\ \E w \in Passwords : Save(t, k, s, w)
    BY <1>4 DEF Import
  <2>5. PICK k \in (IF slip THEN Slips[s] ELSE {Exact[s]}) :
            \/ FALSE \in Works[k] /\ Ends(t, IF slip THEN "idle" ELSE "refused")
            \/ TRUE \in Works[k] /\ \E w \in Passwords : Save(t, k, s, w)
    BY <2>2
  <2>3. CASE Ends(t, IF slip THEN "idle" ELSE "refused")
    <3>1. Only(t) /\ pc'[t] \in {"idle", "refused"}
      BY <2>3, EndsOnly
    <3> QED BY <2>1, <3>1, Aside DEF Knows
  <2>4. CASE TRUE \in Works[k] /\ \E w \in Passwords : Save(t, k, s, w)
    <3>1. k = s
      BY <2>4, Refusals
    <3>2. Knows(t)' /\ Only(t) /\ pc'[t] # "seal"
      BY <2>4, <3>1, SaveOnly DEF Knows
    <3> QED BY <2>1, <3>2, Aside
  <2> QED BY <2>3, <2>4, <2>5
<1>5. CASE Use(t)
  <2>1. PICK n \in Npubs : HasKey(n) /\ name' = [name EXCEPT ![t] = n]
    BY <1>5 DEF Use
  <2>2. /\ Only(t) /\ pc'[t] = "point" /\ name'[t] = n /\ pc[t] = "idle"
        /\ UNCHANGED <<files, history>>
    BY <1>5, <2>1 DEF Use, TypeOK, Goto, Only, At
  <2>3. Knows(t)'
    BY <2>1, <2>2 DEF Knows, HasKey, files
  <2> QED BY <2>2, <2>3, Aside
<1>6. CASE LoadPolicy(t)
  <2>1. /\ Only(t) /\ pc'[t] = "loaded" /\ pc[t] = "idle" /\ UNCHANGED <<files, history>>
    BY <1>6 DEF LoadPolicy, TypeOK, Goto, Only, At
  <2> QED BY <2>1, Aside DEF Knows
<1>7. CASE FindKey(t)
  <2>1. UNCHANGED <<files, history>> /\ pc[t] = "loaded"
    BY <1>7 DEF FindKey, At
  <2>2. CASE Ends(t, "idle")
    <3>1. Only(t) /\ pc'[t] = "idle"
      BY <2>2, EndsOnly
    <3> QED BY <2>1, <3>1, Aside DEF Knows
  <2>3. CASE /\ HasKey(Asked(t)) /\ name' = [name EXCEPT ![t] = Asked(t)]
             /\ Goto(t, "unlock") /\ UNCHANGED <<kp, meant, pw, home>>
    <3>1. Only(t) /\ pc'[t] = "unlock" /\ name'[t] = Asked(t) /\ home'[t] = home[t]
      BY <2>3 DEF TypeOK, Goto, Only
    <3>2. Asked(t) \in Npubs /\ (home[t] # None => Asked(t) = home[t])
      BY <2>3 DEF TypeOK, HasKey, Asked
    <3> QED BY <2>1, <3>1, <3>2, Aside DEF Knows
  <2> QED BY <1>7, <2>2, <2>3 DEF FindKey
<1>8. CASE Unlock(t)
  <2>1. UNCHANGED <<files, history>> /\ pc[t] = "unlock"
    BY <1>8 DEF Unlock, At
  <2>2. CASE Ends(t, "idle")
    <3>1. Only(t) /\ pc'[t] = "idle"
      BY <2>2, EndsOnly
    <3> QED BY <2>1, <3>1, Aside DEF Knows
  <2>3. CASE \E w \in Passwords, d \in Derives[t] :
                /\ Opens(key[name[t]], w, d)
                /\ kp' = [kp EXCEPT ![t] = key[name[t]].secret]
                /\ Goto(t, "signing") /\ UNCHANGED <<meant, pw, name, home>>
    <3>1. /\ Only(t) /\ pc'[t] = "signing" /\ kp'[t] = key[name[t]].secret /\ home'[t] = home[t]
      BY <2>3 DEF TypeOK, Goto, Only
    <3>2. name[t] \in Npubs /\ (home[t] # None => name[t] = home[t])
      BY <2>1 DEF Locals, Knows
    <3>3. NpubOf[key[name[t]].secret] = name[t]
      BY <2>3, <3>2 DEF Opens, Files, FiledByNpub
    <3> QED BY <2>1, <3>1, <3>2, <3>3, Aside DEF Knows
  <2> QED BY <1>8, <2>2, <2>3 DEF Unlock
<1>9. CASE Sign(t)
  <2>1. UNCHANGED <<files, history>> /\ pc[t] = "signing" /\ Ends(t, "idle")
    BY <1>9 DEF Sign, At
  <2>2. Only(t) /\ pc'[t] = "idle"
    BY <2>1, EndsOnly
  <2> QED BY <2>1, <2>2, Aside DEF Knows
<1> QED BY <1>1, <1>2, <1>3, <1>4, <1>5, <1>6, <1>7, <1>8, <1>9

-----------------------------------------------------------------------------
(* Commands that write. *)
LEMMA OpenKeyStep ==
    ASSUME IInv, NEW t \in Terminals, OpenKey(t)
    PROVE  Locals' /\ Files'
<1> DEFINE n == name[t]
<1> USE DEF Saving, At
<1>1. /\ pc[t] = "open" /\ n \in Npubs /\ Knows(t)
  BY NpubOfSecret DEF IInv, Locals, Knows, OpenKey
<1>2. /\ Only(t) /\ pc'[t] = "seal" /\ UNCHANGED <<active, kp, meant, pw, name, adrift>>
  BY DEF IInv, TypeOK, OpenKey, Goto, Only
<1>3. /\ key'[n] = Empty /\ saved'[n] = None
      /\ \A m \in Npubs \ {n} : key'[m] = key[m] /\ saved'[m] = saved[m]
  BY <1>1 DEF IInv, TypeOK, OpenKey
<1>4. /\ torn \ {n} \subseteq torn' /\ torn' \subseteq torn \cup {n}
      /\ \A u \in Terminals \ {t} : Saving(u, n) => n \in torn'
  BY DEF OpenKey
<1>5. \A u \in Terminals \ {t}, m \in Npubs : Saving(u, m)' <=> Saving(u, m)
  BY <1>2 DEF Only
<1>6. \A m \in Npubs \ {n} : ~Saving(t, m)'
  BY <1>1, <1>2
<1>7. Locals'
  <2>1. Knows(t)'
    BY <1>1, <1>2 DEF Knows
  <2>2. \A m \in Npubs : key[m] # Absent => key'[m] # Absent
    BY <1>3, ContainerAssumption
  <2> QED BY <1>2, <2>1, <2>2, OthersKnow DEF IInv
<1>8. Unpromised'
  BY <1>3, <1>4, <1>5, <1>6 DEF IInv, Files, Unpromised
<1>9. Beside'
  <2> SUFFICES ASSUME NEW u \in Terminals, NEW v \in Terminals, u # v,
                      pc'[u] = "seal", pc'[v] = "seal", name'[u] = name'[v]
               PROVE  name'[u] \in torn'
    BY DEF Beside
  <2>1. CASE u = t
    BY <1>2, <1>4, <1>5, <2>1 DEF Only
  <2>2. CASE v = t
    BY <1>2, <1>4, <1>5, <2>2 DEF Only
  <2>3. CASE u # t /\ v # t
    <3>1. name[u] \in torn /\ Saving(u, name[u])
      BY <1>2, <2>3 DEF Only, IInv, Files, Beside
    <3> QED BY <1>2, <1>4, <2>3, <3>1
  <2> QED BY <2>1, <2>2, <2>3
<1>10. EmptyIsTorn'
  <2>1. Saving(t, n)'
    BY <1>2
  <2>2. \A m \in Npubs \ {n} : m \in torn => m \in torn'
    BY <1>4
  <2>3. \A m \in Npubs : ~Saving(t, m)
    BY <1>1
  <2>4. ASSUME NEW m \in Npubs, m # n, key[m] = Empty
        PROVE  m \in torn' \/ \E u \in Terminals : Saving(u, m)'
    <3>1. m \in torn \/ \E u \in Terminals : Saving(u, m)
      BY <2>4 DEF IInv, Files, EmptyIsTorn
    <3> QED BY <1>5, <2>2, <2>3, <2>4, <3>1
  <2>5. ASSUME NEW m \in Npubs, key'[m] = Empty
        PROVE  m \in torn' \/ \E u \in Terminals : Saving(u, m)'
    BY <1>2, <1>3, <2>1, <2>4, <2>5
  <2> QED BY <2>5 DEF EmptyIsTorn
<1>11. Derived' /\ SavedIsThere' /\ FiledByNpub'
  BY <1>3 DEF IInv, Files, Derived, SavedIsThere, FiledByNpub
<1>12. ActiveIsThere'
  BY <1>2, <1>3, ContainerAssumption DEF IInv, TypeOK, Files, ActiveIsThere
<1>13. SomeActive'
  <2>1. \A m \in Npubs : saved'[m] # None => saved[m] # None
    BY <1>3
  <2>2. \A u \in Terminals : pc[u] \in {"point", "name"} => pc'[u] = pc[u]
    BY <1>1, <1>2 DEF Only
  <2> QED BY <1>2, <2>1, <2>2 DEF IInv, Files, SomeActive
<1> QED BY <1>7, <1>8, <1>9, <1>10, <1>11, <1>12, <1>13 DEF Files

LEMMA SealStep ==
    ASSUME IInv, NEW t \in Terminals, Seal(t)
    PROVE  Locals' /\ Files'
<1> DEFINE n == name[t]
<1> USE DEF Saving, At
<1>1. /\ pc[t] = "seal" /\ n \in Npubs /\ n = NpubOf[kp[t]]
      /\ kp[t] \in Keys /\ meant[t] = kp[t] /\ pw[t] \in Passwords
  BY NpubOfSecret, KeystoreAssumption DEF IInv, Locals, Knows, Seal
<1>2. /\ Only(t) /\ pc'[t] = "point" /\ UNCHANGED <<active, kp, meant, pw, name, torn, adrift>>
  BY DEF IInv, TypeOK, Seal, Goto, Only
<1>3. PICK d \in Derives[t] :
          key' = [key EXCEPT ![n] = [secret |-> kp[t], pw |-> pw[t], kdf |-> d]]
  BY DEF Seal
<1>4. /\ key'[n] = [secret |-> kp[t], pw |-> pw[t], kdf |-> d]
      /\ \A m \in Npubs \ {n} : key'[m] = key[m]
  BY <1>1, <1>3 DEF IInv, TypeOK
<1>5. key'[n] \notin {Absent, Empty}
  <2>1. key'[n] \in Container
    BY <1>1, <1>4, ContainerAssumption DEF Container
  <2> QED BY <2>1, ContainerAssumption
<1>6. /\ n \in torn => saved' = saved
      /\ n \notin torn => saved'[n] = [secret |-> kp[t], pw |-> pw[t]]
      /\ \A m \in Npubs \ {n} : saved'[m] = saved[m]
  BY <1>1 DEF IInv, TypeOK, Seal
<1>7. /\ \A u \in Terminals \ {t}, m \in Npubs : Saving(u, m)' <=> Saving(u, m)
      /\ \A m \in Npubs : ~Saving(t, m)'
  BY <1>2 DEF Only
<1>8. Locals'
  <2>1. Knows(t)'
    BY <1>1, <1>2, <1>5 DEF Knows
  <2>2. \A m \in Npubs : key[m] # Absent => key'[m] # Absent
    BY <1>4, <1>5
  <2> QED BY <1>2, <2>1, <2>2, OthersKnow DEF IInv
<1>9. Unpromised'
  <2> SUFFICES ASSUME NEW m \in Npubs, m \in torn' \/ \E u \in Terminals : Saving(u, m)'
               PROVE  saved'[m] = None
    BY DEF Unpromised
  <2>1. m \in torn \/ \E u \in Terminals \ {t} : Saving(u, m)
    BY <1>2, <1>7
  <2>2. saved[m] = None
    BY <2>1 DEF IInv, Files, Unpromised
  <2>3. CASE m = n
    <3>1. n \in torn
      BY <1>1, <2>1, <2>3 DEF IInv, Files, Beside
    <3> QED BY <1>6, <2>2, <2>3, <3>1
  <2> QED BY <1>6, <2>2, <2>3
<1>10. Beside'
  BY <1>2 DEF IInv, Files, Beside, Only
<1>11. EmptyIsTorn'
  <2>1. \A m \in Npubs \ {n} : Saving(t, m) => FALSE
    BY <1>1
  <2> QED BY <1>2, <1>4, <1>5, <1>7, <2>1 DEF IInv, Files, EmptyIsTorn
<1>12. Derived'
  BY <1>4 DEF IInv, Files, Derived
<1>13. SavedIsThere'
  <2> SUFFICES ASSUME NEW m \in Npubs, saved'[m] # None
               PROVE  /\ key'[m] \notin {Absent, Empty}
                      /\ key'[m].pw = saved'[m].pw /\ key'[m].secret = saved'[m].secret
    BY DEF SavedIsThere
  <2>1. CASE m # n
    BY <1>4, <1>6, <2>1 DEF IInv, Files, SavedIsThere
  <2>2. CASE m = n
    <3>1. saved[n] = None
      BY <1>1 DEF IInv, Files, Unpromised
    <3>2. n \notin torn
      BY <1>6, <2>2, <3>1
    <3> QED BY <1>4, <1>5, <1>6, <2>2, <3>2
  <2> QED BY <2>1, <2>2
<1>14. FiledByNpub'
  BY <1>1, <1>4 DEF IInv, Files, FiledByNpub
<1>15. ActiveIsThere'
  BY <1>2, <1>4, <1>5 DEF IInv, TypeOK, Files, ActiveIsThere
<1>16. SomeActive'
  BY <1>2 DEF SomeActive
<1> QED BY <1>8, <1>9, <1>10, <1>11, <1>12, <1>13, <1>14, <1>15, <1>16 DEF Files

(* A save, or the naming of an identity, ends before it is through. *)
LEMMA CutShort ==
    ASSUME IInv, NEW t \in Terminals, Ends(t, "idle"), UNCHANGED <<files, saved>>,
           torn' = (IF pc[t] = "seal" THEN torn \cup {name[t]} ELSE torn),
           adrift => adrift', pc[t] \in {"point", "name"} => adrift'
    PROVE  Locals' /\ Files'
<1> USE DEF Saving, At
<1>1. Only(t) /\ pc'[t] = "idle" /\ UNCHANGED <<active, key, saved>>
  BY EndsOnly DEF IInv, files
<1>2. torn \subseteq torn' /\ \A m \in Npubs : Saving(t, m) => m \in torn'
  OBVIOUS
<1>3. /\ \A u \in Terminals \ {t}, m \in Npubs : Saving(u, m)' <=> Saving(u, m)
      /\ \A m \in Npubs : ~Saving(t, m)'
  BY <1>1 DEF Only
<1>4. Locals'
  BY <1>1, OthersKnow DEF IInv, Knows
<1>5. Unpromised'
  <2>1. \A m \in torn' : m \in torn \/ Saving(t, m)
    OBVIOUS
  <2> QED BY <1>1, <1>3, <2>1 DEF IInv, Files, Unpromised
<1>6. Beside'
  BY <1>1, <1>2 DEF IInv, Files, Beside, Only
<1>7. EmptyIsTorn'
  BY <1>1, <1>2, <1>3 DEF IInv, Files, EmptyIsTorn
<1>8. Derived' /\ SavedIsThere' /\ FiledByNpub' /\ ActiveIsThere'
  BY <1>1 DEF IInv, Files, Derived, SavedIsThere, FiledByNpub, ActiveIsThere
<1>9. SomeActive'
  <2>1. \A u \in Terminals \ {t} : pc'[u] = pc[u]
    BY <1>1 DEF Only
  <2> QED BY <1>1, <2>1 DEF IInv, Files, SomeActive
<1> QED BY <1>4, <1>5, <1>6, <1>7, <1>8, <1>9 DEF Files

(* set_active: only `active` changes. *)
LEMMA NamingStep ==
    ASSUME IInv, NEW t \in Terminals, OpenActive(t) \/ NameActive(t)
    PROVE  Locals' /\ Files'
<1> USE DEF Saving, At
<1>1. /\ pc[t] \in {"point", "name"} /\ UNCHANGED <<key, saved, torn>>
      /\ name[t] \in Npubs /\ key[name[t]] # Absent
  BY DEF IInv, Locals, Knows, OpenActive, NameActive, history
<1>2. \/ active' = None /\ pc'[t] = "name" /\ name' = name
      \/ active' = name[t] /\ pc'[t] = "idle"
  BY DEF IInv, TypeOK, OpenActive, NameActive, Ends, Goto
<1>3. Only(t)
  BY EndsOnly DEF IInv, TypeOK, OpenActive, NameActive, Goto, Only
<1>4. \A u \in Terminals, m \in Npubs : Saving(u, m)' <=> Saving(u, m)
  BY <1>1, <1>2, <1>3 DEF Only
<1>5. Locals'
  <2>1. Knows(t)'
    BY <1>1, <1>2 DEF Knows
  <2> QED BY <1>1, <1>3, <2>1, OthersKnow DEF IInv
<1>6. Unpromised' /\ EmptyIsTorn'
  BY <1>1, <1>4 DEF IInv, Files, Unpromised, EmptyIsTorn
<1>7. Beside'
  BY <1>1, <1>2, <1>3 DEF IInv, Files, Beside, Only
<1>8. Derived' /\ SavedIsThere' /\ FiledByNpub'
  BY <1>1 DEF IInv, Files, Derived, SavedIsThere, FiledByNpub
<1>9. ActiveIsThere'
  BY <1>1, <1>2 DEF ActiveIsThere
<1>10. SomeActive'
  BY <1>1, <1>2, KeystoreAssumption DEF SomeActive
<1> QED BY <1>5, <1>6, <1>7, <1>8, <1>9, <1>10 DEF Files

-----------------------------------------------------------------------------
LEMMA InvInit == Init => IInv
<1> SUFFICES ASSUME Init PROVE IInv
  OBVIOUS
<1> USE DEF Init, Saving, At
<1>1. TypeOK
  BY DEF TypeOK, Steps
<1>2. Locals
  BY DEF Locals, Knows
<1>3. Files
  BY ContainerAssumption
  DEF Files, Unpromised, Beside, EmptyIsTorn, Derived, SavedIsThere, FiledByNpub, ActiveIsThere, SomeActive
<1> QED BY <1>1, <1>2, <1>3 DEF IInv

LEMMA InvStep == NoSlipIsAKey /\ IInv /\ [Next]_keystoreVars => IInv'
<1> SUFFICES ASSUME NoSlipIsAKey, IInv, [Next]_keystoreVars PROVE Locals' /\ Files'
  BY TypeStep DEF IInv
<1>1. ASSUME NEW t \in Terminals, Command(t) \/ Crash(t) PROVE Locals' /\ Files'
  <2>1. CASE OpenKey(t)
    BY <2>1, OpenKeyStep
  <2>2. CASE Seal(t)
    BY <2>2, SealStep
  <2>3. CASE SealRaises(t)
    <3>1. /\ Ends(t, "idle") /\ UNCHANGED <<files, saved>> /\ adrift' = adrift
          /\ pc[t] = "seal" /\ torn' = torn \cup {name[t]}
      BY <2>3 DEF SealRaises, At
    <3> QED BY <3>1, CutShort
  <2>4. CASE Crash(t)
    <3>1. /\ Ends(t, "idle") /\ UNCHANGED <<files, saved>>
          /\ torn' = (IF pc[t] = "seal" THEN torn \cup {name[t]} ELSE torn)
      BY <2>4 DEF Crash, At
    <3>2. (adrift => adrift') /\ (pc[t] \in {"point", "name"} => adrift')
      BY <2>4, Zenon DEF Crash
    <3> QED BY <3>1, <3>2, CutShort
  <2>5. CASE OpenActive(t) \/ NameActive(t)
    BY <2>5, NamingStep
  <2>6. CASE \/ KeygenForce(t) \/ Keygen(t) \/ Leave(t) \/ Generate(t) \/ Import(t)
             \/ Use(t) \/ LoadPolicy(t) \/ FindKey(t) \/ Unlock(t) \/ Sign(t)
    BY <2>6, ReadingStep
  <2> QED BY <1>1, <2>1, <2>2, <2>3, <2>4, <2>5, <2>6 DEF Command
<1>2. CASE UNCHANGED keystoreVars
  BY <1>2 DEF keystoreVars, IInv, Locals, Knows, Files, Unpromised, Beside, EmptyIsTorn, Derived,
              SavedIsThere, FiledByNpub, ActiveIsThere, SomeActive, Saving, At
<1> QED BY <1>1, <1>2 DEF Next

LEMMA InvKeeps == ASSUME OneKdf, IInv PROVE KeysHold
<1> USE DEF IInv, Files
<1>1. KeyOpens
  BY DEF KeyOpens, Opens, SavedIsThere, Derived, OneKdf
<1>2. ActiveHasKey
  BY DEF ActiveHasKey, ActiveIsThere, EmptyIsTorn, TypeOK
<1> QED BY <1>1, <1>2 DEF KeysHold

-----------------------------------------------------------------------------
LEMMA Inductive == NoSlipIsAKey => (Spec => []IInv)
<1>1. NoSlipIsAKey => (IInv /\ [Next]_keystoreVars => IInv')
  BY InvStep
<1>2. NoSlipIsAKey => NoSlipIsAKey'
  BY DEF NoSlipIsAKey
<1> QED BY InvInit, <1>1, <1>2, PTL DEF Spec

(* Whatever is typed, killed or run beside it, what save_identity and      *)
(* set_active leave in the home is of the types the other commands expect. *)
THEOREM TypeCorrect == NoSlipIsAKey => (Spec => []TypeOK)
<1>1. IInv => TypeOK
  BY DEF IInv
<1> QED BY <1>1, Inductive, PTL

(* For every set of keys, terminals and passphrases: if no slip of a typed *)
(* nsec is a key, and every terminal derives with one function, then a     *)
(* saved key opens with its passphrase, is the one that was meant, and     *)
(* `active` names an identity that has one, until a save is cut short or   *)
(* two run side by side (keystore.py's save_identity and set_active).      *)
THEOREM KeysKept == NoSlipIsAKey /\ OneKdf => (Spec => []KeysHold)
<1>1. OneKdf => (IInv => KeysHold)
  BY InvKeeps
<1>2. OneKdf => OneKdf'
  BY DEF OneKdf
<1> QED BY <1>1, <1>2, Inductive, PTL

(* A command signs with the key of the npub its policy was loaded for,     *)
(* whoever else sets `active` between load_policy and load_active_keypair. *)
THEOREM SignsForTheHome == NoSlipIsAKey => (Spec => []SignsForHome)
<1>1. IInv => SignsForHome
  BY DEF IInv, Locals, Knows, SignsForHome, At
<1> QED BY <1>1, Inductive, PTL

-----------------------------------------------------------------------------
(* What a run does to its terminal: it goes on, or ends. *)
LEMMA NodeStepGoesOn ==
    ASSUME TypeOK, NEW t \in Terminals, NodeStep(t)
    PROVE  /\ TypeOK' /\ Only(t) /\ UNCHANGED <<files, history>>
           /\ pc[t] \in OtherSteps \cup {"idle"} /\ pc'[t] \in OtherSteps \cup {"idle"}
<1> USE NodeAssumption
<1>1. ASSUME Over(t) PROVE Ends(t, "idle")
  BY <1>1 DEF Over
<1>2. ASSUME Ends(t, "idle"), UNCHANGED <<files, history>>
      PROVE  TypeOK' /\ Only(t) /\ pc'[t] = "idle"
  <2>1. "idle" \in Steps \cup OtherSteps
    BY DEF Steps
  <2> QED BY <1>2, <2>1, EndsTypes, EndsOnly DEF TypeOK, files, history
<1>3. ASSUME NEW s \in OtherSteps, Goto(t, s), UNCHANGED <<files, kp, meant, pw, name, history>>,
             \/ UNCHANGED home
             \/ \E n \in Npubs \cup {None} : home' = [home EXCEPT ![t] = n]
      PROVE  TypeOK' /\ Only(t) /\ pc'[t] = s
  BY <1>3 DEF TypeOK, Only, Goto, files, history
<1>4. CASE Run(t)
  <2>1. PICK pin \in Pins, start \in Starts :
            home' = [home EXCEPT ![t] = load_policy(start[1], active_npub(pin)).npub]
    BY <1>4 DEF Run
  <2>2. active_npub(pin) \in Npubs \cup {None}
    BY KeystoreAssumption DEF active_npub, TypeOK
  <2>3. load_policy(start[1], active_npub(pin)).npub \in Npubs \cup {None}
    BY <2>2
  <2>4. /\ pc[t] = "idle" /\ Goto(t, "build")
        /\ UNCHANGED <<files, kp, meant, pw, name, history>>
    BY <1>4 DEF Run, At
  <2> QED BY <1>3, <2>1, <2>3, <2>4
<1>5. CASE Build(t)
  <2>1. pc[t] = "build" /\ UNCHANGED <<files, history>>
    BY <1>5 DEF Build, At
  <2>2. \/ Goto(t, "onion") /\ UNCHANGED <<kp, meant, pw, name, home>>
        \/ Over(t)
    BY <1>5 DEF Build
  <2> QED BY <1>1, <1>2, <1>3, <2>1, <2>2
<1>6. CASE StartOnion(t)
  <2>1. /\ pc[t] = "onion" /\ Goto(t, "serve")
        /\ UNCHANGED <<files, kp, meant, pw, name, home, history>>
    BY <1>6 DEF StartOnion, At
  <2> QED BY <1>3, <2>1
<1>7. CASE Bind(t)
  <2>1. /\ pc[t] = "serve" /\ (Goto(t, "closing") \/ UNCHANGED pc)
        /\ UNCHANGED <<files, kp, meant, pw, name, home, history>>
    BY <1>7 DEF Bind, At
  <2>2. UNCHANGED pc => Goto(t, "serve")
    BY <2>1 DEF TypeOK, Goto
  <2> QED BY <1>3, <2>1, <2>2
<1>8. CASE Stop(t)
  <2>1. /\ pc[t] = "serve" /\ Goto(t, "closing")
        /\ UNCHANGED <<files, kp, meant, pw, name, home, history>>
    BY <1>8 DEF Stop, At
  <2> QED BY <1>3, <2>1
<1>9. CASE Close(t) \/ Dies(t)
  <2>1. pc[t] \in OtherSteps /\ Over(t) /\ UNCHANGED <<files, history>>
    BY <1>9 DEF Close, Dies, At
  <2> QED BY <1>1, <1>2, <2>1
<1> QED BY <1>4, <1>5, <1>6, <1>7, <1>8, <1>9 DEF NodeStep

LEMMA NodeInvStep == NoSlipIsAKey /\ IInv /\ [NodeNext]_nodeVars => IInv'
<1> SUFFICES ASSUME NoSlipIsAKey, IInv, [NodeNext]_nodeVars PROVE IInv'
  OBVIOUS
<1>1. ASSUME NEW t \in Terminals, NodeStep(t) PROVE IInv'
  <2>1. /\ TypeOK' /\ Only(t) /\ UNCHANGED <<files, history>>
        /\ pc[t] \in OtherSteps \cup {"idle"} /\ pc'[t] \in OtherSteps \cup {"idle"}
    BY <1>1, NodeStepGoesOn DEF IInv
  <2>2. Knows(t)'
    BY <2>1, NodeAssumption DEF Knows
  <2> QED BY <2>1, <2>2, NodeAssumption, Aside DEF IInv
<1>2. CASE \E t \in Terminals : Command(t) \/ Crash(t)
  BY <1>2, InvStep DEF Next
<1>3. CASE UNCHANGED nodeVars
  BY <1>3, InvStep DEF nodeVars
<1> QED BY <1>1, <1>2, <1>3 DEF NodeNext

LEMMA NodeInductive == NoSlipIsAKey => (NodeSpec => []IInv)
<1>1. NoSlipIsAKey => (IInv /\ [NodeNext]_nodeVars => IInv')
  BY NodeInvStep
<1>2. NoSlipIsAKey => NoSlipIsAKey'
  BY DEF NoSlipIsAKey
<1>3. NodeInit => IInv
  BY InvInit DEF NodeInit
<1> QED BY <1>1, <1>2, <1>3, PTL DEF NodeSpec

-----------------------------------------------------------------------------
(* Whatever nodes start, serve, fail and die on the machine, a key that    *)
(* save_identity left opens, is the one that was meant, and `active`       *)
(* names an identity that has one: `pijn run` writes none of these files.  *)
THEOREM KeysKeptByNodes == NoSlipIsAKey /\ OneKdf => (NodeSpec => []KeysHold)
<1>1. OneKdf => (IInv => KeysHold)
  BY InvKeeps
<1>2. OneKdf => OneKdf'
  BY DEF OneKdf
<1> QED BY <1>1, <1>2, NodeInductive, PTL

(* Beside running nodes too, a command signs with the key of the npub its  *)
(* policy was loaded for.                                                  *)
THEOREM SignsForTheHomeBesideNodes == NoSlipIsAKey => (NodeSpec => []SignsForHome)
<1>1. IInv => SignsForHome
  BY DEF IInv, Locals, Knows, SignsForHome, At
<1> QED BY <1>1, NodeInductive, PTL

-----------------------------------------------------------------------------
(* What is true of the run of a terminal at each of its steps. *)
RunHolds(t) ==
    /\ setup[t] # None <=> pc[t] \in OtherSteps
    /\ setup[t] # None => \E start \in Starts, n \in Npubs \cup {None} : setup[t] = SetupOf(start, n)
    /\ setup[t] = None => onion[t] = NoPorts
    /\ setup[t] = None \/ pc[t] = "build" => apps[t] = {}
    /\ bound[t] \subseteq apps[t]
    /\ onion[t] # NoPorts =>
          /\ pc[t] \in {"serve", "closing"}
          /\ setup[t].inbound # "off" /\ onion[t] = PortMap(setup[t], apps[t])

Runs ==
    /\ DOMAIN setup = Terminals /\ DOMAIN onion = Terminals
    /\ apps \in [Terminals -> SUBSET Services]
    /\ bound \in [Terminals -> SUBSET Services]
    /\ \A t \in Terminals : RunHolds(t)

(* A command, or the crash of one, moves between its own steps. *)
LEMMA CommandSteps ==
    ASSUME TypeOK, NEW t \in Terminals, Command(t) \/ (pc[t] \notin OtherSteps /\ Crash(t))
    PROVE  \E s \in Steps : pc' = [pc EXCEPT ![t] = s] /\ pc[t] \in Steps
<1> USE DEF Steps, Goto, Ends, Save, Generates, At
<1>1. CASE KeygenForce(t) \/ Keygen(t) \/ Leave(t) \/ Generate(t)
  BY <1>1 DEF KeygenForce, Keygen, Leave, Generate
<1>2. CASE Import(t)
  BY <1>2 DEF Import
<1>3. CASE OpenKey(t) \/ Seal(t) \/ SealRaises(t) \/ OpenActive(t) \/ NameActive(t) \/ Use(t)
  BY <1>3 DEF OpenKey, Seal, SealRaises, OpenActive, NameActive, Use
<1>4. CASE LoadPolicy(t) \/ FindKey(t) \/ Unlock(t) \/ Sign(t)
  BY <1>4 DEF LoadPolicy, FindKey, Unlock, Sign
<1>5. CASE pc[t] \notin OtherSteps /\ Crash(t)
  BY <1>5 DEF TypeOK, Crash
<1> QED BY <1>1, <1>2, <1>3, <1>4, <1>5 DEF Command

(* Nothing of a run depends on what other terminals do. *)
OnlyRun(t) ==
    \A u \in Terminals \ {t} :
        /\ setup'[u] = setup[u] /\ apps'[u] = apps[u]
        /\ onion'[u] = onion[u] /\ bound'[u] = bound[u]

RunTypes ==
    /\ DOMAIN setup = Terminals /\ DOMAIN onion = Terminals
    /\ apps \in [Terminals -> SUBSET Services]
    /\ bound \in [Terminals -> SUBSET Services]

LEMMA RunOver ==
    ASSUME TypeOK, Runs, NEW t \in Terminals, Over(t)
    PROVE  RunTypes' /\ OnlyRun(t) /\ pc' = [pc EXCEPT ![t] = "idle"] /\ RunHolds(t)'
<1>1. "idle" \notin OtherSteps
  BY NodeAssumption
<1>2. /\ pc'[t] = "idle" /\ setup'[t] = None /\ apps'[t] = {}
      /\ onion'[t] = NoPorts /\ bound'[t] = {}
  BY DEF Over, Ends, Goto, Runs, TypeOK
<1>3. RunTypes' /\ OnlyRun(t) /\ pc' = [pc EXCEPT ![t] = "idle"]
  BY DEF Over, Ends, Goto, Runs, TypeOK, RunTypes, OnlyRun
<1> QED BY <1>1, <1>2, <1>3 DEF RunHolds

LEMMA RunGoesOn ==
    ASSUME TypeOK, Runs, NEW t \in Terminals, NodeStep(t)
    PROVE  /\ RunTypes' /\ OnlyRun(t) /\ RunHolds(t)'
           /\ \A u \in Terminals \ {t} : pc'[u] = pc[u]
<1> USE NodeAssumption
<1>1. CASE Over(t)
  BY <1>1, RunOver DEF TypeOK
<1>2. CASE Run(t)
  <2>1. PICK pin \in Pins, start \in Starts :
            setup' = [setup EXCEPT ![t] = SetupOf(start, active_npub(pin))]
    BY <1>2 DEF Run
  <2>2. active_npub(pin) \in Npubs \cup {None}
    BY KeystoreAssumption DEF active_npub, TypeOK
  <2>3. SetupOf(start, active_npub(pin)) # None
    BY <2>2
  <2>4. pc[t] = "idle" /\ pc' = [pc EXCEPT ![t] = "build"] /\ UNCHANGED <<apps, onion, bound>>
    BY <1>2 DEF Run, At, Goto
  <2>5. setup[t] = None /\ apps[t] = {} /\ bound[t] = {} /\ onion[t] = NoPorts
    BY <2>4 DEF Runs, RunHolds
  <2>6. setup'[t] = SetupOf(start, active_npub(pin)) /\ pc'[t] = "build"
    BY <2>1, <2>4 DEF Runs, TypeOK
  <2>7. RunHolds(t)'
    BY <2>2, <2>3, <2>4, <2>5, <2>6 DEF RunHolds
  <2> QED BY <2>1, <2>4, <2>7 DEF RunTypes, Runs, OnlyRun, TypeOK
<1>3. CASE Build(t) /\ ~Over(t)
  <2>1. /\ pc[t] = "build" /\ pc' = [pc EXCEPT ![t] = "onion"]
        /\ UNCHANGED <<setup, onion, bound>>
    BY <1>3 DEF Build, At, Goto
  <2>2. PICK built \in SUBSET Services : apps' = [apps EXCEPT ![t] = built]
    BY <1>3 DEF Build
  <2>3. setup[t] # None /\ bound[t] = {} /\ onion[t] = NoPorts
    BY <2>1 DEF Runs, RunHolds
  <2>4. apps'[t] = built /\ pc'[t] = "onion"
    BY <2>1, <2>2 DEF Runs, TypeOK
  <2>5. RunHolds(t)'
    BY <2>1, <2>3, <2>4 DEF Runs, RunHolds
  <2> QED BY <2>1, <2>2, <2>5 DEF RunTypes, Runs, OnlyRun, TypeOK
<1>4. CASE StartOnion(t)
  <2>1. /\ pc[t] = "onion" /\ pc' = [pc EXCEPT ![t] = "serve"]
        /\ UNCHANGED <<setup, apps, bound>>
    BY <1>4 DEF StartOnion, At, Goto
  <2>2. PICK up \in BOOLEAN :
            onion' = [onion EXCEPT ![t] = IF up /\ setup[t].inbound # "off"
                                          THEN PortMap(setup[t], apps[t]) ELSE NoPorts]
    BY <1>4 DEF StartOnion
  <2>3. setup[t] # None
    BY <2>1 DEF Runs, RunHolds
  <2>4. onion'[t] # NoPorts =>
            setup[t].inbound # "off" /\ onion'[t] = PortMap(setup[t], apps[t])
    BY <2>2 DEF Runs
  <2>5. pc'[t] = "serve" /\ PortMap(setup[t], apps[t])' = PortMap(setup[t], apps[t])
    BY <2>1 DEF TypeOK, PortMap, Exposed, Port, At_
  <2>6. RunHolds(t)'
    BY <2>1, <2>3, <2>4, <2>5 DEF Runs, RunHolds
  <2> QED BY <2>1, <2>2, <2>6 DEF RunTypes, Runs, OnlyRun, TypeOK
<1>5. CASE Bind(t) \/ Stop(t)
  <2>1. pc[t] = "serve" /\ UNCHANGED <<setup, apps, onion>>
    BY <1>5 DEF Bind, Stop, At
  <2>2. PICK s \in {"serve", "closing"} : pc' = [pc EXCEPT ![t] = s]
    BY <1>5, <2>1 DEF Bind, Stop, Goto, TypeOK
  <2>3. PICK b \in SUBSET apps[t] : bound' = [bound EXCEPT ![t] = b]
    <3>1. CASE Bind(t)
      <4>1. bound[t] \subseteq apps[t]
        BY DEF Runs, RunHolds
      <4> QED BY <3>1, <4>1 DEF Bind, Runs
    <3>2. CASE Stop(t)
      BY <3>2 DEF Stop
    <3> QED BY <1>5, <3>1, <3>2
  <2>4. bound'[t] = b /\ pc'[t] = s
    BY <2>2, <2>3 DEF Runs, TypeOK
  <2>5. PortMap(setup[t], apps[t])' = PortMap(setup[t], apps[t])
    BY <2>1 DEF PortMap, Exposed, Port, At_
  <2>6. RunHolds(t)'
    BY <2>1, <2>2, <2>3, <2>4, <2>5 DEF Runs, RunHolds
  <2>7. apps[t] \subseteq Services
    BY DEF Runs
  <2> QED BY <2>1, <2>2, <2>3, <2>6, <2>7 DEF RunTypes, Runs, OnlyRun, TypeOK
<1>6. CASE Close(t) \/ Dies(t)
  BY <1>1, <1>6 DEF Close, Dies
<1> QED BY <1>1, <1>2, <1>3, <1>4, <1>5, <1>6 DEF NodeStep

LEMMA RunsStep == TypeOK /\ Runs /\ [NodeNext]_nodeVars => Runs'
<1> SUFFICES ASSUME TypeOK, Runs, [NodeNext]_nodeVars PROVE Runs'
  OBVIOUS
<1>1. ASSUME NEW t \in Terminals, RunTypes', OnlyRun(t), RunHolds(t)',
             \A u \in Terminals \ {t} : pc'[u] = pc[u]
      PROVE  Runs'
  <2>1. ASSUME NEW u \in Terminals \ {t} PROVE RunHolds(u)'
    <3>1. /\ setup'[u] = setup[u] /\ apps'[u] = apps[u] /\ onion'[u] = onion[u]
          /\ bound'[u] = bound[u] /\ pc'[u] = pc[u]
      BY <1>1 DEF OnlyRun
    <3>2. PortMap(setup[u], apps[u])' = PortMap(setup[u], apps[u])
      BY <3>1 DEF PortMap, Exposed, Port, At_
    <3>3. RunHolds(u)
      BY DEF Runs
    <3> QED BY <3>1, <3>2, <3>3 DEF RunHolds
  <2> QED BY <1>1, <2>1 DEF Runs, RunTypes
<1>2. ASSUME NEW t \in Terminals, NodeStep(t) PROVE Runs'
  BY <1>1, <1>2, RunGoesOn
<1>3. ASSUME NEW t \in Terminals,
             Command(t) \/ (pc[t] \notin OtherSteps /\ Crash(t)), UNCHANGED runVars
      PROVE  Runs'
  <2>1. PICK s \in Steps : pc' = [pc EXCEPT ![t] = s] /\ pc[t] \in Steps
    BY <1>3, CommandSteps
  <2>2. pc'[t] = s /\ s \notin OtherSteps /\ pc[t] \notin OtherSteps /\ "build" \in OtherSteps
    BY <2>1, StepsAssumption, NodeAssumption DEF TypeOK
  <2>3. UNCHANGED <<setup, apps, onion, bound>>
    BY <1>3 DEF runVars
  <2>4. RunHolds(t)'
    <3>1. RunHolds(t)
      BY DEF Runs
    <3>2. setup[t] = None /\ onion[t] = NoPorts /\ apps[t] = {}
      BY <2>2, <3>1 DEF RunHolds
    <3> QED BY <2>2, <2>3, <3>1, <3>2 DEF RunHolds
  <2> QED BY <1>1, <2>1, <2>3, <2>4 DEF Runs, RunTypes, OnlyRun, TypeOK
<1>4. CASE UNCHANGED nodeVars
  <2>1. UNCHANGED <<setup, apps, onion, bound, pc>>
    BY <1>4 DEF nodeVars, runVars, keystoreVars
  <2>2. ASSUME NEW t \in Terminals PROVE RunHolds(t)'
    <3>1. PortMap(setup[t], apps[t])' = PortMap(setup[t], apps[t])
      BY <2>1 DEF PortMap, Exposed, Port, At_
    <3>2. RunHolds(t)
      BY DEF Runs
    <3> QED BY <2>1, <3>1, <3>2 DEF RunHolds
  <2> QED BY <2>1, <2>2 DEF Runs
<1> QED BY <1>2, <1>3, <1>4 DEF NodeNext

LEMMA RunsInit == NodeInit => Runs
BY NodeAssumption DEF NodeInit, Init, Runs, RunHolds

-----------------------------------------------------------------------------
(* No two services, of one run or of two, listen at one place.             *)
Apart ==
    \A t, u \in Terminals : \A s \in bound[t], o \in bound[u] :
        <<t, s>> # <<u, o>> => ~Conflict(At_(setup[t], s), At_(setup[u], o))

LEMMA BoundStep ==
    ASSUME TypeOK, Runs, NEW t \in Terminals, NodeStep(t)
    PROVE  \/ bound'[t] = {}
           \/ /\ setup'[t] = setup[t]
              /\ \/ bound'[t] = bound[t]
                 \/ \E s \in Services : ~Taken(t, s) /\ bound'[t] = bound[t] \cup {s}
<1>1. CASE Over(t)
  BY <1>1 DEF Over, Runs
<1>2. CASE Run(t)
  <2>1. pc[t] = "idle" /\ bound' = bound
    BY <1>2 DEF Run, At
  <2>2. bound[t] = {}
    BY <2>1, NodeAssumption DEF Runs, RunHolds
  <2> QED BY <2>1, <2>2
<1>3. CASE (Build(t) /\ ~Over(t)) \/ StartOnion(t)
  BY <1>3 DEF Build, StartOnion
<1>4. CASE Bind(t)
  <2>1. PICK s \in apps[t] \ bound[t] :
           \/ bound' = [bound EXCEPT ![t] = {}]
           \/ ~Taken(t, s) /\ bound' = [bound EXCEPT ![t] = bound[t] \cup {s}]
    BY <1>4 DEF Bind
  <2>2. setup' = setup /\ s \in Services
    BY <1>4 DEF Bind, Runs
  <2> QED BY <2>1, <2>2 DEF Runs
<1>5. CASE Stop(t)
  BY <1>5 DEF Stop, Runs
<1> QED BY <1>1, <1>2, <1>3, <1>4, <1>5 DEF NodeStep, Close, Dies

LEMMA ApartStep == TypeOK /\ Runs /\ Apart /\ [NodeNext]_nodeVars => Apart'
<1> SUFFICES ASSUME TypeOK, Runs, Apart, [NodeNext]_nodeVars PROVE Apart'
  OBVIOUS
<1>1. CASE UNCHANGED <<setup, bound>>
  BY <1>1 DEF Apart, At_
<1>2. ASSUME NEW t \in Terminals, NodeStep(t) PROVE Apart'
  <2>1. \A u \in Terminals \ {t} : setup'[u] = setup[u] /\ bound'[u] = bound[u]
    BY <1>2, RunGoesOn DEF OnlyRun
  <2>2. CASE bound'[t] = {}
    BY <2>1, <2>2 DEF Apart, At_
  <2>3. CASE setup'[t] = setup[t] /\ bound'[t] = bound[t]
    BY <2>1, <2>3 DEF Apart, At_
  <2>4. ASSUME NEW s \in Services, setup'[t] = setup[t], ~Taken(t, s),
               bound'[t] = bound[t] \cup {s}
        PROVE  Apart'
    <3>1. \A u \in Terminals : \A o \in bound[u] :
             /\ ~Conflict(At_(setup[t], s), At_(setup[u], o))
             /\ ~Conflict(At_(setup[u], o), At_(setup[t], s))
      BY <2>4 DEF Taken, Conflict
    <3> QED BY <2>1, <2>4, <3>1 DEF Apart, At_
  <2> QED BY <1>2, <2>2, <2>3, <2>4, BoundStep
<1>3. CASE UNCHANGED runVars \/ UNCHANGED nodeVars
  BY <1>1, <1>3 DEF nodeVars, runVars
<1> QED BY <1>2, <1>3 DEF NodeNext

LEMMA RunsInductive == NoSlipIsAKey => (NodeSpec => [](TypeOK /\ Runs /\ Apart))
<1>1. IInv => TypeOK
  BY DEF IInv
<1>2. NodeInit => Apart
  BY DEF NodeInit, Apart
<1> QED BY <1>1, <1>2, NodeInductive, RunsInit, RunsStep, ApartStep, PTL DEF NodeSpec

(* Where the onion of a run leads. *)
LEMMA OnionPorts ==
    ASSUME Runs, NEW t \in Terminals, onion[t] # NoPorts
    PROVE  /\ "gateway" \in apps[t] => 80 \in DOMAIN onion[t]
           /\ \A v \in DOMAIN onion[t] :
                 onion[t][v] = Port(setup[t], "gateway") \/ setup[t].inbound = "all"
<1> DEFINE own == {Port(setup[t], service) : service \in Exposed(setup[t], apps[t]) \ {"gateway"}}
           web == IF "gateway" \in Exposed(setup[t], apps[t]) THEN {80} ELSE {}
<1>1. onion[t] = [v \in own \cup web |-> IF v \in own THEN v ELSE Port(setup[t], "gateway")]
  BY DEF Runs, RunHolds, PortMap
<1>2. "gateway" \in apps[t] => web = {80}
  BY DEF Exposed
<1>3. setup[t].inbound # "all" => own = {}
  BY DEF Exposed
<1> HIDE DEF own, web
<1> QED BY <1>1, <1>2, <1>3

(* Its gateway is there, and nothing else. *)
LEMMA GatewayAlone ==
    ASSUME Runs, Apart, NEW t \in Terminals, "gateway" \in bound[t],
           At_(setup[t], "gateway")[1] \in {"loopback", "any"}
    PROVE  Answers(Port(setup[t], "gateway")) = {<<t, "gateway">>}
<1> DEFINE port == Port(setup[t], "gateway")
<1>1. <<t, "gateway">> \in Answers(port)
  BY DEF Answers
<1>2. ASSUME NEW who \in Answers(port) PROVE who = <<t, "gateway">>
  <2>1. PICK u \in Terminals :
           who \in {<<u, s>> : s \in {o \in bound[u] :
                       /\ Port(setup[u], o) = port
                       /\ At_(setup[u], o)[1] \in {"loopback", "any"}}}
    BY <1>2 DEF Answers
  <2>2. PICK s \in bound[u] : /\ who = <<u, s>> /\ Port(setup[u], s) = port
                             /\ At_(setup[u], s)[1] \in {"loopback", "any"}
    BY <2>1
  <2>3. Conflict(At_(setup[u], s), At_(setup[t], "gateway"))
    BY <2>2 DEF Conflict, Port
  <2> QED BY <2>2, <2>3 DEF Apart
<1> QED BY <1>1, <1>2

(* A run has its ports and its onion only while it runs, and listens only  *)
(* with what it built (app.py:216-226).                                    *)
THEOREM NodeTypeCorrect == NoSlipIsAKey => (NodeSpec => []NodeTypeOK)
<1>1. TypeOK /\ Runs => NodeTypeOK
  BY DEF Runs, RunHolds, NodeTypeOK
<1> QED BY <1>1, RunsInductive, PTL

(* Whatever policies are run on the machine, an onion leads to the port of *)
(* its run's gateway only, unless its policy says all; and once that       *)
(* gateway listens on the loopback address, it alone answers there         *)
(* (app.py:124-160, and the bind() of _serve_all).                         *)
THEOREM OnionsLeadToTheirGateway == NoSlipIsAKey => (NodeSpec => []OnionScope)
<1>1. Runs /\ Apart => OnionScope
  <2> SUFFICES ASSUME Runs, Apart, NEW t \in Terminals, onion[t] # NoPorts
               PROVE  /\ setup[t].inbound # "off"
                      /\ "gateway" \in apps[t] => 80 \in DOMAIN onion[t]
                      /\ \A v \in DOMAIN onion[t] :
                            onion[t][v] = Port(setup[t], "gateway") \/ setup[t].inbound = "all"
                      /\ "gateway" \in bound[t] /\ At_(setup[t], "gateway")[1] \in {"loopback", "any"} =>
                            Answers(Port(setup[t], "gateway")) = {<<t, "gateway">>}
    BY DEF OnionScope
  <2>1. setup[t].inbound # "off"
    BY DEF Runs, RunHolds
  <2> QED BY <2>1, OnionPorts, GatewayAlone
<1> QED BY <1>1, RunsInductive, PTL
=============================================================================
