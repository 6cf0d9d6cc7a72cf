-------------------------------- MODULE Node --------------------------------
(***************************************************************************)
(* app.py, transport/config.py and transport/tor.py: `pijn run`, from a    *)
(* terminal of Keystore.  A run loads a policy and with it the home of an  *)
(* identity, builds the services, publishes them as an onion, and binds    *)
(* their ports, one after the other, in this order; it ends when a port is *)
(* taken, when the controller raises, when it is stopped, or when it dies. *)
(***************************************************************************)
EXTENDS Keystore, Policy

CONSTANTS
    Starts      \* what is run: <<policy document, --only or "">>

Services == DOMAIN _DEFAULTS

(* What a run keeps of the policy that it loads, if n is active. *)
SetupOf(start, n) ==
    LET policy == load_policy(start[1], n)
    IN [only |-> start[2], services |-> policy.services,
        sites |-> policy.sites, inbound |-> policy.inbound]

ASSUME NodeAssumption ==
    /\ OtherSteps = {"build", "onion", "serve", "closing"}
    /\ \A start \in Starts, n \in Npubs \cup {None} :
          /\ load_policy(start[1], n).npub \in Npubs \cup {None}
          /\ SetupOf(start, n) # None

VARIABLES
    setup,      \* per terminal, the policy of its run and its --only, or None
    apps,       \* ... the services built
    onion,      \* ... what its onion maps: a function from virtual ports
    bound       \* ... the services that listen

runVars == <<setup, apps, onion, bound>>
nodeVars == <<keystoreVars, runVars>>

NoPorts == <<>>

NodeInit ==
    /\ Init
    /\ setup = [t \in Terminals |-> None]
    /\ apps = [t \in Terminals |-> {}]
    /\ onion = [t \in Terminals |-> NoPorts]
    /\ bound = [t \in Terminals |-> {}]

At_(s, service) == s.services[service].at
Port(s, service) == At_(s, service)[2]

(* Mutant: whatever is on is exposed. *)
AllExposed(s, built) == built

(* The gateway; the services that can be written to only on opt-in. *)
Exposed(s, built) ==
    {service \in built : service = "gateway" \/ s.inbound = "all"}

(* _start_onion's ports.  A relay or blob server on port 80 takes the      *)
(* gateway's place.                                                        *)
PortMap(s, built) ==
    LET own == {Port(s, service) : service \in Exposed(s, built) \ {"gateway"}}
        web == IF "gateway" \in Exposed(s, built) THEN {80} ELSE {}
    IN [v \in own \cup web |-> IF v \in own THEN v ELSE Port(s, "gateway")]

controller(t) ==
    /\ setup[t].sites # <<>> /\ setup[t].only = ""
    /\ {"event_store", "blob_store"} \subseteq apps[t]

Conflict(a, b) == a[2] = b[2] /\ (a[1] = b[1] \/ "any" \in {a[1], b[1]})

Taken(t, service) ==
    \E u \in Terminals : \E other \in bound[u] :
        Conflict(At_(setup[t], service), At_(setup[u], other))

-----------------------------------------------------------------------------
Run(t) ==
    /\ At(t, "idle")
    /\ \E pin \in Pins, start \in Starts :
          /\ home' = [home EXCEPT ![t] = load_policy(start[1], active_npub(pin)).npub]
          /\ setup' = [setup EXCEPT ![t] = SetupOf(start, active_npub(pin))]
    /\ Goto(t, "build")
    /\ UNCHANGED <<files, kp, meant, pw, name, history, apps, onion, bound>>

(* Mutant: what the run had started is not taken down. *)
LeftUp(t) == Ends(t, "idle") /\ UNCHANGED runVars

Over(t) ==
    /\ Ends(t, "idle")
    /\ setup' = [setup EXCEPT ![t] = None]
    /\ apps' = [apps EXCEPT ![t] = {}]
    /\ onion' = [onion EXCEPT ![t] = NoPorts]
    /\ bound' = [bound EXCEPT ![t] = {}]

(* build_node; without services, SystemExit *)
Build(t) ==
    /\ At(t, "build")
    /\ LET s == setup[t]
           built == {service \in Services :
                         s.services[service].enabled /\ s.only \in {"", service}}
       IN \/ /\ built # {}
             /\ apps' = [apps EXCEPT ![t] = built]
             /\ Goto(t, "onion")
             /\ UNCHANGED <<kp, meant, pw, name, home, setup, onion, bound>>
          \/ built = {} /\ Over(t)
    /\ UNCHANGED <<files, history>>

(* _start_onion: Tor answers every command, or the run goes on without. *)
StartOnion(t) ==
    /\ At(t, "onion")
    /\ \E up \in BOOLEAN :
          onion' = [onion EXCEPT ![t] = IF up /\ setup[t].inbound # "off"
                                        THEN PortMap(setup[t], apps[t]) ELSE NoPorts]
    /\ Goto(t, "serve")
    /\ UNCHANGED <<files, kp, meant, pw, name, home, history, setup, apps, bound>>

(* The servers of _serve_all, each of which binds when it gets to run; one *)
(* that cannot ends the run.                                               *)
Bind(t) ==
    /\ At(t, "serve")
    /\ \E service \in apps[t] \ bound[t] :
          IF Taken(t, service)
          THEN /\ Goto(t, "closing")
               /\ bound' = [bound EXCEPT ![t] = {}]
          ELSE /\ bound' = [bound EXCEPT ![t] = @ \cup {service}]
               /\ UNCHANGED pc
    /\ UNCHANGED <<files, kp, meant, pw, name, home, history, setup, apps, onion>>

(* Ctrl-C, or run_forever raises out of the gather. *)
Stop(t) ==
    /\ At(t, "serve") /\ (bound[t] = apps[t] \/ controller(t))
    /\ Goto(t, "closing")
    /\ bound' = [bound EXCEPT ![t] = {}]
    /\ UNCHANGED <<files, kp, meant, pw, name, home, history, setup, apps, onion>>

(* finally: onion.close(), node.store.close() *)
Close(t) ==
    /\ At(t, "closing")
    /\ Over(t)
    /\ UNCHANGED <<files, history>>

(* An onion lasts no longer than the connection it was made over. *)
Dies(t) == pc[t] \in OtherSteps /\ Over(t) /\ UNCHANGED <<files, history>>

NodeStep(t) ==
    \/ Run(t) \/ Build(t) \/ StartOnion(t) \/ Bind(t) \/ Stop(t) \/ Close(t) \/ Dies(t)

NodeNext ==
    \E t \in Terminals :
        \/ NodeStep(t)
        \/ (Command(t) \/ (pc[t] \notin OtherSteps /\ Crash(t))) /\ UNCHANGED runVars

NodeSpec == NodeInit /\ [][NodeNext]_nodeVars

-----------------------------------------------------------------------------
NodeTypeOK ==
    /\ TypeOK
    /\ apps \in [Terminals -> SUBSET Services]
    /\ bound \in [Terminals -> SUBSET Services]
    /\ \A t \in Terminals :
          /\ setup[t] # None <=> pc[t] \in OtherSteps
          /\ bound[t] \subseteq apps[t]
          /\ onion[t] # NoPorts => pc[t] \in {"serve", "closing"}

(* Who answers on the loopback address. *)
Answers(port) ==
    UNION {{<<u, service>> : service \in
               {s \in bound[u] : /\ Port(setup[u], s) = port
                                 /\ At_(setup[u], s)[1] \in {"loopback", "any"}}} :
           u \in Terminals}

(* "gateway - publish ONLY the read-only gateway as an .onion, never the   *)
(* writable relay/blob ports" (transport/config.py:14).  An onion leads to *)
(* the port of its run's gateway and to no other, unless its policy says   *)
(* all; and whatever other nodes take ports on the machine, fail and die,  *)
(* once that gateway listens where the onion leads, it alone answers.      *)
OnionScope ==
    \A t \in Terminals : onion[t] # NoPorts =>
        LET web == Port(setup[t], "gateway")
        IN  /\ setup[t].inbound # "off"
            /\ "gateway" \in apps[t] => 80 \in DOMAIN onion[t]
            /\ \A v \in DOMAIN onion[t] : onion[t][v] = web \/ setup[t].inbound = "all"
            /\ "gateway" \in bound[t] /\ At_(setup[t], "gateway")[1] \in {"loopback", "any"} =>
                  Answers(web) = {<<t, "gateway">>}

(* The words as they stand: not so while the gateway does not listen, or   *)
(* where it listens on another address (README, section 5).                *)
NeverWritable ==
    \A t \in Terminals : onion[t] # NoPorts =>
        \A v \in DOMAIN onion[t] : \A who \in Answers(onion[t][v]) :
            who[2] = "gateway" \/ setup[t].inbound = "all"
=============================================================================
