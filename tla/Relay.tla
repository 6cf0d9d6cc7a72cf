------------------------------- MODULE Relay -------------------------------
(***************************************************************************)
(* event_store/relay.py: the relay's WebSocket protocol and its hub of     *)
(* live subscriptions.                                                     *)
(*                                                                         *)
(* One coroutine per socket receives a message, handles it to the end, and *)
(* only then receives the next.  All coroutines share one event loop: code *)
(* between two awaits is one step, and every await (of a send, of the next *)
(* message) lets the others run.  So a step here ends where the code       *)
(* awaits:                                                                 *)
(*    "receive"    awaiting a message                                      *)
(*    "answer"     awaiting the send of OK, CLOSED or NOTICE               *)
(*    "broadcast"  awaiting the sends of an accepted event to subscribers  *)
(*    "cut"        the same, and the next filter it looks at will raise    *)
(*    "replay"     awaiting the sends of stored events, then EOSE          *)
(*    "subscribe"  EOSE is sent and its await has not returned             *)
(*    "done"       the coroutine has ended                                 *)
(* An exception that is not a disconnect ends the coroutine too, and the   *)
(* server closes the socket.  The store is the table of EventTable.  A     *)
(* socket that closes is not used again: a client that reconnects has      *)
(* another one.                                                            *)
(*                                                                         *)
(* eosed, owed and opening are history, for the properties.                *)
(***************************************************************************)
EXTENDS EventTable

CONSTANTS
    Sockets,            \* the connections clients will open
    SubIds,             \* the subscription ids clients choose
    FilterSets,         \* the lists of filters clients send, each as a set
    MaxSubscriptions, DefaultQueryLimit, MaxQueryLimit, \* the guardrails
    Text,               \* a `since` or `until` that is no number, e.g. "abc"
    Sent,               \* the events clients send
    Rejected,           \* those with a bad signature, too far ahead, or moderated away
    Unstorable          \* those at which store() raises

ASSUME RelayAssumption ==
    /\ MaxSubscriptions \in Nat
    /\ MaxQueryLimit \in Nat
    /\ DefaultQueryLimit \in 0..MaxQueryLimit
    /\ Rejected \subseteq Sent
    /\ Unstorable \subseteq Sent
    /\ Text \in Int

(* An id is a hash of the event; ids and times are numbers. *)
ASSUME RelayEvents ==
    /\ \A e \in Sent : e.id \in Nat /\ e.created_at \in Int
    /\ \A e, f \in Sent : e.id = f.id => e = f

(* A REQ is one message: a list of filters that ends, with integer limits. *)
ASSUME RelayFilters ==
    \A filters \in FilterSets :
        /\ IsFiniteSet(filters)
        /\ \A flt \in filters : "limit" \in DOMAIN flt => flt.limit \in Int

VARIABLES
    db,         \* the event store
    hub,        \* Hub._subs: socket -> sub_id -> filters, registered sockets only
    peer,       \* per socket, the client's end: "new", "open", "gone"
    pc,         \* per socket, where its coroutine awaits
    event,      \* per socket, the accepted event it is to broadcast, as a set
    todo, sends,    \* the sockets a broadcast has not reached; its sends to the current one
    req, replay,    \* the REQ being served; its stored events not sent yet
    eosed,      \* <<socket, sub_id>> some REQ of which was answered with EOSE
    owed,       \* per socket, the subscriptions open since it accepted its event
    opening     \* per socket, those whose stored events were already read by then

relayVars == <<db, hub, peer, pc, event, todo, sends, req, replay, eosed, owed, opening>>

NoReq == [sub |-> "none", filters |-> {}]

RelayInit ==
    /\ db = Empty
    /\ hub = [ws \in {} |-> {}]
    /\ peer = [ws \in Sockets |-> "new"]
    /\ pc = [ws \in Sockets |-> "done"]
    /\ event = [ws \in Sockets |-> {}]
    /\ todo = [ws \in Sockets |-> {}]
    /\ sends = [ws \in Sockets |-> {}]
    /\ req = [ws \in Sockets |-> NoReq]
    /\ replay = [ws \in Sockets |-> {}]
    /\ eosed = {}
    /\ owed = [ws \in Sockets |-> {}]
    /\ opening = [ws \in Sockets |-> {}]

Subs(ws) == IF ws \in DOMAIN hub THEN DOMAIN hub[ws] ELSE {}

(* matches() compares created_at with text: a TypeError.  (To SQLite text  *)
(* comes after every number, as Text does, so the REQ itself succeeds.)    *)
Raises(e, flt) ==
    /\ MatchesColumns(e, [x \in DOMAIN flt \ {"since", "until"} |-> flt[x]])
    /\ \/ "since" \in DOMAIN flt /\ flt.since = Text
       \/ /\ "until" \in DOMAIN flt /\ flt.until = Text
          /\ "since" \in DOMAIN flt => e.created_at >= flt.since

Selects(e, filters) == \E flt \in filters : matches(e, flt) /\ ~Raises(e, flt)

(* The subscriptions of one socket that an event is to be sent on. *)
Matching(e, ws) == {<<ws, s>> : s \in {x \in Subs(ws) : Selects(e, hub[ws][x])}}

(* The subscriptions of a socket at which matches_any raises: when a       *)
(* filter raises and another selects the event, their order decides.       *)
MayRaise(e, ws) == {s \in Subs(ws) : \E flt \in hub[ws][s] : Raises(e, flt)}
MustRaise(e, ws) == {s \in MayRaise(e, ws) : ~Selects(e, hub[ws][s])}

(* The subscriptions a REQ is opening whose query did not see this event.  *)
Opening(e) ==
    {<<w, req[w].sub>> : w \in {x \in Sockets : /\ pc[x] \in {"replay", "subscribe"}
                                                /\ Selects(e, req[x].filters)}}

WithoutSub(f, sub) == [x \in DOMAIN f \ {sub} |-> f[x]]

(* Mutant: a socket with subscriptions is left in the hub. *)
RemovedIfEmpty(ws) ==
    [w \in {v \in DOMAIN hub : v # ws \/ DOMAIN hub[v] # {}} |-> hub[w]]

(* remove_socket *)
Removed(ws) == [w \in DOMAIN hub \ {ws} |-> hub[w]]

-----------------------------------------------------------------------------
(* Connections. *)
Connect(ws) ==
    /\ peer[ws] = "new"
    /\ peer' = [peer EXCEPT ![ws] = "open"]
    /\ hub' = [w \in DOMAIN hub \cup {ws} |-> IF w = ws THEN [x \in {} |-> {}] ELSE hub[w]]
    /\ pc' = [pc EXCEPT ![ws] = "receive"]
    /\ UNCHANGED <<db, event, todo, sends, req, replay, eosed, owed, opening>>

Disconnect(ws) ==
    /\ peer[ws] = "open"
    /\ peer' = [peer EXCEPT ![ws] = "gone"]
    /\ UNCHANGED <<db, hub, pc, event, todo, sends, req, replay, eosed, owed, opening>>

(* The coroutine raises, and `finally` removes the socket.  What a cut     *)
(* broadcast still owed stays on record.                                   *)
Leaves(ws) ==
    /\ pc' = [pc EXCEPT ![ws] = "done"]
    /\ peer' = [peer EXCEPT ![ws] = "gone"]
    /\ hub' = Removed(ws)
    /\ eosed' = {x \in eosed : x[1] # ws}
    /\ owed' = [w \in Sockets |->
                   {x \in owed[w] : x[1] # ws /\ (w = ws => pc[ws] = "cut")}]
    /\ opening' = [w \in Sockets |-> {x \in opening[w] : x[1] # ws /\ w # ws}]
    /\ event' = [event EXCEPT ![ws] = {}]
    /\ replay' = [replay EXCEPT ![ws] = {}]
    /\ req' = [req EXCEPT ![ws] = NoReq]
    /\ UNCHANGED <<todo, sends>>

(* receive_text, or a send to its own client, raises (a send to a closed   *)
(* socket may also be dropped silently); or a filter it broadcasts to.     *)
Ends(ws) ==
    /\ \/ peer[ws] = "gone" /\ pc[ws] \in {"receive", "answer", "replay", "subscribe"}
       \/ pc[ws] = "cut" /\ sends[ws] = {}
    /\ Leaves(ws)
    /\ UNCHANGED db

Receives(ws) == pc[ws] = "receive" /\ peer[ws] = "open"

(* A message on which the handler raises before it has changed anything:   *)
(* an event from_dict or compute_id cannot read, a filter the query cannot *)
(* run, a subscription id that cannot be hashed.                           *)
HandlerRaises(ws) ==
    /\ Receives(ws)
    /\ Leaves(ws)
    /\ UNCHANGED db

(* Invalid JSON, an unknown verb, a REQ without an id: only a NOTICE. *)
ReceiveOther(ws) ==
    /\ Receives(ws)
    /\ pc' = [pc EXCEPT ![ws] = "answer"]
    /\ UNCHANGED <<db, hub, peer, event, todo, sends, req, replay, eosed, owed, opening>>

-----------------------------------------------------------------------------
(* EVENT: the signature, the clock skew and moderation are checked, then   *)
(* store(), then the answer.                                               *)
AcceptsAll(e) == TRUE       \* Mutant

Accepts(e) == e \notin Rejected

ReceiveRejected(ws, e) ==
    /\ Receives(ws)
    /\ ~Accepts(e)
    /\ pc' = [pc EXCEPT ![ws] = "answer"]
    /\ UNCHANGED <<db, hub, peer, event, todo, sends, req, replay, eosed, owed, opening>>

(* store() raises in the middle: no OK, no broadcast, and the next store() *)
(* commits what is left.                                                   *)
ReceiveUnstorable(ws, e) ==
    /\ Receives(ws)
    /\ Accepts(e)
    /\ e \in Unstorable
    /\ Answer(db, e) = "stored"
    /\ db' \in Leftovers(db, e)
    /\ Leaves(ws)

ReceiveEvent(ws, e) ==
    /\ Receives(ws)
    /\ Accepts(e)
    /\ e \in Unstorable => Answer(db, e) # "stored"
    /\ LET fresh == Answer(db, e) \in {"stored", "ephemeral"}
       IN  /\ db' = IF Answer(db, e) = "stored" THEN Write(db, e) ELSE db
           /\ event' = [event EXCEPT ![ws] = IF fresh THEN {e} ELSE {}]
           /\ owed' = [owed EXCEPT ![ws] =
                         IF fresh THEN UNION {Matching(e, w) : w \in DOMAIN hub} ELSE {}]
           /\ opening' = [opening EXCEPT ![ws] =
                            IF Answer(db, e) = "stored" THEN Opening(e) ELSE {}]
    /\ pc' = [pc EXCEPT ![ws] = "answer"]
    /\ UNCHANGED <<hub, peer, todo, sends, req, replay, eosed>>

(* The OK, CLOSED or NOTICE is sent; broadcast() lists the sockets. *)
SendAnswer(ws) ==
    /\ pc[ws] = "answer"
    /\ pc' = [pc EXCEPT ![ws] = IF event[ws] = {} THEN "receive" ELSE "broadcast"]
    /\ todo' = [todo EXCEPT ![ws] = IF event[ws] = {} THEN {} ELSE DOMAIN hub]
    /\ UNCHANGED <<db, hub, peer, event, sends, req, replay, eosed, owed, opening>>

(* Mutant: a closed socket ends the broadcast. *)
ReachOpenSocket(ws, w) ==
    /\ pc[ws] = "broadcast"
    /\ sends[ws] = {}
    /\ w \in todo[ws]
    /\ todo' = [todo EXCEPT ![ws] = IF peer[w] = "gone" THEN {} ELSE @ \ {w}]
    /\ sends' = [sends EXCEPT ![ws] =
                    IF peer[w] = "gone" THEN {} ELSE UNION {Matching(e, w) : e \in event[ws]}]
    /\ UNCHANGED <<db, hub, peer, pc, event, req, replay, eosed, owed, opening>>

(* Mutant: a broadcast waits for one that is sending. *)
ReachIdleSocket(ws, w) ==
    /\ pc[ws] = "broadcast"
    /\ sends[ws] = {}
    /\ w \in todo[ws]
    /\ \A v \in Sockets \ {ws} : pc[v] # "broadcast"
    /\ todo' = [todo EXCEPT ![ws] = @ \ {w}]
    /\ sends' = [sends EXCEPT ![ws] = UNION {Matching(e, w) : e \in event[ws]}]
    /\ UNCHANGED <<db, hub, peer, pc, event, req, replay, eosed, owed, opening>>

(* The broadcast reaches a listed socket and lists its subscriptions as    *)
(* they now are.                                                           *)
ReachSocket(ws, w) ==
    /\ pc[ws] = "broadcast"
    /\ sends[ws] = {}
    /\ w \in todo[ws]
    /\ \A e \in event[ws] : MustRaise(e, w) = {}
    /\ todo' = [todo EXCEPT ![ws] = @ \ {w}]
    /\ sends' = [sends EXCEPT ![ws] = UNION {Matching(e, w) : e \in event[ws]}]
    /\ UNCHANGED <<db, hub, peer, pc, event, req, replay, eosed, owed, opening>>

(* matches_any is outside the try: after the subscriptions that come       *)
(* before it, a filter that raises ends the broadcast, and the publisher's *)
(* coroutine with it.                                                      *)
ReachRaising(ws, w) ==
    /\ pc[ws] = "broadcast"
    /\ sends[ws] = {}
    /\ w \in todo[ws]
    /\ \E e \in event[ws] : \E s \in MayRaise(e, w) :
          \E S \in SUBSET (Matching(e, w) \ {<<w, s>>}) :
             sends' = [sends EXCEPT ![ws] = S]
    /\ pc' = [pc EXCEPT ![ws] = "cut"]
    /\ UNCHANGED <<db, hub, peer, event, todo, req, replay, eosed, owed, opening>>

(* One send of the broadcast; what a closed socket raises is swallowed. *)
SendLive(ws, target) ==
    /\ pc[ws] \in {"broadcast", "cut"}
    /\ target \in sends[ws]
    /\ sends' = [sends EXCEPT ![ws] = @ \ {target}]
    /\ owed' = [owed EXCEPT ![ws] = @ \ {target}]
    /\ opening' = [opening EXCEPT ![ws] = @ \ {target}]
    /\ UNCHANGED <<db, hub, peer, pc, event, todo, req, replay, eosed>>

EndBroadcast(ws) ==
    /\ pc[ws] = "broadcast"
    /\ todo[ws] = {} /\ sends[ws] = {}
    /\ pc' = [pc EXCEPT ![ws] = "receive"]
    /\ event' = [event EXCEPT ![ws] = {}]
    /\ UNCHANGED <<db, hub, peer, todo, sends, req, replay, eosed, owed, opening>>

-----------------------------------------------------------------------------
(* REQ.  Every filter is given a limit (_cap_filters).  The filters of a    *)
(* request are those it keeps: of the first MAX_FILTERS, the mappings.     *)
CappedLimit(flt) ==
    IF "limit" \notin DOMAIN flt THEN DefaultQueryLimit
    ELSE IF flt.limit < 0 THEN 0
    ELSE IF flt.limit > MaxQueryLimit THEN MaxQueryLimit ELSE flt.limit

Capped(filters) ==
    {[x \in DOMAIN flt \cup {"limit"} |->
        IF x = "limit" THEN CappedLimit(flt) ELSE flt[x]] : flt \in filters}

(* Mutant: off by one. *)
OverLimit(ws, sub) == Cardinality(Subs(ws)) > MaxSubscriptions /\ sub \notin Subs(ws)

AtLimit(ws, sub) == Cardinality(Subs(ws)) >= MaxSubscriptions /\ sub \notin Subs(ws)

ReceiveReqRefused(ws, sub) ==
    /\ Receives(ws)
    /\ AtLimit(ws, sub)
    /\ pc' = [pc EXCEPT ![ws] = "answer"]
    /\ UNCHANGED <<db, hub, peer, event, todo, sends, req, replay, eosed, owed, opening>>

(* Mutant: the subscription is live before its replay. *)
ReceiveReqLive(ws, sub, filters) ==
    /\ Receives(ws)
    /\ ~AtLimit(ws, sub)
    /\ hub' = [hub EXCEPT ![ws] = [x \in DOMAIN @ \cup {sub} |->
                                      IF x = sub THEN Capped(filters) ELSE @[x]]]
    /\ req' = [req EXCEPT ![ws] = [sub |-> sub, filters |-> Capped(filters)]]
    /\ replay' = [replay EXCEPT ![ws] = query(db, Capped(filters))]
    /\ opening' = [w \in Sockets |-> opening[w] \ {<<ws, sub>>}]
    /\ pc' = [pc EXCEPT ![ws] = "replay"]
    /\ UNCHANGED <<db, peer, event, todo, sends, eosed, owed>>

ReceiveReq(ws, sub, filters) ==
    /\ Receives(ws)
    /\ ~AtLimit(ws, sub)
    /\ req' = [req EXCEPT ![ws] = [sub |-> sub, filters |-> Capped(filters)]]
    /\ replay' = [replay EXCEPT ![ws] = query(db, Capped(filters))]
    /\ opening' = [w \in Sockets |-> opening[w] \ {<<ws, sub>>}]
    /\ pc' = [pc EXCEPT ![ws] = "replay"]
    /\ UNCHANGED <<db, hub, peer, event, todo, sends, eosed, owed>>

(* Newest first; the filter's order among events of one second is free. *)
SendStored(ws, e) ==
    /\ pc[ws] = "replay"
    /\ e \in replay[ws]
    /\ \A f \in replay[ws] : f.created_at =< e.created_at
    /\ replay' = [replay EXCEPT ![ws] = @ \ {e}]
    /\ UNCHANGED <<db, hub, peer, pc, event, todo, sends, req, eosed, owed, opening>>

SendEose(ws) ==
    /\ pc[ws] = "replay"
    /\ replay[ws] = {}
    /\ eosed' = eosed \cup {<<ws, req[ws].sub>>}
    /\ pc' = [pc EXCEPT ![ws] = "subscribe"]
    /\ UNCHANGED <<db, hub, peer, event, todo, sends, req, replay, owed, opening>>

(* set_sub *)
Subscribe(ws) ==
    /\ pc[ws] = "subscribe"
    /\ LET subs == [x \in Subs(ws) \cup {req[ws].sub} |->
                      IF x = req[ws].sub THEN req[ws].filters ELSE hub[ws][x]]
       IN  hub' = [w \in DOMAIN hub \cup {ws} |-> IF w = ws THEN subs ELSE hub[w]]
    /\ owed' = [w \in Sockets |-> owed[w] \ {<<ws, req[ws].sub>>}]
    /\ req' = [req EXCEPT ![ws] = NoReq]
    /\ pc' = [pc EXCEPT ![ws] = "receive"]
    /\ UNCHANGED <<db, peer, event, todo, sends, replay, eosed, opening>>

(* CLOSE: drop_sub, and no answer. *)
ReceiveClose(ws, sub) ==
    /\ Receives(ws)
    /\ hub' = [hub EXCEPT ![ws] = WithoutSub(@, sub)]
    /\ owed' = [w \in Sockets |-> owed[w] \ {<<ws, sub>>}]
    /\ opening' = [w \in Sockets |-> opening[w] \ {<<ws, sub>>}]
    /\ UNCHANGED <<db, peer, pc, event, todo, sends, req, replay, eosed>>

-----------------------------------------------------------------------------
(* What a coroutine does without its client sending anything. *)
Proceeds(ws) ==
    \/ SendAnswer(ws)
    \/ \E w \in Sockets : ReachSocket(ws, w) \/ ReachRaising(ws, w)
    \/ \E target \in sends[ws] : SendLive(ws, target)
    \/ EndBroadcast(ws)
    \/ \E e \in replay[ws] : SendStored(ws, e)
    \/ SendEose(ws)
    \/ Subscribe(ws)

Client(ws) ==
    \/ Connect(ws) \/ Disconnect(ws) \/ ReceiveOther(ws) \/ HandlerRaises(ws)
    \/ \E e \in Sent :
          ReceiveRejected(ws, e) \/ ReceiveEvent(ws, e) \/ ReceiveUnstorable(ws, e)
    \/ \E sub \in SubIds :
          \/ ReceiveReqRefused(ws, sub)
          \/ \E filters \in FilterSets : ReceiveReq(ws, sub, filters)
          \/ ReceiveClose(ws, sub)

RelayNext == \E ws \in Sockets : Client(ws) \/ Proceeds(ws) \/ Ends(ws)

RelaySpec == RelayInit /\ [][RelayNext]_relayVars

(* The event loop resumes every coroutine whose await is over; a send to a *)
(* client that has stopped reading ends when the server's WebSocket ping   *)
(* times out and closes the socket.                                        *)
FairSpec == RelaySpec /\ \A ws \in Sockets : WF_relayVars(Proceeds(ws)) /\ WF_relayVars(Ends(ws))

-----------------------------------------------------------------------------
Awaits == {"receive", "answer", "broadcast", "cut", "replay", "subscribe", "done"}

RelayTypeOK ==
    /\ db.events \subseteq Sent \ Rejected
    /\ DOMAIN hub \subseteq Sockets
    /\ \A ws \in DOMAIN hub : DOMAIN hub[ws] \subseteq SubIds
    /\ peer \in [Sockets -> {"new", "open", "gone"}]
    /\ pc \in [Sockets -> Awaits]
    /\ \A ws \in Sockets : /\ event[ws] \subseteq Sent
                           /\ todo[ws] \subseteq Sockets
                           /\ sends[ws] \subseteq Sockets \X SubIds
                           /\ replay[ws] \subseteq Sent

(* The relay's guardrails.  MAX_SUBSCRIPTIONS holds although the count is  *)
(* taken before the awaits of the replay and the subscription added after  *)
(* them; and a REQ never streams more than its filters' capped limits.     *)
SubscriptionsBounded ==
    \A ws \in Sockets : Cardinality(Subs(ws)) =< MaxSubscriptions

ReplayBounded ==
    \A ws \in Sockets :
        Cardinality(replay[ws]) =< MaxQueryLimit * Cardinality(req[ws].filters)

Guardrails == SubscriptionsBounded /\ ReplayBounded

(* The hub holds exactly the sockets whose coroutine runs: a subscription  *)
(* added at the end of a REQ does not put back (setdefault) a socket that  *)
(* was removed, and every end of a coroutine removes it.                   *)
HubHasTheLiving == \A ws \in Sockets : ws \in DOMAIN hub <=> pc[ws] # "done"

(* Live events follow EOSE: nothing is broadcast on a subscription before  *)
(* the replay of a REQ for it has ended.                                   *)
LiveAfterEose ==
    \A ws \in Sockets : \A target \in sends[ws] :
        pc[target[1]] = "done" \/ target \in eosed

(* Hub.broadcast reaches the sockets that live, and on each only            *)
(* subscriptions whose replay has ended.                                   *)
HubIsRight == HubHasTheLiving /\ LiveAfterEose

(* No live subscriber is missed: when a coroutine is done broadcasting an  *)
(* event, every subscription that was open when the event was accepted,    *)
(* and was not closed, replaced or lost since, has been sent it, whatever  *)
(* other sockets did during the sends.  When a filter's TypeError cut the  *)
(* broadcast short (relay.py:65 is outside the try), the sockets it had    *)
(* got past have been served all the same.  A publisher that is gone       *)
(* before its OK is sent broadcasts nothing.                               *)
NoneOwed ==
    \A ws \in Sockets :
        /\ pc[ws] = "receive" => owed[ws] = {}
        /\ pc[ws] = "done" => \A target \in owed[ws] : target[1] \in todo[ws]

(* relay.py:171, "Replay stored matches (newest first), then 2) keep the   *)
(* sub open for live": a stored event that matches a REQ is replayed or    *)
(* sent live, also when it is stored while the REQ is being answered.      *)
NothingMissed == \A ws \in Sockets : pc[ws] = "receive" => opening[ws] = {}

(* Every message is handled in the end: a coroutine always comes back to   *)
(* receiving, or its socket is gone.                                       *)
HandlerReturns == \A ws \in Sockets : []<>(pc[ws] \in {"receive", "done"})
=============================================================================
