-------------------------------- MODULE Hub --------------------------------
(***************************************************************************)
(* The WebSocket hub (package websocket in internal/middleware/metrics.go) *)
(* with the id scheme of RouterV2.websocketHandler (unnamed/part_000).     *)
(*                                                                         *)
(* A connection of Conns goes through websocketHandler once: it computes   *)
(* its id "client-%d" from GetClientCount()+1, is upgraded and sent on the *)
(* unbuffered register channel, then its readPump and writePump run.  The  *)
(* hub's Run loop is the only writer of h.clients; each case of its select *)
(* is one step, and a send on register or unregister is one step together *)
(* with the case that receives it.  A Send channel is a counter of queued  *)
(* messages with capacity QueueCap; closes[c] counts close(c.Send) calls   *)
(* (a second one panics and takes the process down).  Message payloads    *)
(* are left out: only their number matters to the hub.                     *)
(***************************************************************************)
EXTENDS Naturals, FiniteSets

CONSTANTS
    Conns,      \* the upgraded connections
    QueueCap,   \* capacity of a client's Send channel (256)
    BcastCap,   \* capacity of h.broadcast (256)
    MaxMsgs     \* bound on the messages clients send, for model checking

ASSUME HubAssumption ==
    /\ IsFiniteSet(Conns)
    /\ QueueCap \in Nat /\ BcastCap \in Nat \ {0} /\ MaxMsgs \in Nat

Ids == 1..Cardinality(Conns)

VARIABLES
    clients,    \* h.clients: id -> connection, on the ids the map holds
    phase,      \* phase[c]: "new", "upgraded", "live", "leaving" or "gone"
    cid,        \* cid[c]: the id websocketHandler gave c (0 before)
    queue,      \* queue[c]: messages in c.Send
    closes,     \* closes[c]: how many times close(c.Send) ran
    bcast,      \* messages in h.broadcast
    msgs,       \* messages the readPumps have read so far
    hubUp       \* Run has not returned (its context is not cancelled)

vars == <<clients, phase, cid, queue, closes, bcast, msgs, hubUp>>

TypeOK ==
    /\ DOMAIN clients \subseteq Ids
    /\ \A i \in DOMAIN clients : clients[i] \in Conns
    /\ phase \in [Conns -> {"new", "upgraded", "live", "leaving", "gone"}]
    /\ cid \in [Conns -> Ids \cup {0}]
    /\ queue \in [Conns -> 0..QueueCap]
    /\ closes \in [Conns -> Nat]
    /\ bcast \in 0..BcastCap
    /\ msgs \in 0..MaxMsgs
    /\ hubUp \in BOOLEAN

(* h.clients without the entry for id.                                     *)
Unmap(id) == [i \in DOMAIN clients \ {id} |-> clients[i]]

Init ==
    /\ clients = [i \in {} |-> CHOOSE c \in Conns : TRUE]
    /\ phase = [c \in Conns |-> "new"]
    /\ cid = [c \in Conns |-> 0]
    /\ queue = [c \in Conns |-> 0]
    /\ closes = [c \in Conns |-> 0]
    /\ bcast = 0
    /\ msgs = 0
    /\ hubUp = TRUE

(* websocketHandler: clientID := fmt.Sprintf("client-%d",                  *)
(* GetClientCount()+1), then the upgrade in ServeWS.                       *)
Connect(c) ==
    /\ phase[c] = "new"
    /\ cid' = [cid EXCEPT ![c] = Cardinality(DOMAIN clients) + 1]
    /\ phase' = [phase EXCEPT ![c] = "upgraded"]
    /\ UNCHANGED <<clients, queue, closes, bcast, msgs, hubUp>>

(* hub.register <- client, received by Run: h.clients[client.ID] = client, *)
(* which replaces a client already registered under that id.               *)
Register(c) ==
    /\ hubUp
    /\ phase[c] = "upgraded"
    /\ clients' = [i \in DOMAIN clients \cup {cid[c]} |->
                    IF i = cid[c] THEN c ELSE clients[i]]
    /\ phase' = [phase EXCEPT ![c] = "live"]
    /\ UNCHANGED <<cid, queue, closes, bcast, msgs, hubUp>>

(* readPump reads a frame and calls h.Broadcast(msg) (it blocks while      *)
(* h.broadcast is full).                                                   *)
Read(c) ==
    /\ phase[c] = "live"
    /\ msgs < MaxMsgs
    /\ bcast < BcastCap
    /\ bcast' = bcast + 1
    /\ msgs' = msgs + 1
    /\ UNCHANGED <<clients, phase, cid, queue, closes, hubUp>>

(* ReadJSON fails (the peer went away, the read deadline passed, or        *)
(* writePump closed the connection): readPump leaves its loop and its      *)
(* deferred function is about to send on h.unregister.                     *)
ReadError(c) ==
    /\ phase[c] = "live"
    /\ phase' = [phase EXCEPT ![c] = "leaving"]
    /\ UNCHANGED <<clients, cid, queue, closes, bcast, msgs, hubUp>>

(* h.unregister <- c, received by Run: if h.clients[c.ID] exists, delete   *)
(* it and close(c.Send).  The entry found may be another client's.         *)
Unregister(c) ==
    /\ hubUp
    /\ phase[c] = "leaving"
    /\ \/ /\ cid[c] \in DOMAIN clients
          /\ clients' = Unmap(cid[c])
          /\ closes' = [closes EXCEPT ![c] = @ + 1]
       \/ /\ cid[c] \notin DOMAIN clients
          /\ UNCHANGED <<clients, closes>>
    /\ phase' = [phase EXCEPT ![c] = "gone"]
    /\ UNCHANGED <<cid, queue, bcast, msgs, hubUp>>

(* writePump takes a message off c.Send and writes it (or fails to: then  *)
(* it closes the connection, and readPump's next read fails).             *)
Write(c) ==
    /\ queue[c] > 0
    /\ queue' = [queue EXCEPT ![c] = @ - 1]
    /\ UNCHANGED <<clients, phase, cid, closes, bcast, msgs, hubUp>>

(* The clients whose Send channel is full when the broadcast reaches them. *)
Full == {i \in DOMAIN clients : queue[clients[i]] >= QueueCap}

(* Mutant: a slow client is closed but left in h.clients.                  *)
DropSlowKept ==
    /\ clients' = clients
    /\ closes' = [c \in Conns |->
                    IF \E i \in Full : clients[i] = c THEN closes[c] + 1 ELSE closes[c]]

(* Mutant: the broadcast loop sends without a default case, so it waits   *)
(* until every client's Send channel has room.                             *)
HubBroadcastBlocking ==
    /\ hubUp
    /\ bcast > 0
    /\ Full = {}
    /\ bcast' = bcast - 1
    /\ queue' = [c \in Conns |->
                   IF \E i \in DOMAIN clients : clients[i] = c
                   THEN queue[c] + 1 ELSE queue[c]]
    /\ UNCHANGED <<clients, closes, phase, cid, msgs, hubUp>>

(* A slow client is deleted from h.clients and its Send closed.            *)
DropSlow ==
    /\ clients' = [i \in DOMAIN clients \ Full |-> clients[i]]
    /\ closes' = [c \in Conns |->
                    IF \E i \in Full : clients[i] = c THEN closes[c] + 1 ELSE closes[c]]

(* Run receives from h.broadcast: every client in h.clients gets the       *)
(* message on its Send channel, or is deleted and its Send closed when the *)
(* channel is full.  Only Run writes h.clients, so the loop, which drops   *)
(* and retakes the lock around a deletion, is one step.                    *)
HubBroadcast ==
    /\ hubUp
    /\ bcast > 0
    /\ bcast' = bcast - 1
    /\ queue' = [c \in Conns |->
                   IF \E i \in DOMAIN clients \ Full : clients[i] = c
                   THEN queue[c] + 1 ELSE queue[c]]
    /\ DropSlow
    /\ UNCHANGED <<phase, cid, msgs, hubUp>>

(* EngineV2.Stop calls wsCancel: Run returns at its next select.  Nothing  *)
(* closes the clients, and sends on register, unregister and a full        *)
(* broadcast channel block from then on.                                   *)
HubStop ==
    /\ hubUp
    /\ hubUp' = FALSE
    /\ UNCHANGED <<clients, phase, cid, queue, closes, bcast, msgs>>

Next ==
    \/ \E c \in Conns :
          \/ Connect(c) \/ Register(c) \/ Read(c) \/ ReadError(c)
          \/ Unregister(c) \/ Write(c)
    \/ HubBroadcast
    \/ HubStop

Spec == Init /\ [][Next]_vars

(* Run is a goroutine looping on its select: a case that stays ready (a    *)
(* blocked send on register or unregister, a message in h.broadcast) is    *)
(* eventually taken.  The pumps and the peers get no fairness: a peer may  *)
(* stop reading, and then writePump never drains its Send channel.         *)
Fairness ==
    /\ WF_vars(HubBroadcast)
    /\ \A c \in Conns : WF_vars(Register(c)) /\ WF_vars(Unregister(c))

FairSpec == Spec /\ Fairness

-----------------------------------------------------------------------------
(* Run only sends on the Send channels of clients in h.clients: none of    *)
(* them may be closed, or the broadcast panics with "send on closed        *)
(* channel".  Reviewers of the id scheme must convince themselves that a   *)
(* client replaced under its id, or unregistering the entry of another     *)
(* client, never leaves a closed channel in the map.                       *)
NoSendOnClosed ==
    \A i \in DOMAIN clients : closes[clients[i]] = 0

(* Run never stalls on a slow client: every message a readPump put in      *)
(* h.broadcast is eventually taken off it while the hub runs, however full *)
(* the clients' Send channels are.  Were the send in the broadcast loop    *)
(* blocking, one peer that stops reading would stop Run, and with it every *)
(* readPump blocked in Broadcast and every ServeWS blocked on register.    *)
BroadcastDrains ==
    (bcast > 0) ~> (bcast = 0 \/ ~hubUp)

(* Spec 4.7: unregister closes a client's Send queue exactly once; a       *)
(* second close(c.Send) panics.  Both Run's unregister case and its        *)
(* broadcast case close Send, each guarded only by a lookup by id.         *)
NoDoubleClose ==
    \A c \in Conns : closes[c] <= 1

=============================================================================
