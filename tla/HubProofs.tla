------------------------------ MODULE HubProofs ------------------------------
(***************************************************************************)
(* Proof that the hub's Run loop never sends on a closed Send channel      *)
(* (module Hub), for every set of connections and every channel capacity.  *)
(*                                                                         *)
(* NoSendOnClosed is not inductive on its own: a client that is closed     *)
(* while out of h.clients must never come back into it, and unregistering *)
(* by id must not close a client that stays in the map.  The strengthening *)
(* says that every entry of h.clients sits under the id its client was    *)
(* given, belongs to a client whose pumps run, and is not closed, and that *)
(* a client not yet registered has never been closed.  The first part is  *)
(* what makes a lookup by id find the right client when Run closes one: a  *)
(* client can be in the map only at its own id.                            *)
(***************************************************************************)
EXTENDS Hub, FiniteSetTheorems, TLAPS

Phases == {"new", "upgraded", "live", "leaving", "gone"}

(* Entry i of h.clients is the registered, unclosed client with id i.      *)
Entry(i) ==
    /\ clients[i] \in Conns
    /\ cid[clients[i]] = i
    /\ phase[clients[i]] \in {"live", "leaving"}
    /\ closes[clients[i]] = 0

IInv ==
    /\ phase \in [Conns -> Phases]
    /\ closes \in [Conns -> Nat]
    /\ cid \in [Conns -> Nat]
    /\ DOMAIN clients \subseteq Nat
    /\ IsFiniteSet(DOMAIN clients)
    /\ \A i \in DOMAIN clients : Entry(i)
    /\ \A c \in Conns : phase[c] \in {"new", "upgraded"} => closes[c] = 0

-----------------------------------------------------------------------------
LEMMA InitInv == Init => IInv
<1> SUFFICES ASSUME Init PROVE IInv
  OBVIOUS
<1>1. DOMAIN clients = {}
  BY DEF Init
<1>. QED  BY <1>1, FS_EmptySet DEF Init, IInv, Phases

(* websocketHandler picks an id for a connection not yet in the map.       *)
LEMMA ConnectInv ==
  ASSUME IInv, NEW c \in Conns, Connect(c) PROVE IInv'
<1>1. Cardinality(DOMAIN clients) \in Nat
  BY FS_CardinalityType DEF IInv
<1>2. cid' \in [Conns -> Nat]
  BY <1>1 DEF IInv, Connect
<1>3. \A i \in DOMAIN clients : clients[i] # c
  BY DEF IInv, Entry, Connect
<1>4. \A i \in DOMAIN clients' : Entry(i)'
  BY <1>3 DEF IInv, Entry, Connect
<1>. QED  BY <1>2, <1>4 DEF IInv, Connect, Phases

(* Run's register case puts the client under its id, replacing any entry. *)
LEMMA RegisterInv ==
  ASSUME IInv, NEW c \in Conns, Register(c) PROVE IInv'
<1> DEFINE D == DOMAIN clients \cup {cid[c]}
<1>1. DOMAIN clients' = D
  BY DEF Register
<1>2. D \subseteq Nat /\ IsFiniteSet(D)
  BY FS_AddElement DEF IInv
<1>3. closes[c] = 0 /\ cid[c] \in Nat
  BY DEF IInv, Register
<1>4. ASSUME NEW i \in D PROVE Entry(i)'
  <2>1. CASE i = cid[c]
    BY <2>1, <1>3 DEF IInv, Register, Entry
  <2>2. CASE i # cid[c]
    <3>1. i \in DOMAIN clients /\ clients'[i] = clients[i]
      BY <2>2 DEF Register
    <3>2. clients[i] # c
      BY <2>2, <3>1 DEF IInv, Entry
    <3>. QED  BY <3>1, <3>2 DEF IInv, Entry, Register
  <2>. QED  BY <2>1, <2>2
<1>. QED  BY <1>1, <1>2, <1>4 DEF IInv, Register, Phases

(* Run's unregister case deletes the entry under the leaving client's id   *)
(* and closes that client's Send: whatever the entry was, no client left   *)
(* in the map is the one closed.                                           *)
LEMMA UnregisterInv ==
  ASSUME IInv, NEW c \in Conns, Unregister(c) PROVE IInv'
<1>1. \A i \in DOMAIN clients : clients[i] = c => i = cid[c]
  BY DEF IInv, Entry
<1>2. CASE cid[c] \in DOMAIN clients /\ clients' = Unmap(cid[c])
              /\ closes' = [closes EXCEPT ![c] = @ + 1]
  <2>1. DOMAIN clients' = DOMAIN clients \ {cid[c]}
    BY <1>2 DEF Unmap
  <2>2. IsFiniteSet(DOMAIN clients')
    BY <2>1, FS_Subset DEF IInv
  <2>3. \A i \in DOMAIN clients' : clients'[i] = clients[i] /\ clients[i] # c
    BY <1>1, <1>2, <2>1 DEF Unmap
  <2>4. \A i \in DOMAIN clients' : Entry(i)'
    BY <1>2, <2>1, <2>3 DEF IInv, Entry, Unregister
  <2>. QED  BY <1>2, <2>1, <2>2, <2>4 DEF IInv, Unregister, Phases
<1>3. CASE cid[c] \notin DOMAIN clients /\ UNCHANGED <<clients, closes>>
  <2>1. \A i \in DOMAIN clients : clients[i] # c
    BY <1>1, <1>3
  <2>. QED  BY <1>3, <2>1 DEF IInv, Entry, Unregister, Phases
<1>. QED  BY <1>2, <1>3 DEF Unregister

(* Run's broadcast case closes exactly the clients it deletes.             *)
LEMMA BroadcastInv ==
  ASSUME IInv, HubBroadcast PROVE IInv'
<1> DEFINE Kept == DOMAIN clients \ Full
<1>1. DOMAIN clients' = Kept /\ \A i \in Kept : clients'[i] = clients[i]
  BY DEF HubBroadcast, DropSlow
<1>2. IsFiniteSet(Kept)
  BY FS_Subset DEF IInv
<1>3. closes' = [c \in Conns |->
                   IF \E i \in Full : clients[i] = c THEN closes[c] + 1
                   ELSE closes[c]]
  BY DEF HubBroadcast, DropSlow
<1>4. closes' \in [Conns -> Nat]
  BY <1>3 DEF IInv
<1>5. ASSUME NEW i \in Kept PROVE closes'[clients[i]] = 0
  <2>1. \A j \in Full : clients[j] # clients[i]
    BY DEF IInv, Entry, Full
  <2>. QED  BY <1>3, <2>1 DEF IInv, Entry
<1>6. ASSUME NEW c \in Conns, phase[c] \in {"new", "upgraded"}
      PROVE  closes'[c] = 0
  <2>1. \A j \in Full : clients[j] # c
    BY <1>6 DEF IInv, Entry, Full
  <2>. QED  BY <1>3, <1>6, <2>1 DEF IInv
<1>. QED  BY <1>1, <1>2, <1>4, <1>5, <1>6 DEF IInv, Entry, HubBroadcast

LEMMA StepInv == IInv /\ [Next]_vars => IInv'
<1> SUFFICES ASSUME IInv, [Next]_vars PROVE IInv'
  OBVIOUS
<1>1. ASSUME NEW c \in Conns, Connect(c) PROVE IInv'
  BY <1>1, ConnectInv
<1>2. ASSUME NEW c \in Conns, Register(c) PROVE IInv'
  BY <1>2, RegisterInv
<1>3. ASSUME NEW c \in Conns, Read(c) PROVE IInv'
  BY <1>3 DEF IInv, Entry, Read
<1>4. ASSUME NEW c \in Conns, ReadError(c) PROVE IInv'
  BY <1>4 DEF IInv, Entry, ReadError, Phases
<1>5. ASSUME NEW c \in Conns, Unregister(c) PROVE IInv'
  BY <1>5, UnregisterInv
<1>6. ASSUME NEW c \in Conns, Write(c) PROVE IInv'
  BY <1>6 DEF IInv, Entry, Write
<1>7. CASE HubBroadcast
  BY <1>7, BroadcastInv
<1>8. CASE HubStop
  BY <1>8 DEF IInv, Entry, HubStop
<1>9. CASE UNCHANGED vars
  BY <1>9 DEF IInv, Entry, vars
<1>. QED  BY <1>1, <1>2, <1>3, <1>4, <1>5, <1>6, <1>7, <1>8, <1>9 DEF Next

(* Run's broadcast loop only ever sends on open Send channels: for any     *)
(* number of connections and any interleaving of their registration, id   *)
(* reuse, unregistration and slow-client drops, no client in h.clients has *)
(* had its Send closed.                                                    *)
THEOREM NoSendOnClosedHolds == Spec => []NoSendOnClosed
<1>1. IInv => NoSendOnClosed
  BY DEF IInv, Entry, NoSendOnClosed
<1>. QED  BY <1>1, InitInv, StepInv, PTL DEF Spec
=============================================================================
