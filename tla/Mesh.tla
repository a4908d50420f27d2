--------------------------------- MODULE Mesh ---------------------------------
(***************************************************************************)
(* What a daemon (the home) tells a peer about its sessions, and what the  *)
(* peer makes of it (broadcasts of daemon_protocol.rs, transport.rs, the   *)
(* receive loop of nostr_transport.rs).                                    *)
(*                                                                         *)
(* A change of the home is followed by a message with the next number; now *)
(* and then the home sends the list of its networked sessions, under the   *)
(* number of the last change.  Messages are lost, overtaken and, once,     *)
(* repeated.  Either daemon may restart, and the peer may disconnect.      *)
(*                                                                         *)
(* The rows and aliases of the peer are those whose keys carry the name of *)
(* the home, which no other daemon bears.  Left out: aliases of bare IDs,  *)
(* the metadata of remote rows, and the numbers of sends, which are those  *)
(* of Talk here and are not looked at by the peer.                         *)
(***************************************************************************)
EXTENDS Naturals, FiniteSets, Functions

CONSTANTS
    Ids,
    None,
    MaxChanges,  \* bound on what happens at the home
    MaxBreaks,   \* bound on the restarts and disconnects of the peer
    MaxWire      \* bound on the messages under way

VARIABLES
    local,       \* sessions of the home that are networked or private
    renamed,     \* local_rename_aliases of the home
    seq,         \* wire_seq of the home
    wire,        \* messages under way
    allowed,     \* peer_pubkeys of the peer has the home
    hand,        \* the message whose sender was found in peer_pubkeys
    rows,        \* the peer's remote rows
    alias,       \* the peer's aliases
    seen,        \* last_seen_seq of the peer
    leaving,     \* a disconnect between its two locks
    changes, breaks  \* how often the bounds were used

home == <<local, renamed, seq, changes>>
peer == <<allowed, hand, rows, alias, seen, leaving, breaks>>
vars == <<home, wire, peer>>

Live      == DOMAIN local
Networked == {i \in Live : local[i] = "networked"}
Empty     == [i \in {} |-> None]

Init ==
    /\ local = Empty /\ renamed = Empty /\ seq = 1 /\ changes = 0
    /\ wire = {}
    /\ allowed = TRUE /\ hand = None
    /\ rows = {} /\ alias = Empty /\ seen = 0
    /\ leaving = FALSE /\ breaks = 0
-----------------------------------------------------------------------------
(* Messages.                                                               *)
Posted(body) == [body |-> body, seq |-> seq', again |-> FALSE]

(* A broadcast is lost, or is under way.                                   *)
Sends(body) ==
    \/ UNCHANGED wire
    \/ /\ Cardinality(wire) < MaxWire
       /\ wire' = wire \union {Posted(body)}

Announce(i)     == [kind |-> "announce", id |-> i]
Remove(i)       == [kind |-> "remove", id |-> i]
Renamed(i, j)   == [kind |-> "renamed", id |-> i, new |-> j]
List(ids, as)   == [kind |-> "list", ids |-> ids, aliases |-> as]
-----------------------------------------------------------------------------
(* The home.                                                               *)
Without(f, i) == Restrict(f, DOMAIN f \ {i})
With(f, i, v) == [k \in DOMAIN f \union {i} |-> IF k = i THEN v ELSE f[k]]

(* The body of add_alias and of add_local_rename_alias.                    *)
Aliased(f, old, new) ==
    LET moved == With([k \in DOMAIN f |-> IF f[k] = old THEN new ELSE f[k]],
                      old, new)
    IN  IF old = new THEN f
        ELSE Restrict(moved, {k \in DOMAIN moved : moved[k] # k})

Pruned(f, live) == Restrict(f, {k \in DOMAIN f : f[k] \in live})

Changed ==
    /\ changes < MaxChanges /\ changes' = changes + 1
    /\ UNCHANGED peer

Register(i, mode) ==
    /\ Changed
    /\ local' = With(local, i, mode)
    /\ renamed' = Without(renamed, i)
    /\ IF mode = "networked"
       THEN seq' = seq + 1 /\ Sends(Announce(i))
       ELSE UNCHANGED <<seq, wire>>

(* A pane that is registered under another ID.                             *)
RegisterReplacing(old, i, mode) ==
    /\ Changed
    /\ old \in Live /\ old # i
    /\ local' = With(Without(local, old), i, mode)
    /\ renamed' = Pruned(Without(renamed, i), DOMAIN local')
    /\ seq' = seq + 1 /\ Sends(Renamed(old, i))

Rename(old, new) ==
    /\ Changed
    /\ old \in Live /\ new \notin Live
    /\ local' = With(Without(local, old), new, local[old])
    /\ renamed' = Pruned(Aliased(Without(renamed, new), old, new), DOMAIN local')
    /\ seq' = seq + 1 /\ Sends(Renamed(old, new))

Dropped(i) ==
    /\ Changed
    /\ i \in Live
    /\ local' = Without(local, i)
    /\ renamed' = Pruned(renamed, DOMAIN local')

(* apply_remove_unleased: peers are told, also of a private session        *)
RemoveSession(i) == Dropped(i) /\ seq' = seq + 1 /\ Sends(Remove(i))

(* apply_dormant_owned: they are told of a networked one                   *)
GoesDormant(i) ==
    /\ Dropped(i)
    /\ IF local[i] = "networked"
       THEN seq' = seq + 1 /\ Sends(Remove(i))
       ELSE UNCHANGED <<seq, wire>>

UpdateMetadata(i, mode) ==
    /\ Changed
    /\ i \in Live /\ local[i] # mode
    /\ local' = [local EXCEPT ![i] = mode]
    /\ UNCHANGED <<renamed, seq, wire>>

(* A send takes a number.                                                  *)
Talk ==
    /\ Changed
    /\ seq' = seq + 1
    /\ UNCHANGED <<local, renamed, wire>>

(* The clock has moved further than the numbers: DaemonState::new.         *)
HomeRestarts ==
    /\ Changed
    /\ seq' = seq + 1
    /\ renamed' = Empty
    /\ UNCHANGED <<local, wire>>

Exported == Restrict(renamed, {k \in DOMAIN renamed : renamed[k] \in Networked})

CurrentList == List(Networked, Exported)

(* broadcast_local_sessions: after every change, and as a heartbeat.       *)
Gossip ==
    /\ UNCHANGED <<home, peer>>
    /\ Cardinality(wire) < MaxWire
    /\ wire' = wire \union {Posted(CurrentList)}
-----------------------------------------------------------------------------
(* The peer.                                                               *)

(* The receive loop takes one message at a time, and looks up its sender   *)
(* before it hands it to the protocol.  Another relay may have a copy.     *)
Receive ==
    /\ hand = None
    /\ \E m \in wire :
          /\ \/ wire' = wire \ {m}
             \/ ~m.again /\ wire' = (wire \ {m}) \union {[m EXCEPT !.again = TRUE]}
          /\ hand' = IF allowed THEN m ELSE None
    /\ UNCHANGED <<home, allowed, rows, alias, seen, leaving, breaks>>

(* faulty: a number is accepted once *)
AcceptsNewer(m) == m.seq > seen

(* accept_seq                                                              *)
Accepts(m) == m.seq >= seen

ApplyAnnounce(b) == rows' = rows \union {b.id} /\ UNCHANGED alias
ApplyRemove(b)   == rows' = rows \ {b.id} /\ UNCHANGED alias
ApplyRenamed(b)  ==
    /\ rows' = (rows \ {b.id}) \union {b.new}
    /\ alias' = Aliased(alias, b.id, b.new)

(* The aliases of a list are installed one after another; as none of them  *)
(* leads to another, their order does not matter.                          *)
Install(f, as) ==
    FoldFunctionOnSet(LAMBDA p, g : Aliased(g, p[1], p[2]), f,
                      [k \in DOMAIN as |-> <<k, as[k]>>], DOMAIN as)

(* faulty: the aliases of a list are left to the messages about renames *)
ApplyRows(b) == rows' = b.ids /\ UNCHANGED alias

ApplyList(b) == rows' = b.ids /\ alias' = Install(alias, b.aliases)

Apply ==
    /\ hand # None
    /\ hand' = None
    /\ IF Accepts(hand)
       THEN /\ seen' = hand.seq
            /\ CASE hand.body.kind = "announce" -> ApplyAnnounce(hand.body)
                 [] hand.body.kind = "remove"   -> ApplyRemove(hand.body)
                 [] hand.body.kind = "renamed"  -> ApplyRenamed(hand.body)
                 [] hand.body.kind = "list"     -> ApplyList(hand.body)
       ELSE UNCHANGED <<rows, alias, seen>>
    /\ UNCHANGED <<home, wire, allowed, leaving, breaks>>

(* Remote rows, aliases and numbers are not persisted; peers are.          *)
PeerRestarts ==
    /\ breaks < MaxBreaks /\ breaks' = breaks + 1
    /\ rows' = {} /\ alias' = Empty /\ seen' = 0 /\ hand' = None /\ leaving' = FALSE
    /\ UNCHANGED <<home, wire, allowed>>

(* disconnect_node: the peer is refused first, its rows go later.          *)
Deauthorize ==
    /\ breaks < MaxBreaks /\ breaks' = breaks + 1
    /\ allowed /\ ~leaving
    /\ allowed' = FALSE /\ leaving' = TRUE
    /\ UNCHANGED <<home, wire, hand, rows, alias, seen>>

Disconnected ==
    /\ leaving /\ leaving' = FALSE
    /\ rows' = {}
    /\ UNCHANGED <<home, wire, allowed, hand, alias, seen, breaks>>

Connect ==
    /\ ~allowed /\ ~leaving
    /\ allowed' = TRUE
    /\ UNCHANGED <<home, wire, hand, rows, alias, seen, leaving, breaks>>
-----------------------------------------------------------------------------
HomeNext ==
    \/ \E i \in Ids, mode \in {"networked", "private"} :
          Register(i, mode) \/ UpdateMetadata(i, mode)
    \/ \E i, j \in Ids, mode \in {"networked", "private"} : RegisterReplacing(i, j, mode)
    \/ \E i, j \in Ids : Rename(i, j)
    \/ \E i \in Ids : RemoveSession(i) \/ GoesDormant(i)
    \/ Talk \/ HomeRestarts \/ Gossip

PeerNext ==
    Receive \/ Apply \/ PeerRestarts \/ Deauthorize \/ Disconnected \/ Connect

Next == HomeNext \/ PeerNext

Spec == Init /\ [][Next]_vars

(* The list is sent again and again, and not lost every time; the receive  *)
(* loop of the peer runs, and a disconnect goes on to its end.             *)
FairSpec ==
    /\ Spec
    /\ SF_vars(Gossip) /\ WF_vars(Receive) /\ WF_vars(Apply)
    /\ WF_vars(Disconnected)
-----------------------------------------------------------------------------
(* A peer that stays connected ends up with exactly the home's networked   *)
(* sessions, and with the aliases that the home exports: whatever was      *)
(* lost, repeated or overtaken, when either side has restarted, when a     *)
(* session became private without a message, when a list and a change have *)
(* the same number, and after a disconnect (apply_incoming_session_list,   *)
(* accept_seq, broadcast_local_sessions).                                  *)
Agreed == /\ rows = Networked
          /\ \A k \in DOMAIN Exported : k \in DOMAIN alias /\ alias[k] = Exported[k]

Converges == <>[](allowed /\ ~leaving) => <>[]Agreed
=============================================================================
