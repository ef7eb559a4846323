--------------------------- MODULE SyncProperties ---------------------------
(***************************************************************************)
(* What synchronisation with several peers promises.                       *)
(***************************************************************************)
EXTENDS NodeSync

Requested(p) == Range(peer[p].sync_items_requested_from_peer)

\* _active_sync_requests holds exactly what some connected peer was asked for,
\* no block is asked from two peers, and the limits on blocks asked from one peer
\* and on blocks given to the chain at one time are kept.
RequestsTracked ==
    /\ InProgress(State) <= MaxHandling
    /\ \A p \in Peers : Len(peer[p].sync_items_requested_from_peer) <= MaxPerPeer
    /\ UNION {Requested(p) : p \in Peers} \subseteq node.active_sync_requests
    /\ node.active_sync_requests \subseteq UNION {Requested(p) \cup remote[p].lacks : p \in Peers}
    /\ \A p, q \in Peers : p # q => Requested(p) \cap Requested(q) = {}

\* A block that an idle peer lists, that is neither stored nor asked for, is
\* never forgotten: fetch_sync_items_loop is due to run, or it is suspended
\* and a block that is being handled will resume it.
NoMissedWakeup ==
    (\E p \in Active(State) :
        /\ Idle(State, p)
        /\ peer[p].we_need_sync_items_from_peer /\ ~ peer[p].inhibit_fetching_sync_blocks
        /\ \E b \in Range(peer[p].ids_of_items_to_get) :
             b \notin node.active_sync_requests \cup Range(node.received) \cup Range(node.new_received))
    => node.fetch_due \/ node.backlog_due \/ InProgress(State) > 0

\* A block handed to the chain has its previous block there or queued before it.
ParentsFirst ==
    \A i \in DOMAIN node.handling : node.handling[i].from = {} =>
        LET b == node.handling[i].block
        IN  Front(b) \in node.known \cup {Genesis} \cup {node.handling[j].block : j \in 1 .. i - 1}

\* A peer that answers truthfully is never asked to leave.
HonestPeersKept == \A p \in Peers : peer[p].list = "closing" => remote[p].lacks # {}

\* No assertion of the node fails.
NotAborted == ~ node.aborted

Synced(p) ==
    peer[p].list = "active" => /\ ~ peer[p].we_need_sync_items_from_peer
                               /\ remote[p].head \in node.known

\* The node ends up in sync with every peer.
CatchesUp == <>[](\A p \in Peers : Synced(p))
=============================================================================
