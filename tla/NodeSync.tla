------------------------------ MODULE NodeSync ------------------------------
(***************************************************************************)
(* A p2p node (net/node.cpp) that brings its chain up to date from several *)
(* peers at once.  It asks every peer for the ids of the blocks it lacks   *)
(* (fetch_blockchain_item_ids), spreads the requests for the blocks over   *)
(* the idle peers, stores what arrives out of order and hands a block to   *)
(* the chain database once it is the first one some peer still lists.      *)
(* Blocks a peer in sync advertises come through the normal inventory      *)
(* mechanism at the same time.  Peers time out, close and come back.       *)
(*                                                                         *)
(* A block is the sequence of choices that leads to it from genesis <<>>:  *)
(* its number is its length and its previous block its Front.              *)
(*                                                                         *)
(* The fibers of the p2p thread run one handler at a time and give way     *)
(* only where they wait for the chain thread, so a handler is one action   *)
(* and the wait in send_sync_block_to_node_delegate splits it in two.      *)
(* A peer answers its requests in the order they were sent (TCP).  What it *)
(* does before its answer is read touches nothing the node sees, so the    *)
(* answer is computed in the step that handles it.                         *)
(***************************************************************************)
EXTENDS Naturals, FiniteSets, FiniteSetsExt, SequencesExt

CONSTANTS
    Peers,
    Blocks,             \* the blocks that are ever produced
    InitialHead,        \* the head block of the node at its start
    InitialPeerHeads,   \* the head blocks a peer may have at the start
    Limit,              \* ids in one answer of get_item_ids
    MinPrefetch,        \* BTS_NET_MIN_BLOCK_IDS_TO_PREFETCH
    MaxPerPeer,         \* _maximum_blocks_per_peer_during_syncing
    MaxHandling,        \* _maximum_number_of_blocks_to_handle_at_one_time
    MaxPrefetch,        \* _maximum_number_of_sync_blocks_to_prefetch
    RecentCapacity,     \* of _most_recent_blocks_accepted
    BlockInterval, MaxBlockInterval, GracePeriod,
    MaxLosses,          \* bound on the connections lost
    Advertises,         \* whether a block a peer learns may be advertised to us
    MayLack             \* blocks that a peer may have lost although it lists them

Genesis == <<>>

ChainTo(b) == [n \in 1 .. Len(b) |-> SubSeq(b, 1, n)]

\* The elements of s at the positions in I, in their order.
Selected(s, I) ==
    [k \in 1 .. Cardinality(I) |-> s[CHOOSE i \in I : Cardinality({j \in I : j <= i}) = k]]

ASSUME BlocksAssumption ==
    /\ IsFiniteSet(Peers)
    /\ Genesis \notin Blocks /\ \A b \in Blocks : b \in Seq(Range(b))
    /\ \A b \in Blocks : Len(b) = 1 \/ Front(b) \in Blocks
    /\ InitialHead \in Blocks \cup {Genesis}
    /\ InitialPeerHeads \subseteq Blocks \cup {Genesis}

ASSUME BoundsAssumption ==
    /\ {MaxPerPeer, MaxHandling, BlockInterval} \subseteq Nat \ {0}
    /\ Limit \in Nat /\ Limit > 1
    /\ {MinPrefetch, MaxPrefetch, RecentCapacity, MaxLosses} \subseteq Nat
    /\ {MaxBlockInterval, GracePeriod} \subseteq Nat
    /\ Advertises \in BOOLEAN /\ MayLack \subseteq Blocks

VARIABLES
    node,    \* the state of node_impl and of its chain database
    peer,    \* the peer_connection of every peer
    remote,  \* the peers themselves: what they know of the chain and of us
    losses   \* connections lost so far

vars == <<node, peer, remote, losses>>

NoRequest == << >>   \* a synopsis that was sent is never empty

\* A peer_connection as it is constructed.
NewPeer ==
    [list |-> "active", ids_of_items_to_get |-> <<>>, ids_of_items_being_processed |-> {},
     number_of_unfetched_item_ids |-> 0, item_ids_requested_from_peer |-> NoRequest,
     sync_items_requested_from_peer |-> <<>>, items_requested_from_peer |-> {},
     inventory_peer_advertised_to_us |-> {}, inventory_advertised_to_peer |-> {},
     peer_needs_sync_items_from_us |-> TRUE, we_need_sync_items_from_peer |-> TRUE,
     inhibit_fetching_sync_blocks |-> FALSE,
     last_block_delegate_has_seen |-> Genesis, last_block_number_delegate_has_seen |-> 0]

Gone == [NewPeer EXCEPT !.list = "gone"]

Init ==
    /\ node = [known |-> Range(ChainTo(InitialHead)), head |-> InitialHead,
               active_sync_requests |-> {}, new_received |-> <<>>, received |-> <<>>,
               handling |-> <<>>, handled |-> <<>>, most_recent |-> <<InitialHead>>,
               items_to_fetch |-> <<>>, items_due |-> TRUE, backlog_due |-> FALSE, fetch_due |-> TRUE,
               suspended |-> FALSE, aborted |-> FALSE]
    /\ peer = [p \in Peers |-> Gone]
    /\ \E h \in [Peers -> InitialPeerHeads], l \in [Peers -> SUBSET MayLack] :
         remote = [p \in Peers |-> [known |-> Range(ChainTo(h[p])), head |-> h[p], lacks |-> l[p],
                                    needs_items |-> TRUE, will_ask |-> FALSE]]
    /\ losses = 0

Active(s) == {p \in Peers : s.peer[p].list = "active"}
Connected(p) == peer[p].list # "gone"

Idle(s, p) ==
    /\ s.peer[p].items_requested_from_peer = {}
    /\ s.peer[p].sync_items_requested_from_peer = <<>>
    /\ s.peer[p].item_ids_requested_from_peer = NoRequest

\* has_item, of the chain database behind the delegate.
HasItem(s, b) == b \in s.node.known

----------------------------------------------------------------------------
(* Pieces of the handlers: each takes the state and returns the new one.   *)

Trigger(s) == [s EXCEPT !.node.fetch_due = TRUE]
Abort(s, failed) == [s EXCEPT !.node.aborted = @ \/ failed]

\* get_blockchain_synopsis: the head, then 1, 2, 4, ... blocks below it.
ChainSynopsis(head) ==
    IF head = Genesis
    THEN <<Genesis>>
    ELSE Selected(ChainTo(head),
                  {n \in 1 .. Len(head) : n = Len(head) \/ \E k \in 0 .. Len(head) : Len(head) - n = 2 ^ k})

\* The distances from the highest block at which the synopsis loop samples.
SampledAt[d \in Nat] == IF d = 0 THEN {0} ELSE {d} \cup SampledAt[(d - 1) \div 2]

\* create_blockchain_synopsis_for_peer
Synopsis(s, p) ==
    LET todo == s.peer[p].ids_of_items_to_get
        top  == s.peer[p].last_block_number_delegate_has_seen + Len(todo)
    IN  ChainSynopsis(s.node.head) \o
        IF todo = <<>>
        THEN <<>>
        ELSE Selected(todo, {i \in DOMAIN todo : Len(todo) - i \in SampledAt[top - 1]})

FetchNextBatch(s, p) ==
    [s EXCEPT !.peer[p].item_ids_requested_from_peer = Synopsis(s, p)]

StartSynchronizing(s, p) ==
    FetchNextBatch(
        [s EXCEPT !.peer[p].ids_of_items_to_get = <<>>,
                  !.peer[p].number_of_unfetched_item_ids = 0,
                  !.peer[p].we_need_sync_items_from_peer = TRUE,
                  !.peer[p].last_block_delegate_has_seen = Genesis,
                  !.peer[p].last_block_number_delegate_has_seen = 0,
                  !.peer[p].inhibit_fetching_sync_blocks = FALSE], p)

\* disconnect_from_peer: the peer is asked to close, its answers still count.
Disconnect(s, p) == [s EXCEPT !.peer[p].list = "closing"]

\* A loop over peers whose body changes the one peer it is at.
ForEach(s, ps, Op(_, _)) ==
    [s EXCEPT !.peer = [p \in Peers |-> IF p \in ps THEN Op(s, p).peer[p] ELSE s.peer[p]]]

\* Mutant: what was asked from the lost peer is still taken to be on its way.
ConnectionClosed_keeps_requests(s, p) ==
    [s EXCEPT !.peer[p] = Gone, !.node.fetch_due = TRUE, !.node.items_due = TRUE]

\* on_connection_closed: what was asked from the peer may be asked again.
ConnectionClosed(s, p) ==
    LET asked == Range(s.peer[p].sync_items_requested_from_peer)
        left  == [s EXCEPT !.peer[p] = Gone]
        again == SetToSeq({b \in s.peer[p].items_requested_from_peer \ Range(s.node.items_to_fetch) :
                             \E q \in Active(left) : b \in s.peer[q].inventory_peer_advertised_to_us})
    IN  [left EXCEPT !.node.active_sync_requests = @ \ asked,
                     !.node.fetch_due = @ \/ asked # {},
                     !.node.items_to_fetch = @ \o again,
                     !.node.items_due = @ \/ s.peer[p].items_requested_from_peer # {}]

Accepted(n, b) ==
    [n EXCEPT !.most_recent =
        LET all == Append(@, b)
        IN  SubSeq(all, IF Len(all) > RecentCapacity THEN Len(all) - RecentCapacity + 1 ELSE 1,
                   Len(all))]

\* push_block: refused unless its previous block is known, kept on its fork
\* unless it is higher than the head.
Pushable(n, b) == Front(b) \in n.known \cup {Genesis}
Pushed(n, b) ==
    [n EXCEPT !.known = @ \cup {b}, !.head = IF Len(b) > Len(@) THEN b ELSE @]

\* Mutant: the ids after the last block of the synopsis the peer knows.
ItemIds_after(r, synopsis) ==
    LET recognised == {i \in DOMAIN synopsis : synopsis[i] \in r.known \cup {Genesis}}
        last  == IF recognised = {} THEN Genesis ELSE synopsis[Max(recognised)]
        first == Len(last) + 1
        end   == Min({Len(r.head), first + Limit - 1})
    IN  [items |-> SubSeq(ChainTo(r.head), first, end), remaining |-> Len(r.head) - end]

\* get_item_ids at the peer: the ids from the last block of the synopsis it
\* knows, on its own preferred chain, and how many follow them.
ItemIds(r, synopsis) ==
    LET recognised == {i \in DOMAIN synopsis : synopsis[i] \in r.known \cup {Genesis}}
        last  == IF recognised = {} THEN Genesis ELSE synopsis[Max(recognised)]
        first == Max({1, Len(last)})
        end   == Min({Len(r.head), first + Limit - 1})
    IN  [items |-> SubSeq(ChainTo(r.head), first, end), remaining |-> Len(r.head) - end]

\* on_fetch_blockchain_item_ids_message: whether the asker still needs items.
StillNeeds(items, synopsis) ==
    ~ (items = <<>> \/ (Len(items) = 1 /\ items[1] \in Range(synopsis)))

\* The blocks at the front of a new list that the delegate has seen are dropped,
\* unless another peer still waits for the first of them.
FlushSeen(s, p, items) ==
    LET other == \E q \in Active(s) \ {p} :
                   /\ s.peer[q].ids_of_items_to_get # <<>>
                   /\ Head(s.peer[q].ids_of_items_to_get) = items[1]
        seen  == IF other THEN 0
                 ELSE Max({n \in 0 .. Len(items) : \A i \in 1 .. n : HasItem(s, items[i])})
    IN  [items |-> SubSeq(items, seen + 1, Len(items)),
         s |-> IF seen = 0 THEN s
               ELSE [s EXCEPT !.peer[p].last_block_delegate_has_seen = items[seen],
                              !.peer[p].last_block_number_delegate_has_seen = @ + seen]]

\* A list that continues an older one: the older one is cut before the block
\* the new one starts with, or is dropped when that block is not in it.
Continue(s, p, items) ==
    LET old == s.peer[p].ids_of_items_to_get
        at  == {i \in DOMAIN old : old[i] = items[1]}
    IN  IF at # {}
        THEN [items |-> items,
              s |-> Abort([s EXCEPT !.peer[p].ids_of_items_to_get = SubSeq(old, 1, Max(at) - 1)],
                          Max(at) > 1 /\ old[Max(at) - 1] = items[1])]
        ELSE [items |-> Tail(items),
              s |-> Abort([s EXCEPT !.peer[p].ids_of_items_to_get = <<>>,
                                    !.peer[p].last_block_delegate_has_seen = items[1],
                                    !.peer[p].last_block_number_delegate_has_seen = Len(items[1])],
                          ~ HasItem(s, items[1]))]

Merge(s, p, items) ==
    CASE items = <<>> -> [items |-> items, s |-> s]
      [] items # <<>> /\ s.peer[p].ids_of_items_to_get = <<>> -> FlushSeen(s, p, items)
      [] OTHER -> Continue(s, p, items)

\* Mutant: as many blocks as can exist are already too many.
Implausible_equal(s, p, remaining) ==
    LET seen == s.peer[p].last_block_delegate_has_seen
        now  == BlockInterval * Max({Len(b) : b \in UNION {remote[q].known : q \in Peers} \cup {Genesis}})
    IN  /\ seen # Genesis
        /\ BlockInterval * Len(seen) + remaining * MaxBlockInterval >= now + GracePeriod

\* More blocks offered than can exist by now?  A block that is not known has
\* the lowest of all times.
Implausible(s, p, remaining) ==
    LET seen == s.peer[p].last_block_delegate_has_seen
        now  == BlockInterval * Max({Len(b) : b \in UNION {remote[q].known : q \in Peers} \cup {Genesis}})
    IN  /\ seen # Genesis
        /\ BlockInterval * Len(seen) + remaining * MaxBlockInterval > now + GracePeriod

UpToDate(s, p, items, remaining) ==
    /\ remaining = 0
    /\ items = <<>> \/ (Len(items) = 1 /\ HasItem(s, items[1]))
    /\ s.peer[p].ids_of_items_to_get = <<>>
    /\ s.peer[p].number_of_unfetched_item_ids = 0

\* Mutant: a list that is complete does not wake the loop that fetches blocks.
FetchBlocksOrIds_silent(s, p, remaining) ==
    LET todo == s.peer[p].ids_of_items_to_get
    IN  IF (remaining # 0 /\ Len(todo) > MinPrefetch) \/ (remaining = 0 /\ todo # <<>>)
        THEN s
        ELSE FetchNextBatch(s, p)

\* The list is complete, or long enough: fetch blocks; otherwise fetch more ids.
FetchBlocksOrIds(s, p, remaining) ==
    LET todo == s.peer[p].ids_of_items_to_get
    IN  IF (remaining # 0 /\ Len(todo) > MinPrefetch) \/ (remaining = 0 /\ todo # <<>>)
        THEN Trigger(s)
        ELSE FetchNextBatch(s, p)

\* on_blockchain_item_ids_inventory_message
OnItemIds(s0, p, items, remaining) ==
    LET s == [s0 EXCEPT !.peer[p].item_ids_requested_from_peer = NoRequest]
        m == Merge(s, p, items)
        t == [m.s EXCEPT !.peer[p].ids_of_items_to_get = @ \o m.items,
                         !.peer[p].number_of_unfetched_item_ids = remaining]
    IN  CASE UpToDate(s, p, items, remaining) ->
               [s EXCEPT !.peer[p].we_need_sync_items_from_peer = FALSE]
          [] Implausible(t, p, remaining) -> Disconnect(t, p)
          [] OTHER -> FetchBlocksOrIds(t, p, remaining)

\* on_fetch_blockchain_item_ids_message at this node, for a peer that asks.
OnFetchIds(s, p, synopsis) ==
    LET reply == ItemIds(s.node, synopsis)
        needs == StillNeeds(reply.items, synopsis)
        t == [s EXCEPT !.peer[p].peer_needs_sync_items_from_us = needs]
        u == IF ~ t.peer[p].we_need_sync_items_from_peer /\ ~ HasItem(s, Last(synopsis))
             THEN StartSynchronizing(t, p) ELSE t
    IN  IF ~ needs /\ reply.items # <<>> /\ s.peer[p].inhibit_fetching_sync_blocks
        THEN Disconnect(u, p) ELSE u

\* One iteration of process_backlog_of_sync_blocks: the first stored block that
\* heads some list leaves all the lists it heads and is handed over, unless it
\* was accepted already.
Heads(s, b) == {p \in Active(s) : /\ s.peer[p].ids_of_items_to_get # <<>>
                                  /\ Head(s.peer[p].ids_of_items_to_get) = b}

PopFrom(s, ps, b) ==
    [s EXCEPT !.peer = [p \in Peers |->
        IF p \in ps THEN [s.peer[p] EXCEPT !.ids_of_items_to_get = Tail(@),
                                           !.ids_of_items_being_processed = @ \cup {b}]
        ELSE s.peer[p]]]

InProgress(s) ==
    Cardinality({i \in DOMAIN s.node.handling : s.node.handling[i].from = {}})
    + Cardinality({i \in DOMAIN s.node.handled : s.node.handled[i].from = {}})

\* Mutant: blocks are handed over in the order they arrived in.
BacklogStep_as_received(s) ==
    IF s.done \/ s.node.received = <<>> THEN [s EXCEPT !.done = TRUE]
    ELSE LET b == Head(s.node.received)
             t == PopFrom(s, Heads(s, b), b)
         IN  [t EXCEPT !.node.received = Tail(@),
                       !.node.handling = Append(@, [block |-> b, from |-> {}]),
                       !.done = InProgress(t) + 1 >= MaxHandling]

BacklogStep(s) ==
    LET ready == {i \in DOMAIN s.node.received : Heads(s, s.node.received[i]) # {}}
        i     == Min(ready)
        b     == s.node.received[i]
        t     == PopFrom(s, Heads(s, b), b)
    IN  CASE s.done -> s
          [] ~ s.done /\ ready = {} -> [s EXCEPT !.done = TRUE]
          [] ~ s.done /\ ready # {} /\ b \in Range(s.node.most_recent) -> [t EXCEPT !.done = TRUE]
          [] OTHER -> [t EXCEPT !.node.received = RemoveAt(@, i),
                                !.node.handling = Append(@, [block |-> b, from |-> {}]),
                                !.done = InProgress(t) + 1 >= MaxHandling]

Backlog(s) ==
    LET n0 == [s.node EXCEPT !.received = s.node.new_received \o @, !.new_received = <<>>,
                             !.suspended = FALSE, !.backlog_due = FALSE]
        s0 == [node |-> n0, peer |-> s.peer, done |-> FALSE]
        t  == FoldLeft(LAMBDA acc, x : BacklogStep(acc), s0, n0.received \o <<Genesis>>)
        suspend == InProgress(t) >= MaxHandling /\ Len(t.node.received) >= MaxPrefetch
    IN  [node |-> [t.node EXCEPT !.suspended = suspend, !.fetch_due = @ \/ ~ suspend],
         peer |-> t.peer]

\* Mutant: a peer whose list has come to its end is not asked for more.
SyncBlockAccepted_no_more(s, b) ==
    [s EXCEPT !.peer = [p \in Peers |->
        IF p \in Active(s)
        THEN [s.peer[p] EXCEPT !.last_block_delegate_has_seen = b,
                               !.last_block_number_delegate_has_seen = Len(b),
                               !.ids_of_items_being_processed = @ \ {b}]
        ELSE s.peer[p]]]

\* send_sync_block_to_node_delegate after the chain accepted the block.
SyncBlockAccepted(s, b) ==
    LET nothing_listed == {p \in Active(s) : /\ s.peer[p].ids_of_items_to_get = <<>>
                                             /\ s.peer[p].ids_of_items_being_processed = {}}
        to_sync == {p \in nothing_listed : /\ ~ s.peer[p].peer_needs_sync_items_from_us
                                           /\ ~ s.peer[p].we_need_sync_items_from_peer}
        offered == {p \in Active(s) \ nothing_listed : b \in s.peer[p].ids_of_items_being_processed}
        t == [s EXCEPT !.peer = [p \in Peers |->
                IF p \in offered
                THEN [s.peer[p] EXCEPT !.last_block_delegate_has_seen = b,
                                       !.last_block_number_delegate_has_seen = Len(b),
                                       !.ids_of_items_being_processed = @ \ {b}]
                ELSE s.peer[p]]]
        newly_empty == {p \in offered : /\ t.peer[p].ids_of_items_to_get = <<>>
                                        /\ t.peer[p].number_of_unfetched_item_ids = 0
                                        /\ t.peer[p].ids_of_items_being_processed = {}}
    IN  ForEach(ForEach(t, newly_empty, FetchNextBatch), to_sync, StartSynchronizing)

\* ... and after it refused it.
SyncBlockRejected(s, b) ==
    ForEach(s, {p \in Active(s) : b \in s.peer[p].ids_of_items_being_processed}, Disconnect)

\* process_block_during_normal_operation once the chain has the block: the
\* peers in sync that did not advertise it are told of it.
NormalBlockAccepted(s, b) ==
    LET tell(r) ==
            CASE r.list # "active" -> r
              [] r.list = "active" /\ b \in r.inventory_peer_advertised_to_us ->
                   [r EXCEPT !.last_block_delegate_has_seen = b,
                             !.last_block_number_delegate_has_seen = Len(b)]
              [] OTHER -> [r EXCEPT !.inventory_advertised_to_peer =
                                        IF r.peer_needs_sync_items_from_us THEN @ ELSE @ \cup {b}]
    IN  [s EXCEPT !.node = Accepted(@, b), !.peer = [p \in Peers |-> tell(s.peer[p])]]

NormalBlockRejected(s, b) == ForEach(s, Heads(s, b), Disconnect)

TriggerItemsIfIdle(s, p) == [s EXCEPT !.node.items_due = @ \/ Idle(s, p)]

\* process_block_message, for a block asked for while synchronizing.
OnSyncBlock(s, p, b) ==
    LET t == [s EXCEPT !.peer[p].sync_items_requested_from_peer = Tail(@),
                       !.node.active_sync_requests = @ \ {b},
                       !.node.new_received = Append(@, b),
                       !.node.backlog_due = TRUE]
    IN  CASE ~ Idle(t, p) -> t
          [] Idle(t, p) /\ t.peer[p].number_of_unfetched_item_ids > 0
                        /\ Len(t.peer[p].ids_of_items_to_get) < MinPrefetch -> FetchNextBatch(t, p)
          [] OTHER -> Trigger(t)

\* process_block_message, for a block that was advertised: unless it was accepted
\* lately the handler waits for the chain thread.
OnNormalBlock(s, p, b) ==
    LET t == [s EXCEPT !.peer[p].items_requested_from_peer = @ \ {b}]
    IN  IF b \in Range(s.node.most_recent)
        THEN TriggerItemsIfIdle(NormalBlockAccepted(t, b), p)
        ELSE [t EXCEPT !.node.handling = Append(@, [block |-> b, from |-> {p}])]

\* on_item_not_available_message, for a sync item.
OnItemNotAvailable(s, p) ==
    LET t == [s EXCEPT !.peer[p].sync_items_requested_from_peer = Tail(@)]
    IN  Trigger(IF t.peer[p].peer_needs_sync_items_from_us
                THEN [t EXCEPT !.peer[p].inhibit_fetching_sync_blocks = TRUE]
                ELSE Disconnect(t, p))

\* on_item_ids_inventory_message, of one block.
OnInventory(s, p, b) ==
    IF \E q \in Active(s) : b \in s.peer[q].inventory_advertised_to_peer
    THEN s
    ELSE LET asked == \E q \in Active(s) : b \in s.peer[q].items_requested_from_peer
             t == [s EXCEPT !.peer[p].inventory_peer_advertised_to_us = @ \cup {b}]
         IN  IF asked \/ b \in Range(s.node.items_to_fetch) THEN t
             ELSE [t EXCEPT !.node.items_to_fetch = Append(@, b), !.node.items_due = TRUE]

----------------------------------------------------------------------------
(* The fibers of the node.                                                 *)

State == [node |-> node, peer |-> peer]
Becomes(next) == ~ node.aborted /\ \E s \in {next} : node' = s.node /\ peer' = s.peer

\* The handler of a message of p that waits for the chain thread.
Reading(p) == \E i \in DOMAIN node.handling : p \in node.handling[i].from
Resuming(p) == \E i \in DOMAIN node.handled : p \in node.handled[i].from
CanRead(p) == Connected(p) /\ ~ Reading(p) /\ ~ Resuming(p)

\* Queries of the delegate are answered behind the blocks queued before them.
ChainIdle == node.handling = <<>>

\* An iteration of fetch_sync_items_loop, over the peers in some order.
RequestFrom(s, p) ==
    LET todo == s.peer[p].ids_of_items_to_get
        have == Range(s.node.received) \cup Range(s.node.new_received)
        free == Selected(todo, {i \in DOMAIN todo : todo[i] \notin have \cup s.node.active_sync_requests})
        ask  == SubSeq(free, 1, Min({Len(free), MaxPerPeer}))
    IN  IF /\ s.peer[p].we_need_sync_items_from_peer
           /\ Idle(s, p)
           /\ ~ s.peer[p].inhibit_fetching_sync_blocks
        THEN [s EXCEPT !.peer[p].sync_items_requested_from_peer = ask,
                       !.node.active_sync_requests = @ \cup Range(ask)]
        ELSE s

fetch_sync_items_loop ==
    /\ node.fetch_due
    /\ \E order \in SetToSeqs(Active(State)) :
         LET s == [State EXCEPT !.node.fetch_due = FALSE]
         IN  Becomes(IF node.suspended THEN s ELSE FoldLeft(RequestFrom, s, order))
    /\ UNCHANGED <<remote, losses>>

\* An iteration of fetch_items_loop: every item goes to the first idle peer
\* that advertised it.
FetchItem(s, b, order) ==
    LET holders == {i \in DOMAIN order : /\ Idle(s, order[i])
                                         /\ b \in s.peer[order[i]].inventory_peer_advertised_to_us}
        todo == s.node.items_to_fetch
    IN  IF holders = {} THEN s
        ELSE [s EXCEPT !.peer[order[Min(holders)]].items_requested_from_peer = {b},
                       !.node.items_to_fetch = Selected(todo, {i \in DOMAIN todo : todo[i] # b})]

fetch_items_loop ==
    /\ node.items_due
    /\ \E order \in SetToSeqs(Active(State)) :
         Becomes(FoldLeft(LAMBDA s, b : FetchItem(s, b, order),
                          [State EXCEPT !.node.items_due = FALSE],
                          node.items_to_fetch))
    /\ UNCHANGED <<remote, losses>>

process_backlog_of_sync_blocks ==
    /\ node.backlog_due
    /\ Becomes(IF InProgress(State) >= MaxHandling
               THEN [State EXCEPT !.node.backlog_due = FALSE]
               ELSE Backlog(State))
    /\ UNCHANGED <<remote, losses>>

\* The chain thread: handle_block.
handle_block ==
    /\ node.handling # <<>>
    /\ LET e  == Head(node.handling)
           ok == Pushable(node, e.block)
           n  == IF ok THEN Pushed(node, e.block) ELSE node
       IN  node' = [n EXCEPT !.handling = Tail(@),
                             !.handled = Append(@, [block |-> e.block, from |-> e.from, ok |-> ok])]
    /\ UNCHANGED <<peer, remote, losses>>

\* The fiber that waited for the chain goes on.
BlockHandled ==
    /\ node.handled # <<>>
    /\ LET e == Head(node.handled)
           n == [node EXCEPT !.handled = Tail(@)]
           s == [State EXCEPT !.node = IF e.ok THEN Accepted(n, e.block) ELSE n]
           after == IF e.from = {}
                    THEN IF e.ok THEN SyncBlockAccepted(s, e.block) ELSE SyncBlockRejected(s, e.block)
                    ELSE IF e.ok THEN NormalBlockAccepted(s, e.block) ELSE NormalBlockRejected(s, e.block)
       IN  Becomes(IF e.from = {}
                   THEN [after EXCEPT !.node.backlog_due = TRUE]
                   ELSE TriggerItemsIfIdle(after, CHOOSE p \in e.from : TRUE))
    /\ UNCHANGED <<remote, losses>>

----------------------------------------------------------------------------
(* The peers and what their messages cause.                                *)

\* new_peer_just_added, after the handshake.
CanConnect(p) == ~ Connected(p) /\ ChainIdle

Connect(p) ==
    /\ CanConnect(p)
    /\ Becomes(StartSynchronizing([State EXCEPT !.peer[p] = NewPeer], p))
    /\ remote' = [remote EXCEPT ![p].needs_items = TRUE, ![p].will_ask = TRUE]
    /\ UNCHANGED losses

\* blockchain_item_ids_inventory_message, with the peer's side of the answer.
CanAnswerIds(p) ==
    /\ CanRead(p) /\ ChainIdle
    /\ peer[p].item_ids_requested_from_peer # NoRequest
    /\ peer[p].items_requested_from_peer = {}

AnswerIds(p) ==
    LET synopsis == peer[p].item_ids_requested_from_peer
        reply == ItemIds(remote[p], synopsis)
    IN  /\ CanAnswerIds(p)
        /\ Becomes(OnItemIds(State, p, reply.items, reply.remaining))
        /\ remote' = [remote EXCEPT
             ![p].needs_items = StillNeeds(reply.items, synopsis),
             ![p].will_ask = @ \/ Last(synopsis) \notin remote[p].known]
        /\ UNCHANGED losses

CanAnswerSyncItem(p) == CanRead(p) /\ peer[p].sync_items_requested_from_peer # <<>>

AnswerSyncItem(p) ==
    /\ CanAnswerSyncItem(p)
    /\ LET b == Head(peer[p].sync_items_requested_from_peer)
       IN  Becomes(IF b \in remote[p].lacks THEN OnItemNotAvailable(State, p)
                   ELSE OnSyncBlock(State, p, b))
    /\ UNCHANGED <<remote, losses>>

CanAnswerItem(p) == CanRead(p) /\ peer[p].items_requested_from_peer # {}

AnswerItem(p) ==
    /\ CanAnswerItem(p)
    /\ \E b \in peer[p].items_requested_from_peer : Becomes(OnNormalBlock(State, p, b))
    /\ UNCHANGED <<remote, losses>>

\* fetch_blockchain_item_ids_message from the peer.
CanAsk(p) == CanRead(p) /\ ChainIdle /\ remote[p].will_ask

PeerAsks(p) ==
    /\ CanAsk(p)
    /\ Becomes(OnFetchIds(State, p, ChainSynopsis(remote[p].head)))
    /\ remote' = [remote EXCEPT ![p].will_ask = FALSE]
    /\ UNCHANGED losses

\* The peer gets a block.  A peer that takes us to be in sync advertises it, or
\* asks us for our ids when it got the block by synchronizing itself.  A question
\* it has sent before arrives before.
PeerLearns(p, b) ==
    /\ ~ remote[p].will_ask
    /\ b \notin remote[p].known /\ Front(b) \in remote[p].known \cup {Genesis}
    /\ LET r == [remote[p] EXCEPT !.known = @ \cup {b},
                                  !.head = IF Len(b) > Len(@) THEN b ELSE @]
       IN  \/ /\ Connected(p) => remote[p].needs_items
              /\ remote' = [remote EXCEPT ![p] = r]
              /\ UNCHANGED <<node, peer>>
           \/ /\ Advertises /\ CanRead(p) /\ ~ remote[p].needs_items
              /\ remote' = [remote EXCEPT ![p] = r]
              /\ Becomes(OnInventory(State, p, b))
           \/ /\ Connected(p) /\ ~ remote[p].needs_items
              /\ remote' = [remote EXCEPT ![p] = [r EXCEPT !.will_ask = TRUE]]
              /\ UNCHANGED <<node, peer>>
    /\ UNCHANGED losses

\* The connection breaks, or the peer is cut off for not answering in time.
ConnectionLost(p) ==
    /\ CanRead(p) /\ losses < MaxLosses
    /\ Becomes(ConnectionClosed(State, p))
    /\ losses' = losses + 1
    /\ remote' = [remote EXCEPT ![p].will_ask = FALSE]

\* The peer closes the connection as it was asked to.
CanClose(p) == CanRead(p) /\ peer[p].list = "closing"

PeerCloses(p) ==
    /\ CanClose(p)
    /\ Becomes(ConnectionClosed(State, p))
    /\ remote' = [remote EXCEPT ![p].will_ask = FALSE]
    /\ UNCHANGED losses

Next ==
    \/ fetch_sync_items_loop
    \/ fetch_items_loop
    \/ process_backlog_of_sync_blocks
    \/ handle_block
    \/ BlockHandled
    \/ \E p \in Peers :
         \/ Connect(p)
         \/ AnswerIds(p)
         \/ AnswerSyncItem(p)
         \/ AnswerItem(p)
         \/ PeerAsks(p)
         \/ ConnectionLost(p)
         \/ PeerCloses(p)
         \/ \E b \in Blocks : PeerLearns(p, b)

\* The loops run when they are triggered, the chain thread works off its queue, a
\* connected peer answers (or its connection is lost) and is connected again.
\* Each disjunction is weak fairness of an action, with the condition that
\* enables it written out.
Fairness ==
    /\ []<>(~ node.fetch_due) \/ []<><<fetch_sync_items_loop>>_vars
    /\ []<>(~ node.items_due) \/ []<><<fetch_items_loop>>_vars
    /\ []<>(~ node.backlog_due) \/ []<><<process_backlog_of_sync_blocks>>_vars
    /\ WF_vars(handle_block)
    /\ []<>(~ (node.handled # <<>>)) \/ []<><<BlockHandled>>_vars
    /\ \A p \in Peers :
         /\ []<>(~ CanConnect(p)) \/ []<><<Connect(p)>>_vars
         /\ []<>(~ CanAnswerIds(p)) \/ []<><<AnswerIds(p)>>_vars
         /\ []<>(~ CanAnswerSyncItem(p)) \/ []<><<AnswerSyncItem(p)>>_vars
         /\ []<>(~ CanAnswerItem(p)) \/ []<><<AnswerItem(p)>>_vars
         /\ []<>(~ CanAsk(p)) \/ []<><<PeerAsks(p)>>_vars
         /\ []<>(~ CanClose(p)) \/ []<><<PeerCloses(p)>>_vars

Spec == Init /\ [][Next]_vars /\ Fairness
=============================================================================
