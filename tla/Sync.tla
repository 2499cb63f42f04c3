-------------------------------- MODULE Sync --------------------------------
(***************************************************************************)
(* How a node catches up with its peers (net/node.cpp).  It asks each peer *)
(* for the ids of the blocks it is missing, spreads the requests for the   *)
(* blocks over the peers, collects what arrives in any order and hands the *)
(* blocks to the application in the order of the chain.                    *)
(*                                                                         *)
(* The network code runs in a thread of its own, as cooperative tasks that *)
(* run in the order in which they become ready.  Each call of the          *)
(* application (the "delegate") suspends the task: it is queued for the    *)
(* main thread, executed there in the order of the queue, and makes the    *)
(* task ready again.  A step of the network thread is what a task does     *)
(* between two such calls.  Peers are honest: each is on one chain at a    *)
(* time, may get a longer one, and answers from the chain it is on.        *)
(***************************************************************************)
EXTENDS Synopsis, SequencesExt

CONSTANTS
    Peers,          \* numbers: the order in which std::set visits them
    OurHead,        \* the chain we start with
    PeerHeads,      \* the chain each peer starts with
    LaterHeads,     \* the chains each peer may get
    MinIds,         \* GRAPHENE_NET_MIN_BLOCK_IDS_TO_PREFETCH
    PerPeer,        \* _maximum_blocks_per_peer_during_syncing
    MaxHandled,     \* _maximum_number_of_blocks_to_handle_at_one_time
    MaxPrefetch,    \* _maximum_number_of_sync_blocks_to_prefetch
    CountModulus,   \* 2 ^ 32: _total_number_of_unfetched_items is a uint32_t
    MaxEvents       \* bound on the events below: new chains of peers, requests
                    \* of peers for our ids and blocks, connections lost

ASSUME SyncAssumption == IsFiniteSet(Peers) /\ Peers \subseteq Nat /\ MaxHandled \in Nat

VARIABLES
    n,      \* the state of node_impl and of the application behind it
    from,   \* messages on their way from each peer
    peer,   \* the peers: their head, and do they think we are in sync?
    used    \* the number of those events so far

vars == <<n, from, peer, used>>

NoIds == <<NoBlock>>    \* an empty optional

\* a task: "op" is the call of the application it makes or where it starts,
\* with the arguments; "by" the kind of task, "more" what it has still to do,
\* "ok" the result of the call
Call(op, p, by) == [op |-> op, p |-> p, by |-> by, b |-> NoBlock, ids |-> << >>,
                    left |-> 0, count |-> 0, more |-> << >>, ok |-> FALSE]

\* a new peer_connection
NewPeer == [status |-> "new", we_need |-> TRUE, peer_needs |-> TRUE,
            to_get |-> << >>, processing |-> {}, unfetched |-> 0,
            ids_requested |-> NoIds, sync_requested |-> {}, requested |-> {},
            offered |-> {}, last_seen |-> NoBlock]

Ancestors(h) == {BlockAt(h, i) : i \in 1 .. h[1]}

Init == /\ n = [head |-> OurHead, known |-> Ancestors(OurHead), accepted |-> {},
                active_requests |-> {}, to_fetch |-> {}, advertised |-> {},
                received |-> << >>, fresh |-> << >>, suspend |-> FALSE, total |-> 0,
                backlog |-> "idle", fetch |-> FALSE, items |-> FALSE,
                main |-> << >>, ready |-> << >>, handles |-> 0,
                conn |-> [p \in Peers |-> NewPeer],
                to |-> [p \in Peers |-> << >>]]
        /\ from = [p \in Peers |-> << >>]
        /\ peer = [p \in Peers |-> [head |-> PeerHeads[p], in_sync |-> FALSE]]
        /\ used = 0

-----------------------------------------------------------------------------
(* Operations on the state of the node: each maps a state to the next.     *)

Active(s) == {p \in Peers : s.conn[p].status = "active"}

Calls(s) == Range(s.main) \cup Range(s.ready)

idle(s, p) == /\ s.conn[p].ids_requested = NoIds
              /\ s.conn[p].sync_requested = {}
              /\ s.conn[p].requested = {}

\* is the read loop of the peer in the middle of a message?
is_currently_handling_message(s, p) ==
    \E c \in Calls(s) : c.by = "handler" /\ c.p = p /\ c.op # "message"

\* calls of send_sync_block_to_node_delegate that have not returned; they are
\* removed from _handle_message_calls_in_progress ("handles") only when the
\* backlog is processed
InProgress(s) == Len(SelectSeq(s.main \o s.ready, LAMBDA c : c.by = "sync"))

\* a call of the application, and a task of the network thread
post(s, c) == [s EXCEPT !.main = Append(@, c)]
async(s, c) == [s EXCEPT !.ready = Append(@, c)]

send_message(s, p, m) ==
    IF s.conn[p].status = "closed" THEN s ELSE [s EXCEPT !.to[p] = Append(@, m)]

trigger_fetch_sync_items_loop(s) ==
    IF s.fetch THEN s ELSE async([s EXCEPT !.fetch = TRUE], Call("fetch", 0, "loop"))

trigger_fetch_items_loop(s) ==
    IF s.items THEN s ELSE async([s EXCEPT !.items = TRUE], Call("items", 0, "loop"))

trigger_process_backlog_of_sync_blocks(s) ==
    IF s.backlog # "idle" THEN s
    ELSE async([s EXCEPT !.backlog = "scheduled"], Call("backlog", 0, "backlog"))

\* on_connection_closed runs once: a task that still visits a connection it
\* has closed finds it closed
disconnect_from_peer(s, p) ==
    IF s.conn[p].status = "closed" THEN s ELSE [s EXCEPT !.conn[p].status = "closing"]

\* up to the call of get_blockchain_synopsis, with what is saved before it
fetch_next_batch_of_item_ids_from_peer(s, c) ==
    post(s, [c EXCEPT !.op = "synopsis", !.b = s.conn[c.p].last_seen,
                      !.ids = s.conn[c.p].to_get])

\* up to the call of get_block_time
start_synchronizing_with_peer(s, c) ==
    post([s EXCEPT !.conn[c.p].to_get = << >>,
                   !.conn[c.p].unfetched = 0,
                   !.conn[c.p].we_need = TRUE,
                   !.conn[c.p].last_seen = NoBlock],
         [c EXCEPT !.op = "start"])

calculate_unsynced_block_count_from_all_peers(s) ==
    Max({0} \cup {Len(s.conn[p].to_get) + s.conn[p].unfetched : p \in Active(s)})

\* the end of process_backlog_of_sync_blocks
leave_backlog(s) ==
    LET t == [s EXCEPT !.backlog = "idle",
                       !.suspend = @ \/ (/\ s.handles >= MaxHandled
                                         /\ Len(s.received) >= MaxPrefetch)]
    IN  IF t.suspend THEN t ELSE trigger_fetch_sync_items_loop(t)

\* a task goes on with the next peer of its loops, or ends
finish(s, c) ==
    LET d == [c EXCEPT !.p = c.more[1][2], !.more = Tail(@)]
    IN  CASE c.more # << >> ->
               IF c.more[1][1] = "fetch" THEN fetch_next_batch_of_item_ids_from_peer(s, d)
               ELSE start_synchronizing_with_peer(s, d)
          [] c.more = << >> /\ c.by = "sync" -> trigger_process_backlog_of_sync_blocks(s)
          [] c.more = << >> /\ c.by = "backlog" -> leave_backlog(s)
          [] OTHER -> s

Ascending(numbers) == SetToSortSeq(numbers, LAMBDA i, j : i < j)

\* the peers a task will visit
Visits(kind, ps) ==
    LET order == Ascending(ps)
    IN  [i \in DOMAIN order |-> <<kind, order[i]>>]

-----------------------------------------------------------------------------
(* The answer of a peer to our request for ids.                            *)

IsValidAnswer(synopsis, ids) ==
    ids = << >> \/ IF synopsis = << >> THEN num_from_id(ids[1]) = 1
                   ELSE ids[1] \in Range(synopsis)

\* peers whose list has the block somewhere
Awaiting_any(s, b) == {p \in Active(s) : b \in Range(s.conn[p].to_get)}

\* peers whose list starts with the block
Awaiting(s, b) == {p \in Active(s) : s.conn[p].to_get # << >> /\ Head(s.conn[p].to_get) = b}

\* ids are dropped from the end of the list until the first of the answer
KeptPart(list, b) ==
    LET hits == {i \in DOMAIN list : list[i] = b}
    IN  IF hits = {} THEN << >> ELSE SubSeq(list, 1, Max(hits))

\* the end of the handler: more ids or the blocks are asked for
ids_appended(s, c) ==
    LET list == s.conn[c.p].to_get
    IN  IF IF c.left # 0 THEN Len(list) > MinIds ELSE list # << >>
        THEN trigger_fetch_sync_items_loop(s)
        ELSE fetch_next_batch_of_item_ids_from_peer(s, c)

\* the new ids are appended, the application hears of a new count
append_ids(s, c) ==
    LET t   == [s EXCEPT !.conn[c.p].to_get = @ \o c.ids]
        num == calculate_unsynced_block_count_from_all_peers(t)
    IN  IF num = s.total THEN ids_appended(t, c)
        ELSE post(t, [c EXCEPT !.op = "sync_status", !.count = num])

up_to_date(s, c) ==
    LET t   == [s EXCEPT !.conn[c.p].we_need = FALSE]
        num == calculate_unsynced_block_count_from_all_peers(t)
        u   == [t EXCEPT !.total = num]
    IN  IF num = 0 THEN post(u, [c EXCEPT !.op = "in_sync"]) ELSE u

\* the peer has more: flush what we have, or join the lists
more_ids(s, c) ==
    LET list == s.conn[c.p].to_get
        kept == KeptPart(list, c.ids[1])
        t    == [s EXCEPT !.conn[c.p].unfetched = c.left]
    IN  IF c.ids = << >> THEN append_ids(t, c)
        ELSE IF list = << >>
        THEN IF Awaiting(t, c.ids[1]) \ {c.p} # {} THEN append_ids(t, c)
             ELSE post(t, [c EXCEPT !.op = "flush"])
        ELSE IF kept = << >>
        THEN post([t EXCEPT !.conn[c.p].to_get = << >>,
                            !.conn[c.p].last_seen = c.ids[1]],
                  [c EXCEPT !.op = "rejoin", !.ids = Tail(@)])
        ELSE append_ids([t EXCEPT !.conn[c.p].to_get = Front(kept)], c)

\* the peer lacks blocks we have, going by our answer to its synopsis
PeerIsBehind(ids, synopsis) == ids # << >> /\ ~ (Len(ids) = 1 /\ ids[1] \in Range(synopsis))

NothingListed(c) == c.to_get = << >> /\ c.unfetched = 0

on_blockchain_item_ids_inventory_message(s, p, m) ==
    LET conn == s.conn[p]
        t    == [s EXCEPT !.conn[p].ids_requested = NoIds]
        c    == [Call("is_last", p, "handler") EXCEPT !.ids = m.ids, !.left = m.left]
    IN  CASE conn.ids_requested = NoIds -> s
          [] ~ IsValidAnswer(conn.ids_requested, m.ids) -> disconnect_from_peer(s, p)
          [] OTHER -> IF m.left = 0 /\ Len(m.ids) = 1 THEN post(t, c)
                      ELSE IF m.left = 0 /\ m.ids = << >> /\ NothingListed(conn)
                      THEN up_to_date(t, c)
                      ELSE more_ids(t, c)

-----------------------------------------------------------------------------
(* Blocks.                                                                 *)

\* handle_block: database::push_block, with the longest chain as the head
Linkable(s, b) == b \in s.known \/ b[1] = 1 \/ Parent(b) \in s.known

handle_block(s, b) ==
    IF Linkable(s, b)
    THEN [s EXCEPT !.known = @ \cup {b}, !.head = IF b[1] > @[1] THEN b ELSE @]
    ELSE s

\* items another peer has offered are fetched again
reschedule(s, bs) ==
    LET t == [s EXCEPT !.to_fetch = @ \cup {b \in bs : \E q \in Active(s) :
                                                           b \in s.conn[q].offered}]
    IN  IF bs = {} THEN s ELSE trigger_fetch_items_loop(t)

\* a block of normal operation is broadcast: advertised to the peers that
\* are in sync and did not offer it
normal_block_accepted(s, b) ==
    [s EXCEPT !.accepted = @ \cup {b},
              !.advertised = IF \E q \in Active(s) : /\ ~ s.conn[q].peer_needs
                                                    /\ b \notin s.conn[q].offered
                             THEN @ \cup {b} ELSE @,
              !.conn = [q \in Peers |-> IF q \in Active(s) /\ b \in s.conn[q].offered
                                       THEN [s.conn[q] EXCEPT !.last_seen = b]
                                       ELSE s.conn[q]]]

\* the end of process_block_message for a block of normal operation
TriggerIfIdle(s, p) == IF idle(s, p) THEN trigger_fetch_items_loop(s) ELSE s

process_block_during_normal_operation(s, p, b) ==
    IF b \in s.accepted THEN TriggerIfIdle(normal_block_accepted(s, b), p)
    ELSE post(s, [Call("handle_block", p, "handler") EXCEPT !.b = b])

process_block_during_sync(s, b) ==
    trigger_process_backlog_of_sync_blocks([s EXCEPT !.fresh = <<b>> \o @])

process_block_message(s, p, b) ==
    LET t == process_block_during_sync(
                [s EXCEPT !.conn[p].sync_requested = @ \ {b}, !.active_requests = @ \ {b}], b)
    IN  IF b \in s.conn[p].requested
        THEN process_block_during_normal_operation([s EXCEPT !.conn[p].requested = @ \ {b}], p, b)
        ELSE IF b \notin s.conn[p].sync_requested THEN disconnect_from_peer(s, p)
        ELSE IF ~ idle(t, p) THEN t
        ELSE IF t.conn[p].unfetched > 0 /\ Len(t.conn[p].to_get) < MinIds
        THEN fetch_next_batch_of_item_ids_from_peer(t, Call("synopsis", p, "handler"))
        ELSE trigger_fetch_sync_items_loop(t)

\* a peer whose blocks have all been pushed is asked for more ids
IsDry(c) == NothingListed(c) /\ c.processing = {}

Processed(s, b) == {p \in Active(s) : b \in s.conn[p].processing}

\* a signed count of the unfetched items
one_less_signed(total) == total - 1

\* --_total_number_of_unfetched_items
one_less(total) == (total - 1) % CountModulus

\* send_sync_block_to_node_delegate after handle_block has returned
sync_block_accepted(s, c) ==
    LET had    == Processed(s, c.b)
        t      == [s EXCEPT !.accepted = @ \cup {c.b},
                            !.total = one_less(@),
                            !.conn = [p \in Peers |->
                               IF p \in had
                               THEN [s.conn[p] EXCEPT !.processing = @ \ {c.b}, !.last_seen = c.b]
                               ELSE s.conn[p]]]
        dry    == {p \in had : IsDry(t.conn[p])}
        resync == {p \in Active(s) : /\ s.conn[p].to_get = << >>
                                     /\ s.conn[p].processing = {}
                                     /\ ~ s.conn[p].peer_needs
                                     /\ ~ s.conn[p].we_need}
    IN  finish(t, [c EXCEPT !.more = Visits("fetch", dry) \o Visits("start", resync)])

sync_block_refused(s, c) ==
    finish([s EXCEPT !.conn = [p \in Peers |->
                IF p \in Processed(s, c.b) THEN [s.conn[p] EXCEPT !.status = "closing"]
                ELSE s.conn[p]]], c)

\* in the backlog, a block accepted in the meantime is treated as accepted
treat_as_accepted(s, b) ==
    LET had == Processed(s, b)
        t   == [s EXCEPT !.backlog = "running",
                         !.conn = [p \in Peers |->
                    IF p \in had THEN [s.conn[p] EXCEPT !.processing = @ \ {b}] ELSE s.conn[p]]]
        dry == {p \in had : IsDry(t.conn[p])}
    IN  finish(t, [Call("backlog", 0, "backlog") EXCEPT !.more = Visits("fetch", dry)])

\* the received blocks that some peer's list starts with, and the first of them
ready_blocks(s) == {i \in DOMAIN s.received : Awaiting(s, s.received[i]) # {}}
next_block(s) == s.received[Min(ready_blocks(s))]

\* it moves from the lists of the peers to the blocks in processing ...
taken_from_lists(s, b) ==
    [s EXCEPT !.conn = [p \in Peers |->
        IF p \in Awaiting(s, b)
        THEN [s.conn[p] EXCEPT !.to_get = Tail(@), !.processing = @ \cup {b}]
        ELSE s.conn[p]]]

\* ... and a task pushes it
push_next(s) ==
    async([taken_from_lists(s, next_block(s)) EXCEPT
               !.received = RemoveAt(@, Min(ready_blocks(s))), !.handles = @ + 1],
          [Call("push", 0, "sync") EXCEPT !.b = next_block(s)])

\* nothing can be pushed, the block was accepted in the meantime, or the limit
\* is reached
leaves_loop(s) == \/ ready_blocks(s) = {}
                  \/ next_block(s) \in s.accepted
                  \/ s.handles + 1 >= MaxHandled

one_turn(s) == IF leaves_loop(s) THEN s ELSE push_next(s)

last_turn(s) ==
    IF ready_blocks(s) = {} THEN leave_backlog(s)
    ELSE IF next_block(s) \in s.accepted
    THEN treat_as_accepted(taken_from_lists(s, next_block(s)), next_block(s))
    ELSE leave_backlog(push_next(s))

\* the loop of process_backlog_of_sync_blocks: a turn adds one to the calls in
\* progress, so there are fewer than MaxHandled
backlog_loop(s) ==
    LET after[i \in 0 .. MaxHandled] == IF i = 0 THEN s ELSE one_turn(after[i - 1])
    IN  last_turn(after[MaxHandled])

\* have_already_received_sync_item alone
have_received(s) == Range(s.received) \cup Range(s.fresh)

\* the blocks that have arrived or are requested already
have_or_requested(s) == Range(s.received) \cup Range(s.fresh) \cup s.active_requests

\* what fetch_sync_items_loop asks one peer for: the first PerPeer places of its
\* list with a block that is missing
PlacesToRequest(s, p) ==
    LET list == s.conn[p].to_get
        want == {i \in DOMAIN list : /\ list[i] \notin have_or_requested(s)
                                     /\ list[i] \notin {list[j] : j \in 1 .. i - 1}}
    IN  IF s.conn[p].we_need /\ idle(s, p)
        THEN {i \in want : Cardinality({j \in want : j < i}) < PerPeer}
        ELSE {}

request_sync_items_from_peer(s, p) ==
    LET list   == s.conn[p].to_get
        places == PlacesToRequest(s, p)
        items  == {list[i] : i \in places}
        order  == Ascending(places)
    IN  IF places = {} THEN s
        ELSE send_message([s EXCEPT !.active_requests = @ \cup items,
                                    !.conn[p].sync_requested = @ \cup items],
                          p, [type |-> "items", ids |-> [i \in DOMAIN order |-> list[order[i]]]])

-----------------------------------------------------------------------------
(* The main thread executes the calls, the tasks go on.                    *)

\* the call and the state after it
Executed(s, c) ==
    CASE c.op = "handle_block" -> <<handle_block(s, c.b), [c EXCEPT !.ok = Linkable(s, c.b)]>>
      [] c.op \in {"is_last", "flush"} -> <<s, [c EXCEPT !.ok = c.ids[1] \in s.known]>>
      [] c.op = "has_item" -> <<s, [c EXCEPT !.ok = c.b \in s.known]>>
      [] c.op = "synopsis" ->
            <<s, IF TooOld(s.head, c.b) THEN c
                 ELSE [c EXCEPT !.ok = TRUE,
                                !.ids = create_blockchain_synopsis_for_peer(s.head, c.b, c.ids)]>>
      [] c.op = "get_block_ids" ->
            <<s, [c EXCEPT !.ok = PeerIsBehind(get_block_ids(s.head, c.ids), c.ids)]>>
      [] OTHER -> <<s, c>>

main_thread ==
    /\ n.main # << >>
    /\ LET r == Executed(n, Head(n.main)) IN
         n' = [r[1] EXCEPT !.main = Tail(@), !.ready = Append(@, r[2])]
    /\ UNCHANGED <<from, peer, used>>

\* the task that waited for call c goes on
Resumed(s, c) ==
    CASE c.op = "push" -> post(s, [c EXCEPT !.op = "handle_block"])
      [] c.op = "start" -> fetch_next_batch_of_item_ids_from_peer(s, c)
      [] c.op = "synopsis" ->
            finish(IF ~ c.ok THEN disconnect_from_peer(s, c.p)
                   ELSE send_message([s EXCEPT !.conn[c.p].ids_requested = c.ids],
                                     c.p, [type |-> "ids", ids |-> c.ids]), c)
      [] c.op = "is_last" -> IF c.ok /\ NothingListed(s.conn[c.p]) THEN up_to_date(s, c)
                             ELSE more_ids(s, c)
      [] c.op = "flush" ->
            IF c.ok THEN post([s EXCEPT !.conn[c.p].last_seen = c.ids[1]],
                              [c EXCEPT !.op = "flush_time", !.ids = Tail(@)])
            ELSE append_ids(s, c)
      [] c.op = "flush_time" -> IF c.ids # << >> THEN post(s, [c EXCEPT !.op = "flush"])
                                ELSE append_ids(s, c)
      [] c.op = "rejoin" -> append_ids(s, c)
      [] c.op = "sync_status" -> ids_appended([s EXCEPT !.total = c.count], c)
      [] c.op = "handle_block" /\ c.by = "sync" ->
            IF c.ok THEN sync_block_accepted(s, c) ELSE sync_block_refused(s, c)
      [] c.op = "handle_block" /\ c.by = "handler" ->
            IF c.ok THEN TriggerIfIdle(normal_block_accepted(s, c.b), c.p)
            ELSE start_synchronizing_with_peer(s, c)
      [] c.op = "get_block_ids" ->
            LET t == [s EXCEPT !.conn[c.p].peer_needs = c.ok]
            IN  IF ~ t.conn[c.p].we_need /\ c.ids # << >>
                THEN post(t, [c EXCEPT !.op = "has_item", !.b = Last(c.ids)])
                ELSE t
      [] c.op = "has_item" -> IF c.ok THEN s ELSE start_synchronizing_with_peer(s, c)
      [] OTHER -> s

-----------------------------------------------------------------------------
(* The tasks of the network thread.                                        *)

\* a peer advertises its head
on_item_ids_inventory_message(s, p, b) ==
    LET t == [s EXCEPT !.conn[p].offered = @ \cup {b}]
    IN  IF b \in s.advertised THEN s
        ELSE IF b \in s.to_fetch \/ \E q \in Active(s) : b \in s.conn[q].requested THEN t
        ELSE trigger_fetch_items_loop([t EXCEPT !.to_fetch = @ \cup {b}])

\* a peer asks for our ids; if its last block is new to us we synchronize
\* with it again
on_fetch_blockchain_item_ids_message(s, p, synopsis) ==
    post(s, [Call("get_block_ids", p, "handler") EXCEPT !.ids = synopsis])

\* a peer fetches one of our blocks, which becomes the last one we take it
\* to have seen
on_fetch_items_message(s, p, b) ==
    post([s EXCEPT !.conn[p].last_seen = b], Call("get_block_time", p, "handler"))

on_message(s, p, m) ==
    CASE m.type = "inventory" -> on_blockchain_item_ids_inventory_message(s, p, m)
      [] m.type = "block"     -> process_block_message(s, p, m.ids[1])
      [] m.type = "advert"    -> on_item_ids_inventory_message(s, p, m.ids[1])
      [] m.type = "ask_ids"   -> on_fetch_blockchain_item_ids_message(s, p, m.ids)
      [] m.type = "ask_block" -> on_fetch_items_message(s, p, m.ids[1])
      [] OTHER                -> s

process_backlog_of_sync_blocks(s) ==
    LET t == [s EXCEPT !.handles = InProgress(s)]
    IN  IF t.handles >= MaxHandled THEN [t EXCEPT !.backlog = "idle"]
        ELSE backlog_loop([t EXCEPT !.suspend = FALSE,
                                    !.received = Reverse(s.fresh) \o @,
                                    !.fresh = << >>])

\* the peers are visited in some order
fetch_sync_items_loop(s, order) ==
    LET t == [s EXCEPT !.fetch = FALSE]
        asked[i \in 0 .. Len(order)] ==
            IF i = 0 THEN t ELSE request_sync_items_from_peer(asked[i - 1], order[i])
    IN  IF s.suspend THEN t ELSE asked[Len(order)]

\* the items of normal operation that some idle peer offers
CanFetch(s, p, b) == p \in Active(s) /\ idle(s, p) /\ b \in s.conn[p].offered
Fetchable(s) == {b \in s.to_fetch : \E p \in Peers : CanFetch(s, p, b)}

\* each is requested from the peer f chooses
fetch_items_loop(s, f) ==
    LET mine(p) == {b \in DOMAIN f : f[b] = p}
    IN  [s EXCEPT !.items = FALSE,
                  !.to_fetch = @ \ DOMAIN f,
                  !.conn = [p \in Peers |-> [s.conn[p] EXCEPT !.requested = @ \cup mine(p)]],
                  !.to = [p \in Peers |->
                            IF mine(p) = {} THEN s.to[p]
                            ELSE Append(s.to[p], [type |-> "items", ids |-> SetToSeq(mine(p))])]]

\* the first task that is ready
network_thread ==
    /\ n.ready # << >>
    /\ LET c == Head(n.ready)
           s == [n EXCEPT !.ready = Tail(@)]
       IN  \/ \E p \in Peers :
                 /\ c = Call("message", p, "handler")
                 /\ n' = IF from[p] = << >> THEN s ELSE on_message(s, p, Head(from[p]))
                 /\ from' = IF from[p] = << >> THEN from ELSE [from EXCEPT ![p] = Tail(@)]
           \/ /\ c.op = "backlog"
              /\ n' = process_backlog_of_sync_blocks(s)
              /\ UNCHANGED from
           \/ /\ c.op = "fetch"
              /\ \E order \in SetToSeqs(Active(n)) : n' = fetch_sync_items_loop(s, order)
              /\ UNCHANGED from
           \/ /\ c.op = "items"
              /\ \E f \in [Fetchable(s) -> Peers] :
                   /\ \A b \in DOMAIN f : CanFetch(s, f[b], b)
                   /\ n' = fetch_items_loop(s, f)
              /\ UNCHANGED from
           \/ /\ c.op \notin {"message", "backlog", "fetch", "items"}
              /\ n' = Resumed(s, c)
              /\ UNCHANGED from
    /\ UNCHANGED <<peer, used>>

\* a message arrives for a read loop that waits for one
Arrive(p) ==
    /\ n.conn[p].status \in {"active", "closing"}
    /\ from[p] # << >>
    /\ ~ \E c \in Calls(n) : c.by = "handler" /\ c.p = p
    /\ n' = async(n, Call("message", p, "handler"))
    /\ UNCHANGED <<from, peer, used>>

new_peer_just_added(p) ==
    /\ n.conn[p].status = "new"
    /\ n' = start_synchronizing_with_peer([n EXCEPT !.conn[p].status = "active"],
                                          Call("start", p, "handler"))
    /\ UNCHANGED <<from, peer, used>>

\* the requests terminate_inactive_connections_loop looks at, and the state
\* in which it takes synchronization for stalled
HasStalled(s, p) == /\ s.conn[p].we_need
                    /\ ~ is_currently_handling_message(s, p)
                    /\ s.conn[p].ids_requested = NoIds
                    /\ s.conn[p].to_get = << >>

terminate_inactive_connections_loop(p) ==
    /\ p \in Active(n)
    /\ ~ idle(n, p) \/ HasStalled(n, p)
    /\ used < MaxEvents
    /\ n' = disconnect_from_peer(n, p)
    /\ used' = used + 1
    /\ UNCHANGED <<from, peer>>

\* the requests of the closed connection are forgotten
released_none(s, p) == s.active_requests
released(s, p) == s.active_requests \ s.conn[p].sync_requested

on_connection_closed(p) ==
    /\ n.conn[p].status \in {"active", "closing"}
    /\ ~ is_currently_handling_message(n, p)
    /\ n.conn[p].status = "closing" \/ used < MaxEvents
    /\ LET c == n.conn[p]
           s == [n EXCEPT !.conn[p].status = "closed",
                          !.active_requests = released(n, p),
                          !.to[p] = << >>]
           t == IF c.sync_requested = {} THEN s ELSE trigger_fetch_sync_items_loop(s)
       IN  n' = reschedule(t, c.requested)
    /\ from' = [from EXCEPT ![p] = << >>]
    /\ used' = IF n.conn[p].status = "closing" THEN used ELSE used + 1
    /\ UNCHANGED peer

-----------------------------------------------------------------------------
(* The peers.                                                              *)

\* a request is answered from the chain the peer is on
Serve(p) ==
    /\ n.to[p] # << >>
    /\ n' = [n EXCEPT !.to[p] = Tail(@)]
    /\ LET m   == Head(n.to[p])
           ids == get_block_ids(peer[p].head, m.ids)
       IN  \/ /\ m.type = "ids"
              /\ from' = [from EXCEPT ![p] = Append(@, [type |-> "inventory", ids |-> ids,
                            left |-> remaining_item_count(peer[p].head, ids)])]
              /\ peer' = [peer EXCEPT ![p].in_sync = ~ PeerIsBehind(ids, m.ids)]
           \/ /\ m.type = "items"
              /\ from' = [from EXCEPT ![p] = @ \o [i \in DOMAIN m.ids |->
                            [type |-> "block", ids |-> <<m.ids[i]>>, left |-> 0]]]
              /\ UNCHANGED peer
    /\ UNCHANGED used

\* the peer gets a longer chain, and advertises it if it thinks we are in sync
Switch(p) ==
    /\ n.conn[p].status = "active"
    /\ used < MaxEvents
    /\ \E h \in LaterHeads[p] :
         /\ h[1] > peer[p].head[1]
         /\ peer' = [peer EXCEPT ![p].head = h]
         /\ from' = IF ~ peer[p].in_sync THEN from
                    ELSE [from EXCEPT ![p] = Append(@, [type |-> "advert", ids |-> <<h>>, left |-> 0])]
    /\ used' = used + 1
    /\ UNCHANGED n

\* the peer synchronizes with us: it asks for ids and for blocks
Ask(p) ==
    /\ n.conn[p].status = "active"
    /\ used < MaxEvents
    /\ used' = used + 1
    /\ \/ from' = [from EXCEPT ![p] = Append(@, [type |-> "ask_ids", left |-> 0,
                                     ids |-> get_blockchain_synopsis(peer[p].head, NoBlock, 0)])]
       \/ /\ n.conn[p].peer_needs /\ n.head[1] > peer[p].head[1]
          /\ \E b \in Ancestors(n.head) \ Ancestors(peer[p].head) :
               from' = [from EXCEPT ![p] = Append(@, [type |-> "ask_block", ids |-> <<b>>,
                                                     left |-> 0])]
    /\ UNCHANGED <<n, peer>>

Next == \/ main_thread
        \/ network_thread
        \/ \E p \in Peers : \/ Arrive(p)
                            \/ new_peer_just_added(p)
                            \/ terminate_inactive_connections_loop(p)
                            \/ on_connection_closed(p)
                            \/ Serve(p)
                            \/ Switch(p)
                            \/ Ask(p)

Spec == Init /\ [][Next]_vars

-----------------------------------------------------------------------------
(* Properties.                                                             *)

\* Every part of the state has its type.
TypeOK ==
    /\ n.head \in n.known
    /\ n.accepted \subseteq n.known
    /\ n.backlog \in {"idle", "scheduled", "running"}
    /\ n.total \in 0 .. CountModulus - 1
    /\ used \in 0 .. MaxEvents
    /\ \A p \in Peers : /\ n.conn[p].status \in {"new", "active", "closing", "closed"}
                        /\ n.conn[p].unfetched \in Nat
                        /\ OnChain(peer[p].head, peer[p].head)

\* Blocks that arrive in any order from several peers are handed to the
\* application in an order it can link: the parent of each is pushed before
\* it.  So send_sync_block_to_node_delegate sees no block of an honest peer
\* refused.
HandedInOrder ==
    LET syncs(q) == SelectSeq(q, LAMBDA c : c.op = "handle_block" /\ c.by = "sync")
        queued   == syncs(n.main)
    IN  /\ \A i \in DOMAIN queued :
              \/ Linkable(n, queued[i].b)
              \/ \E j \in 1 .. i - 1 : queued[j].b = Parent(queued[i].b)
        /\ \A i \in DOMAIN syncs(n.ready) : syncs(n.ready)[i].ok

\* A block that counts as requested is on its way: some open connection
\* owes it to us.  Otherwise fetch_sync_items_loop would never ask for it
\* again.
RequestsAreOwed ==
    n.active_requests = UNION {n.conn[p].sync_requested :
                               p \in {q \in Peers : n.conn[q].status # "closed"}}

\* No block is requested for synchronization from two peers at once.
RequestedOnce ==
    \A p, q \in Peers :
        p # q /\ n.conn[p].status # "closed" /\ n.conn[q].status # "closed"
            => n.conn[p].sync_requested \cap n.conn[q].sync_requested = {}
=============================================================================
