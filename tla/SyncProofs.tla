----------------------------- MODULE SyncProofs -----------------------------
(***************************************************************************)
(* Proofs about Sync: the requests for blocks agree with what the          *)
(* connections owe, for any peers, chains, limits and number of events.    *)
(*                                                                         *)
(* Almost nothing the node does touches the requests.  Most of the proof   *)
(* is one lemma for each operation that says so, in the order in which the *)
(* operations call each other.  What is left are a block that arrives, the *)
(* loop that asks for blocks and a connection that closes.                 *)
(***************************************************************************)
EXTENDS Sync, FiniteSetTheorems, TLAPS

-----------------------------------------------------------------------------
(* What leaves the requests alone.                                         *)

\* The parts of the state of the node this proof is about.
HasFields(s) ==
    /\ "active_requests" \in DOMAIN s /\ "conn" \in DOMAIN s /\ "to" \in DOMAIN s
    /\ DOMAIN s.conn = Peers /\ DOMAIN s.to = Peers
    /\ \A p \in Peers : "status" \in DOMAIN s.conn[p] /\ "sync_requested" \in DOMAIN s.conn[p]

IsClosed(s, p) == s.conn[p].status = "closed"

\* From s to t no request is made or met, no connection closes and nothing is
\* sent on a closed one.
KeepsRequests(s, t) ==
    /\ HasFields(t)
    /\ t.active_requests = s.active_requests
    /\ \A p \in Peers : /\ t.conn[p].sync_requested = s.conn[p].sync_requested
                        /\ IsClosed(t, p) <=> IsClosed(s, p)
                        /\ IsClosed(s, p) => t.to[p] = s.to[p]

\* A state keeps its own requests.
LEMMA KeepsSelf ==
    ASSUME NEW s, HasFields(s) PROVE KeepsRequests(s, s)
BY Zenon DEF KeepsRequests

\* Calls of the application and new tasks (fc::async) are only queued.
LEMMA QueuesKeep ==
    ASSUME NEW r, NEW s, NEW c, KeepsRequests(r, s)
    PROVE  KeepsRequests(r, post(s, c)) /\ KeepsRequests(r, async(s, c))
BY Zenon DEF KeepsRequests, HasFields, IsClosed, post, async

\* send_message on a closed connection sends nothing.
LEMMA SendKeeps ==
    ASSUME NEW r, NEW s, NEW p, NEW m, KeepsRequests(r, s)
    PROVE  KeepsRequests(r, send_message(s, p, m))
BY Zenon DEF KeepsRequests, HasFields, IsClosed, send_message

\* The triggers of the three loops.
LEMMA TriggersKeep ==
    ASSUME NEW r, NEW s, KeepsRequests(r, s)
    PROVE  /\ KeepsRequests(r, trigger_fetch_sync_items_loop(s))
           /\ KeepsRequests(r, trigger_fetch_items_loop(s))
           /\ KeepsRequests(r, trigger_process_backlog_of_sync_blocks(s))
<1>1. /\ KeepsRequests(r, [s EXCEPT !.fetch = TRUE])
      /\ KeepsRequests(r, [s EXCEPT !.items = TRUE])
      /\ KeepsRequests(r, [s EXCEPT !.backlog = "scheduled"])
  BY Zenon DEF KeepsRequests, HasFields, IsClosed
<1> QED BY <1>1, QueuesKeep, SMTT(30), Z3T(30) DEF trigger_fetch_sync_items_loop, trigger_fetch_items_loop,
                               trigger_process_backlog_of_sync_blocks

\* disconnect_from_peer closes nothing yet.
LEMMA DisconnectKeeps ==
    ASSUME NEW r, NEW s, NEW p, KeepsRequests(r, s)
    PROVE  KeepsRequests(r, disconnect_from_peer(s, p))
BY ZenonT(30) DEF KeepsRequests, HasFields, IsClosed, disconnect_from_peer

\* The two ways in which a task asks a peer for ids.
LEMMA AskingKeeps ==
    ASSUME NEW r, NEW s, NEW c, KeepsRequests(r, s)
    PROVE  /\ KeepsRequests(r, fetch_next_batch_of_item_ids_from_peer(s, c))
           /\ KeepsRequests(r, start_synchronizing_with_peer(s, c))
<1>1. KeepsRequests(r, [s EXCEPT !.conn[c.p].to_get = << >>,
                                 !.conn[c.p].unfetched = 0,
                                 !.conn[c.p].we_need = TRUE,
                                 !.conn[c.p].last_seen = NoBlock])
  <2> DEFINE t == [s EXCEPT !.conn[c.p].to_get = << >>,
                            !.conn[c.p].unfetched = 0,
                            !.conn[c.p].we_need = TRUE,
                            !.conn[c.p].last_seen = NoBlock]
  <2>1. /\ DOMAIN t = DOMAIN s /\ t.active_requests = s.active_requests /\ t.to = s.to
        /\ DOMAIN t.conn = DOMAIN s.conn
    BY ZenonT(30) DEF KeepsRequests, HasFields
  <2>2. ASSUME NEW p \in Peers
        PROVE  /\ DOMAIN t.conn[p] = DOMAIN s.conn[p]
               /\ t.conn[p].sync_requested = s.conn[p].sync_requested
               /\ t.conn[p].status = s.conn[p].status
    BY SMTT(30), Z3T(30) DEF KeepsRequests, HasFields
  <2> HIDE DEF t
  <2>3. KeepsRequests(r, t)
    BY <2>1, <2>2, ZenonT(30) DEF KeepsRequests, HasFields, IsClosed
  <2> QED
    BY <2>3, ZenonT(30) DEF t
<1> QED BY <1>1, QueuesKeep, SMTT(30), Z3T(30) DEF fetch_next_batch_of_item_ids_from_peer,
                               start_synchronizing_with_peer

\* The end of process_backlog_of_sync_blocks.
LEMMA LeaveKeeps ==
    ASSUME NEW r, NEW s, KeepsRequests(r, s)
    PROVE  KeepsRequests(r, leave_backlog(s))
<1> DEFINE t == [s EXCEPT !.backlog = "idle",
                          !.suspend = @ \/ (/\ s.handles >= MaxHandled
                                            /\ Len(s.received) >= MaxPrefetch)]
<1>1. KeepsRequests(r, t)
  BY ZenonT(30) DEF KeepsRequests, HasFields, IsClosed
<1>2. KeepsRequests(r, trigger_fetch_sync_items_loop(t))
  BY <1>1, TriggersKeep, SMTT(30), Z3T(30)
<1> QED BY <1>1, <1>2, SMTT(30), Z3T(30) DEF leave_backlog

\* A task goes on with the next peer or ends.
LEMMA FinishKeeps ==
    ASSUME NEW r, NEW s, NEW c, KeepsRequests(r, s)
    PROVE  KeepsRequests(r, finish(s, c))
BY AskingKeeps, TriggersKeep, LeaveKeeps, SMTT(30), Z3T(30) DEF finish

-----------------------------------------------------------------------------
(* The ids a peer announces.                                               *)

\* The end of on_blockchain_item_ids_inventory_message.
LEMMA AppendKeeps ==
    ASSUME NEW r, NEW s, NEW c, KeepsRequests(r, s)
    PROVE  KeepsRequests(r, ids_appended(s, c)) /\ KeepsRequests(r, append_ids(s, c))
<1>1. ASSUME NEW t, KeepsRequests(r, t) PROVE KeepsRequests(r, ids_appended(t, c))
  BY <1>1, TriggersKeep, AskingKeeps, SMTT(30), Z3T(30) DEF ids_appended
<1>2. KeepsRequests(r, [s EXCEPT !.conn[c.p].to_get = @ \o c.ids])
  BY DEF KeepsRequests, HasFields, IsClosed
<1> QED BY <1>1, <1>2, QueuesKeep, ZenonT(30) DEF append_ids

\* The peer has nothing for us.
LEMMA UpToDateKeeps ==
    ASSUME NEW r, NEW s, NEW c, KeepsRequests(r, s)
    PROVE  KeepsRequests(r, up_to_date(s, c))
<1> DEFINE t   == [s EXCEPT !.conn[c.p].we_need = FALSE]
           num == calculate_unsynced_block_count_from_all_peers(t)
           u   == [t EXCEPT !.total = num]
<1>1. KeepsRequests(r, t)
  BY DEF KeepsRequests, HasFields, IsClosed
<1>2. KeepsRequests(r, u)
  <2> HIDE DEF t, num
  <2> QED BY <1>1, ZenonT(30) DEF KeepsRequests, HasFields, IsClosed
<1> QED BY <1>2, QueuesKeep, ZenonT(30) DEF up_to_date

\* The peer has more ids.
LEMMA MoreIdsKeep ==
    ASSUME NEW r, NEW s, NEW c, KeepsRequests(r, s)
    PROVE  KeepsRequests(r, more_ids(s, c))
<1> DEFINE list == s.conn[c.p].to_get
           kept == KeptPart(list, c.ids[1])
           t    == [s EXCEPT !.conn[c.p].unfetched = c.left]
           u    == [t EXCEPT !.conn[c.p].to_get = << >>, !.conn[c.p].last_seen = c.ids[1]]
           v    == [t EXCEPT !.conn[c.p].to_get = Front(kept)]
<1>1. KeepsRequests(r, t)
  BY SMTT(30), Z3T(30) DEF KeepsRequests, HasFields, IsClosed
<1>2. KeepsRequests(r, u) /\ KeepsRequests(r, v)
  <2> HIDE DEF t, kept
  <2> QED BY <1>1, SMTT(30), Z3T(30) DEF KeepsRequests, HasFields, IsClosed
<1> HIDE DEF t, u, v, kept, list
<1>3. /\ KeepsRequests(r, append_ids(t, c))
      /\ KeepsRequests(r, append_ids(v, c))
      /\ KeepsRequests(r, post(t, [c EXCEPT !.op = "flush"]))
      /\ KeepsRequests(r, post(u, [c EXCEPT !.op = "rejoin", !.ids = Tail(@)]))
  BY <1>1, <1>2, AppendKeeps, QueuesKeep, ZenonT(30)
<1> QED BY <1>3, ZenonT(30) DEF more_ids, t, u, v, kept, list

\* The answer of a peer to our request for ids.
LEMMA InventoryKeeps ==
    ASSUME NEW r, NEW s, NEW p, NEW m, KeepsRequests(r, s)
    PROVE  KeepsRequests(r, on_blockchain_item_ids_inventory_message(s, p, m))
<1> DEFINE t == [s EXCEPT !.conn[p].ids_requested = NoIds]
<1>1. KeepsRequests(r, t)
  BY SMTT(30), Z3T(30) DEF KeepsRequests, HasFields, IsClosed
<1> HIDE DEF t
<1>2. \A c : /\ KeepsRequests(r, post(t, c))
             /\ KeepsRequests(r, up_to_date(t, c))
             /\ KeepsRequests(r, more_ids(t, c))
  BY <1>1, QueuesKeep, UpToDateKeeps, MoreIdsKeep, ZenonT(30)
<1>3. KeepsRequests(r, disconnect_from_peer(s, p))
  BY DisconnectKeeps, ZenonT(30)
<1> QED BY <1>2, <1>3, SMTT(30), Z3T(30) DEF on_blockchain_item_ids_inventory_message, t

-----------------------------------------------------------------------------
(* Blocks.                                                                 *)

\* Pushing a block on the main thread.
LEMMA HandleBlockKeeps ==
    ASSUME NEW r, NEW s, NEW b, KeepsRequests(r, s)
    PROVE  KeepsRequests(r, handle_block(s, b))
BY Zenon DEF KeepsRequests, HasFields, IsClosed, handle_block

\* The items of normal operation are kept apart from those of synchronization.
LEMMA RescheduleKeeps ==
    ASSUME NEW r, NEW s, NEW bs, KeepsRequests(r, s)
    PROVE  KeepsRequests(r, reschedule(s, bs))
<1> DEFINE more == {b \in bs : \E q \in Active(s) : b \in s.conn[q].offered}
           t    == [s EXCEPT !.to_fetch = @ \cup more]
<1>1. KeepsRequests(r, t)
  <2> HIDE DEF more
  <2> QED BY ZenonT(30) DEF KeepsRequests, HasFields, IsClosed
<1> HIDE DEF t
<1>2. KeepsRequests(r, trigger_fetch_items_loop(t))
  BY <1>1, TriggersKeep, ZenonT(30)
<1> QED BY <1>2, ZenonT(30) DEF reschedule, t

\* A block of normal operation.
LEMMA NormalBlockKeeps ==
    ASSUME NEW r, NEW s, NEW p, NEW b, KeepsRequests(r, s)
    PROVE  /\ KeepsRequests(r, TriggerIfIdle(normal_block_accepted(s, b), p))
           /\ KeepsRequests(r, process_block_during_normal_operation(s, p, b))
<1>1. KeepsRequests(r, normal_block_accepted(s, b))
  BY ZenonT(30) DEF KeepsRequests, HasFields, IsClosed, normal_block_accepted
<1>2. KeepsRequests(r, TriggerIfIdle(normal_block_accepted(s, b), p))
  BY <1>1, TriggersKeep, ZenonT(30) DEF TriggerIfIdle
<1> QED BY <1>2, QueuesKeep, ZenonT(30) DEF process_block_during_normal_operation

\* A block of synchronization is only noted.
LEMMA DuringSyncKeeps ==
    ASSUME NEW r, NEW s, NEW b, KeepsRequests(r, s)
    PROVE  KeepsRequests(r, process_block_during_sync(s, b))
<1>1. KeepsRequests(r, [s EXCEPT !.fresh = <<b>> \o @])
  BY ZenonT(30) DEF KeepsRequests, HasFields, IsClosed
<1> QED BY <1>1, TriggersKeep, SMTT(30), Z3T(30) DEF process_block_during_sync

\* send_sync_block_to_node_delegate, after the block was pushed.
LEMMA PushedKeeps ==
    ASSUME NEW r, NEW s, NEW c, KeepsRequests(r, s)
    PROVE  /\ KeepsRequests(r, sync_block_accepted(s, c))
           /\ KeepsRequests(r, sync_block_refused(s, c))
<1> DEFINE had == Processed(s, c.b)
           t   == [s EXCEPT !.accepted = @ \cup {c.b},
                            !.total = one_less(@),
                            !.conn = [p \in Peers |->
                               IF p \in had
                               THEN [s.conn[p] EXCEPT !.processing = @ \ {c.b}, !.last_seen = c.b]
                               ELSE s.conn[p]]]
           u   == [s EXCEPT !.conn = [p \in Peers |->
                               IF p \in had THEN [s.conn[p] EXCEPT !.status = "closing"]
                               ELSE s.conn[p]]]
<1>1. KeepsRequests(r, t)
  <2> HIDE DEF had
  <2> QED BY ZenonT(30) DEF KeepsRequests, HasFields, IsClosed
<1>2. KeepsRequests(r, u)
  BY ZenonT(30) DEF KeepsRequests, HasFields, IsClosed, Processed, Active
<1> HIDE DEF t, u
<1>3. \A d : KeepsRequests(r, finish(t, d)) /\ KeepsRequests(r, finish(u, d))
  BY <1>1, <1>2, FinishKeeps, SMTT(30), Z3T(30)
<1> QED BY <1>3, ZenonT(30) DEF sync_block_accepted, sync_block_refused, t, u

\* A turn of the loop of process_backlog_of_sync_blocks, and the last one.
LEMMA TurnKeeps ==
    ASSUME NEW r, NEW s, KeepsRequests(r, s)
    PROVE  KeepsRequests(r, one_turn(s)) /\ KeepsRequests(r, last_turn(s))
<1> DEFINE b   == next_block(s)
           t   == taken_from_lists(s, b)
           had == Processed(t, b)
           w   == [t EXCEPT !.backlog = "running",
                            !.conn = [p \in Peers |->
                    IF p \in had THEN [t.conn[p] EXCEPT !.processing = @ \ {b}] ELSE t.conn[p]]]
           x   == [t EXCEPT !.received = RemoveAt(@, Min(ready_blocks(s))), !.handles = @ + 1]
<1>1. KeepsRequests(r, t)
  <2> HIDE DEF b
  <2> QED BY ZenonT(30) DEF KeepsRequests, HasFields, IsClosed, taken_from_lists
<1>2. KeepsRequests(r, w) /\ KeepsRequests(r, x)
  <2> HIDE DEF b, t, had
  <2> QED BY <1>1, ZenonT(30) DEF KeepsRequests, HasFields, IsClosed
<1> HIDE DEF w, x
<1>3. KeepsRequests(r, treat_as_accepted(t, b))
  <2>1. \A d : KeepsRequests(r, finish(w, d))
    BY <1>2, FinishKeeps, SMTT(30), Z3T(30)
  <2> HIDE DEF t, b
  <2> QED BY <2>1, ZenonT(30) DEF treat_as_accepted, w
<1>4. KeepsRequests(r, push_next(s))
  BY <1>2, QueuesKeep, ZenonT(30) DEF push_next, x
<1> QED BY <1>3, <1>4, LeaveKeeps, SMTT(30), Z3T(30) DEF one_turn, last_turn

\* A non-empty set of natural numbers has a least element: the form of induction used here.
LEMMA LeastNumber ==
    ASSUME NEW T \in SUBSET Nat, T # {}
    PROVE  \E m \in T : \A k \in T : m <= k
<1> DEFINE R == OpToRel(<, Nat)
<1>1. IsWellFoundedOn(R, Nat)
  BY NatLessThanWellFounded, ZenonT(30)
<1>2. \A i, j \in Nat : i < j => <<i, j>> \in R
  BY ZenonT(30) DEF OpToRel
<1> HIDE DEF R
<1>3. PICK m \in T : \A k \in T : ~(<<k, m>> \in R)
  BY <1>1, WFMin, ZenonT(30)
<1>4. ASSUME NEW k \in T PROVE m <= k
  <2>1. m \in Nat /\ k \in Nat
    BY ZenonT(30)
  <2>2. ~(k < m)
    BY <1>2, <1>3, <2>1, ZenonT(30)
  <2> QED BY <2>1, <2>2, SMTT(30), Z3T(30)
<1> QED BY <1>4, ZenonT(30)

\* The turns of the loop, one after the other.
Turns(s, k, f) == f = [i \in 0 .. k |-> IF i = 0 THEN s ELSE one_turn(f[i - 1])]

\* However many turns the loop takes, its states exist.
LEMMA TurnsExist ==
    ASSUME NEW s, NEW k \in Nat PROVE \E f : Turns(s, k, f)
<1> DEFINE T == {j \in Nat : ~ \E f : Turns(s, j, f)}
<1> SUFFICES ASSUME T # {} PROVE FALSE
  BY ZenonT(30)
<1>1. PICK m \in T : \A j \in T : m <= j
  BY LeastNumber, ZenonT(30)
<1>2. CASE m = 0
  <2>1. Turns(s, 0, [i \in 0 .. 0 |-> s])
    BY DEF Turns
  <2> QED BY <1>2, <2>1, SMTT(30), Z3T(30)
<1>3. CASE m # 0
  <2>1. m - 1 \in Nat /\ m - 1 \notin T
    BY <1>1, <1>3, SMTT(30), Z3T(30)
  <2>2. PICK f : Turns(s, m - 1, f)
    BY <2>1, ZenonT(30)
  <2> DEFINE g == [i \in 0 .. m |-> IF i = m THEN one_turn(f[m - 1]) ELSE f[i]]
  <2>3. DOMAIN g = 0 .. m /\ g[0] = s
    BY <1>3, <2>1, <2>2, SMTT(30), Z3T(30) DEF Turns
  <2>4. ASSUME NEW i \in 1 .. m PROVE g[i] = one_turn(g[i - 1])
    <3>1. CASE i = m
      BY <3>1, <2>1, SMTT(30), Z3T(30)
    <3>2. CASE i # m
      <4>1. i \in 0 .. m - 1 /\ i # 0 /\ i - 1 \in 0 .. m - 1
        BY <3>2, <2>1, SMTT(30), Z3T(30)
      <4>2. f[i] = one_turn(f[i - 1])
        BY <4>1, <2>2, SMTT(30), Z3T(30) DEF Turns
      <4> QED BY <4>1, <4>2, <3>2, SMTT(30), Z3T(30)
    <3> QED BY <3>1, <3>2, ZenonT(30)
  <2>5. Turns(s, m, g)
    <3> HIDE DEF g
    <3>1. g = [i \in 0 .. m |-> g[i]]
      BY <2>3, ZenonT(30) DEF g
    <3>2. \A i \in 0 .. m : g[i] = IF i = 0 THEN s ELSE one_turn(g[i - 1])
      BY <2>3, <2>4, SMTT(30), Z3T(30)
    <3> QED BY <3>1, <3>2, ZenonT(30) DEF Turns
  <2> QED BY <2>5, ZenonT(30)
<1> QED BY <1>2, <1>3, ZenonT(30)

\* The loop of process_backlog_of_sync_blocks.
LEMMA BacklogLoopKeeps ==
    ASSUME NEW r, NEW s, KeepsRequests(r, s)
    PROVE  KeepsRequests(r, backlog_loop(s))
<1> DEFINE after == CHOOSE f : Turns(s, MaxHandled, f)
           T     == {i \in 0 .. MaxHandled : ~ KeepsRequests(r, after[i])}
<1>1. Turns(s, MaxHandled, after)
  BY TurnsExist, SyncAssumption, ZenonT(30)
<1>2. backlog_loop(s) = last_turn(after[MaxHandled])
  BY ZenonT(30) DEF backlog_loop, Turns
<1> HIDE DEF after
<1>3. T = {}
  <2> SUFFICES ASSUME T # {} PROVE FALSE
    BY ZenonT(30)
  <2>0. T \in SUBSET Nat
    BY SyncAssumption, SMTT(30), Z3T(30)
  <2>1. PICK m \in T : \A j \in T : m <= j
    BY <2>0, LeastNumber, ZenonT(30)
  <2>2. m \in 0 .. MaxHandled /\ ~ KeepsRequests(r, after[m])
    BY ZenonT(30)
  <2>3. m # 0
    BY <1>1, <2>2, ZenonT(30) DEF Turns
  <2>4. m - 1 \in 0 .. MaxHandled /\ m - 1 \notin T
    BY <2>1, <2>2, <2>3, SyncAssumption, SMTT(30), Z3T(30)
  <2>5. after[m] = one_turn(after[m - 1])
    BY <1>1, <2>2, <2>3, ZenonT(30) DEF Turns
  <2> QED BY <2>2, <2>4, <2>5, TurnKeeps, SMTT(30), Z3T(30)
<1>4. KeepsRequests(r, after[MaxHandled])
  BY <1>3, SyncAssumption, SMTT(30), Z3T(30)
<1> QED BY <1>2, <1>4, TurnKeeps, SMTT(30), Z3T(30)

\* process_backlog_of_sync_blocks.
LEMMA BacklogKeeps ==
    ASSUME NEW r, NEW s, KeepsRequests(r, s)
    PROVE  KeepsRequests(r, process_backlog_of_sync_blocks(s))
<1> DEFINE k == InProgress(s)
           t == [s EXCEPT !.handles = k]
           u == [t EXCEPT !.suspend = FALSE, !.received = Reverse(s.fresh) \o @, !.fresh = << >>]
           v == [t EXCEPT !.backlog = "idle"]
<1>1. KeepsRequests(r, u) /\ KeepsRequests(r, v)
  <2> HIDE DEF k
  <2> QED BY ZenonT(30) DEF KeepsRequests, HasFields, IsClosed
<1> HIDE DEF u
<1>2. KeepsRequests(r, backlog_loop(u))
  BY <1>1, BacklogLoopKeeps, SMTT(30), Z3T(30)
<1> QED BY <1>1, <1>2, SMTT(30), Z3T(30) DEF process_backlog_of_sync_blocks, u

-----------------------------------------------------------------------------
(* The tasks.                                                              *)

\* What a task does when its call of the application returns.
LEMMA ResumedKeeps ==
    ASSUME NEW r, NEW s, NEW c, KeepsRequests(r, s)
    PROVE  KeepsRequests(r, Resumed(s, c))
<1>1. /\ KeepsRequests(r, [s EXCEPT !.conn[c.p].ids_requested = c.ids])
      /\ KeepsRequests(r, [s EXCEPT !.conn[c.p].last_seen = c.ids[1]])
      /\ KeepsRequests(r, [s EXCEPT !.total = c.count])
      /\ KeepsRequests(r, [s EXCEPT !.conn[c.p].peer_needs = c.ok])
  BY SMTT(30), Z3T(30) DEF KeepsRequests, HasFields, IsClosed
<1>2. CASE c.op = "synopsis"
  <2> DEFINE u == IF ~ c.ok THEN disconnect_from_peer(s, c.p)
                  ELSE send_message([s EXCEPT !.conn[c.p].ids_requested = c.ids],
                                    c.p, [type |-> "ids", ids |-> c.ids])
  <2>1. KeepsRequests(r, u)
    BY <1>1, DisconnectKeeps, SendKeeps, ZenonT(30)
  <2> HIDE DEF u
  <2>2. KeepsRequests(r, finish(u, c))
    BY <2>1, FinishKeeps, SMTT(30), Z3T(30)
  <2> QED BY <1>2, <2>2, ZenonT(30) DEF Resumed, u
<1>3. CASE c.op \in {"push", "start", "is_last"}
  BY <1>3, QueuesKeep, AskingKeeps, UpToDateKeeps, MoreIdsKeep, SMTT(30), Z3T(30) DEF Resumed
<1>4. CASE c.op \in {"flush", "flush_time", "rejoin"}
  BY <1>1, <1>4, QueuesKeep, AppendKeeps, SMTT(30), Z3T(30) DEF Resumed
<1>5. CASE c.op = "sync_status"
  BY <1>1, <1>5, AppendKeeps, SMTT(30), Z3T(30) DEF Resumed
<1>6. CASE c.op = "handle_block"
  BY <1>6, PushedKeeps, NormalBlockKeeps, AskingKeeps, SMTT(30), Z3T(30) DEF Resumed
<1>7. CASE c.op \in {"get_block_ids", "has_item"}
  BY <1>1, <1>7, QueuesKeep, AskingKeeps, SMTT(30), Z3T(30) DEF Resumed
<1>8. CASE c.op \notin {"push", "start", "synopsis", "is_last", "flush", "flush_time", "rejoin",
                        "sync_status", "handle_block", "get_block_ids", "has_item"}
  BY <1>8, ZenonT(30) DEF Resumed
<1> QED BY <1>2, <1>3, <1>4, <1>5, <1>6, <1>7, <1>8, SMTT(30), Z3T(30)

\* What the main thread does for a task.
LEMMA ExecutedKeeps ==
    ASSUME NEW r, NEW s, NEW c, KeepsRequests(r, s)
    PROVE  KeepsRequests(r, Executed(s, c)[1])
<1>1. KeepsRequests(r, handle_block(s, c.b))
  BY HandleBlockKeeps, ZenonT(30)
<1>2. Executed(s, c)[1] = IF c.op = "handle_block" THEN handle_block(s, c.b) ELSE s
  BY ZenonT(30) DEF Executed
<1> QED BY <1>1, <1>2, SMTT(30), Z3T(30)

\* The messages of a peer that is not asked for anything.
LEMMA OtherMessagesKeep ==
    ASSUME NEW r, NEW s, NEW p, NEW x, KeepsRequests(r, s)
    PROVE  /\ KeepsRequests(r, on_item_ids_inventory_message(s, p, x))
           /\ KeepsRequests(r, on_fetch_blockchain_item_ids_message(s, p, x))
           /\ KeepsRequests(r, on_fetch_items_message(s, p, x))
<1> DEFINE t == [s EXCEPT !.conn[p].offered = @ \cup {x}]
           u == [t EXCEPT !.to_fetch = @ \cup {x}]
<1>1. KeepsRequests(r, t) /\ KeepsRequests(r, [s EXCEPT !.conn[p].last_seen = x])
  BY SMTT(30), Z3T(30) DEF KeepsRequests, HasFields, IsClosed
<1>2. KeepsRequests(r, u)
  <2> HIDE DEF t
  <2> QED BY <1>1, ZenonT(30) DEF KeepsRequests, HasFields, IsClosed
<1> HIDE DEF u
<1>3. KeepsRequests(r, trigger_fetch_items_loop(u))
  BY <1>2, TriggersKeep, Zenon
<1> HIDE DEF t
<1>4. KeepsRequests(r, on_item_ids_inventory_message(s, p, x))
  BY <1>1, <1>3, SMTT(30), Z3T(30) DEF on_item_ids_inventory_message, t, u
<1> QED BY <1>1, <1>4, QueuesKeep, SMTT(30), Z3T(30) DEF on_fetch_blockchain_item_ids_message, on_fetch_items_message

\* fetch_items_loop sends requests to active peers only.
LEMMA ItemsLoopKeeps ==
    ASSUME NEW r, NEW s, KeepsRequests(r, s),
           NEW f \in [Fetchable(s) -> Peers], \A b \in DOMAIN f : CanFetch(s, f[b], b)
    PROVE  KeepsRequests(r, fetch_items_loop(s, f))
<1> DEFINE mine(p) == {b \in DOMAIN f : f[b] = p}
<1>1. ASSUME NEW p \in Peers, mine(p) # {} PROVE ~ IsClosed(s, p)
  BY <1>1, ZenonT(30) DEF CanFetch, Active, IsClosed
<1> HIDE DEF mine
<1> DEFINE t == [s EXCEPT !.items = FALSE,
                  !.to_fetch = @ \ DOMAIN f,
                  !.conn = [p \in Peers |-> [s.conn[p] EXCEPT !.requested = @ \cup mine(p)]],
                  !.to = [p \in Peers |->
                            IF mine(p) = {} THEN s.to[p]
                            ELSE Append(s.to[p], [type |-> "items", ids |-> SetToSeq(mine(p))])]]
<1>2. KeepsRequests(r, t)
  BY <1>1, ZenonT(30) DEF KeepsRequests, HasFields, IsClosed
<1> QED BY <1>2, ZenonT(30) DEF fetch_items_loop, mine

-----------------------------------------------------------------------------
(* The requests.                                                           *)

\* Of the node: what counts as requested is what the open connections owe,
\* each block is owed by one of them, and nothing is sent on a closed one.
NodeInv(s) ==
    /\ HasFields(s)
    /\ \A b : b \in s.active_requests <=>
                  \E p \in Peers : ~ IsClosed(s, p) /\ b \in s.conn[p].sync_requested
    /\ \A p, q \in Peers : p # q /\ ~ IsClosed(s, p) /\ ~ IsClosed(s, q) =>
           \A b : ~ (b \in s.conn[p].sync_requested /\ b \in s.conn[q].sync_requested)
    /\ \A p \in Peers : IsClosed(s, p) => s.to[p] = << >>

\* The inductive invariant: nothing arrives on a closed connection either.
Inv ==
    /\ NodeInv(n)
    /\ DOMAIN from = Peers
    /\ \A p \in Peers : IsClosed(n, p) => from[p] = << >>

\* What leaves the requests alone preserves it.
LEMMA KeepsInv ==
    ASSUME NEW s, NEW t, NodeInv(s), KeepsRequests(s, t)
    PROVE  NodeInv(t)
BY ZenonT(30) DEF NodeInv, KeepsRequests

\* process_block_message: a requested block comes off the list of its peer and
\* off the requests.  No other peer owes it, or it would count as not requested
\* and yet be on its way.
LEMMA BlockMessageInv ==
    ASSUME NEW s, NodeInv(s), NEW p \in Peers, ~ IsClosed(s, p), NEW b
    PROVE  /\ NodeInv(process_block_message(s, p, b))
           /\ \A q \in Peers : IsClosed(process_block_message(s, p, b), q) <=> IsClosed(s, q)
<1> DEFINE met == [s EXCEPT !.conn[p].sync_requested = @ \ {b}, !.active_requests = @ \ {b}]
           t   == process_block_during_sync(met, b)
           res == process_block_message(s, p, b)
<1>1. KeepsRequests(s, s)
  BY KeepsSelf, ZenonT(30) DEF NodeInv
<1>2. CASE b \in s.conn[p].requested
  <2> DEFINE u == [s EXCEPT !.conn[p].requested = @ \ {b}]
  <2>1. KeepsRequests(s, u)
    BY <1>1, SMTT(30), Z3T(30) DEF KeepsRequests, HasFields, IsClosed
  <2> HIDE DEF u
  <2>2. KeepsRequests(s, res)
    BY <1>2, <2>1, NormalBlockKeeps, SMTT(30), Z3T(30) DEF process_block_message, u
  <2> QED BY <2>2, KeepsInv, SMTT(30), Z3T(30) DEF KeepsRequests
<1>3. CASE b \notin s.conn[p].requested /\ b \notin s.conn[p].sync_requested
  <2>1. KeepsRequests(s, res)
    BY <1>1, <1>3, DisconnectKeeps, SMTT(30), Z3T(30) DEF process_block_message
  <2> QED BY <2>1, KeepsInv, ZenonT(30) DEF KeepsRequests
<1>4. CASE b \notin s.conn[p].requested /\ b \in s.conn[p].sync_requested
  <2>1. /\ HasFields(met)
        /\ met.active_requests = s.active_requests \ {b}
        /\ met.conn[p].sync_requested = s.conn[p].sync_requested \ {b}
        /\ met.to = s.to
        /\ \A q \in Peers : /\ IsClosed(met, q) <=> IsClosed(s, q)
                            /\ q # p => met.conn[q].sync_requested = s.conn[q].sync_requested
    BY ZenonT(30) DEF NodeInv, HasFields, IsClosed
  <2> HIDE DEF met
  <2>2. NodeInv(met)
    BY <1>4, <2>1, SMTT(30), Z3T(30) DEF NodeInv
  <2>3. KeepsRequests(met, t)
    BY <2>1, KeepsSelf, DuringSyncKeeps, ZenonT(30)
  <2> HIDE DEF t
  <2>4. KeepsRequests(met, res)
    BY <1>4, <2>3, AskingKeeps, TriggersKeep, SMTT(30), Z3T(30) DEF process_block_message, t, met
  <2> QED BY <2>1, <2>2, <2>4, KeepsInv, ZenonT(30) DEF KeepsRequests
<1> QED BY <1>2, <1>3, <1>4, SMTT(30), Z3T(30)

\* request_sync_items_from_peer asks an open connection for blocks nobody has
\* been asked for.
LEMMA RequestInv ==
    ASSUME NEW s, NodeInv(s), NEW p \in Peers, ~ IsClosed(s, p)
    PROVE  /\ NodeInv(request_sync_items_from_peer(s, p))
           /\ \A q \in Peers : IsClosed(request_sync_items_from_peer(s, p), q) <=> IsClosed(s, q)
<1> DEFINE list   == s.conn[p].to_get
           places == PlacesToRequest(s, p)
           items  == {list[i] : i \in places}
           order  == Ascending(places)
           t      == [s EXCEPT !.active_requests = @ \cup items,
                               !.conn[p].sync_requested = @ \cup items]
           u      == send_message(t, p, [type |-> "items",
                                         ids |-> [i \in DOMAIN order |-> list[order[i]]]])
<1>1. CASE places = {}
  BY <1>1, SMTT(30), Z3T(30) DEF request_sync_items_from_peer
<1>2. CASE places # {}
  <2>1. \A b \in items : b \notin s.active_requests
    BY ZenonT(30) DEF PlacesToRequest, have_or_requested
  <2>2. request_sync_items_from_peer(s, p) = u
    BY <1>2, ZenonT(30) DEF request_sync_items_from_peer
  <2> HIDE DEF items, order, places, list
  <2>3. /\ HasFields(t)
        /\ t.active_requests = s.active_requests \cup items
        /\ t.conn[p].sync_requested = s.conn[p].sync_requested \cup items
        /\ t.to = s.to
        /\ \A q \in Peers : /\ IsClosed(t, q) <=> IsClosed(s, q)
                            /\ q # p => t.conn[q].sync_requested = s.conn[q].sync_requested
    BY ZenonT(30) DEF NodeInv, HasFields, IsClosed
  <2> HIDE DEF t
  <2>4. NodeInv(t)
    BY <2>1, <2>3, SMTT(30), Z3T(30) DEF NodeInv
  <2>5. KeepsRequests(t, u)
    BY <2>3, KeepsSelf, SendKeeps, ZenonT(30)
  <2> HIDE DEF u
  <2> QED BY <2>2, <2>3, <2>4, <2>5, KeepsInv, ZenonT(30) DEF KeepsRequests
<1> QED BY <1>1, <1>2, SMTT(30), Z3T(30)

\* The peers fetch_sync_items_loop has visited, one after the other.
Asked(s, order, k, f) ==
    f = [i \in 0 .. k |-> IF i = 0 THEN s ELSE request_sync_items_from_peer(f[i - 1], order[i])]

\* However many peers there are, the states of the loop exist.
LEMMA AskedExist ==
    ASSUME NEW s, NEW order, NEW k \in Nat PROVE \E f : Asked(s, order, k, f)
<1> DEFINE T == {j \in Nat : ~ \E f : Asked(s, order, j, f)}
<1> SUFFICES ASSUME T # {} PROVE FALSE
  BY ZenonT(30)
<1>1. PICK m \in T : \A j \in T : m <= j
  BY LeastNumber, ZenonT(30)
<1>2. CASE m = 0
  <2>1. Asked(s, order, 0, [i \in 0 .. 0 |-> s])
    BY SMTT(30), Z3T(30) DEF Asked
  <2> QED BY <1>2, <2>1, SMTT(30), Z3T(30)
<1>3. CASE m # 0
  <2>1. m - 1 \in Nat /\ m - 1 \notin T
    BY <1>1, <1>3, SMTT(30), Z3T(30)
  <2>2. PICK f : Asked(s, order, m - 1, f)
    BY <2>1, SMTT(30), Z3T(30)
  <2> DEFINE g == [i \in 0 .. m |-> IF i = m THEN request_sync_items_from_peer(f[m - 1], order[m])
                                    ELSE f[i]]
  <2>3. DOMAIN g = 0 .. m /\ g[0] = s
    BY <1>3, <2>1, <2>2, SMTT(30), Z3T(30) DEF Asked
  <2>4. ASSUME NEW i \in 1 .. m PROVE g[i] = request_sync_items_from_peer(g[i - 1], order[i])
    <3>1. CASE i = m
      BY <3>1, <2>1, SMTT(30), Z3T(30)
    <3>2. CASE i # m
      <4>1. i \in 0 .. m - 1 /\ i # 0 /\ i - 1 \in 0 .. m - 1
        BY <3>2, <2>1, SMTT(30), Z3T(30)
      <4>2. f[i] = request_sync_items_from_peer(f[i - 1], order[i])
        BY <4>1, <2>2, SMTT(30), Z3T(30) DEF Asked
      <4> QED BY <4>1, <4>2, <3>2, SMTT(30), Z3T(30)
    <3> QED BY <3>1, <3>2, ZenonT(30)
  <2>5. Asked(s, order, m, g)
    <3> HIDE DEF g
    <3>1. g = [i \in 0 .. m |-> g[i]]
      BY <2>3, SMTT(30), Z3T(30) DEF g
    <3>2. \A i \in 0 .. m :
             g[i] = IF i = 0 THEN s ELSE request_sync_items_from_peer(g[i - 1], order[i])
      BY <2>3, <2>4, SMTT(30), Z3T(30)
    <3> QED BY <3>1, <3>2, ZenonT(30) DEF Asked
  <2> QED BY <2>5, ZenonT(30)
<1> QED BY <1>2, <1>3, SMTT(30), Z3T(30)

\* fetch_sync_items_loop visits open connections.
LEMMA SyncItemsLoopInv ==
    ASSUME NEW s, NodeInv(s), NEW order, Len(order) \in Nat,
           \A i \in 1 .. Len(order) : order[i] \in Peers /\ ~ IsClosed(s, order[i])
    PROVE  /\ NodeInv(fetch_sync_items_loop(s, order))
           /\ \A q \in Peers : IsClosed(fetch_sync_items_loop(s, order), q) <=> IsClosed(s, q)
<1> DEFINE t       == [s EXCEPT !.fetch = FALSE]
           k       == Len(order)
           asked   == CHOOSE f : Asked(t, order, k, f)
           Good(u) == NodeInv(u) /\ \A q \in Peers : IsClosed(u, q) <=> IsClosed(s, q)
           T       == {i \in 0 .. k : ~ Good(asked[i])}
<1>1. Good(t)
  <2>1. KeepsRequests(s, t)
    BY ZenonT(30) DEF NodeInv, KeepsRequests, HasFields, IsClosed
  <2> HIDE DEF t
  <2> QED BY <2>1, KeepsInv, SMTT(30), Z3T(30) DEF KeepsRequests
<1>2. Asked(t, order, k, asked)
  BY AskedExist, ZenonT(30)
<1>3. fetch_sync_items_loop(s, order) = IF s.suspend THEN t ELSE asked[k]
  BY ZenonT(30) DEF fetch_sync_items_loop, Asked
<1> HIDE DEF t, asked, Good
<1>4. T = {}
  <2> SUFFICES ASSUME T # {} PROVE FALSE
    BY ZenonT(30)
  <2>1. T \in SUBSET Nat
    BY SMTT(30), Z3T(30)
  <2>2. PICK m \in T : \A j \in T : m <= j
    BY <2>1, LeastNumber, ZenonT(30)
  <2>3. m \in 0 .. k /\ ~ Good(asked[m])
    BY ZenonT(30)
  <2>4. m # 0
    BY <1>1, <1>2, <2>3, SMTT(30), Z3T(30) DEF Asked
  <2>5. m - 1 \in 0 .. k /\ m - 1 \notin T /\ m \in 1 .. k
    BY <2>2, <2>3, <2>4, SMTT(30), Z3T(30)
  <2>6. asked[m] = request_sync_items_from_peer(asked[m - 1], order[m])
    BY <1>2, <2>3, <2>4, SMTT(30), Z3T(30) DEF Asked
  <2>7. Good(asked[m - 1])
    BY <2>5, ZenonT(30)
  <2>8. order[m] \in Peers /\ ~ IsClosed(asked[m - 1], order[m])
    BY <2>5, <2>7, SMTT(30), Z3T(30) DEF Good
  <2> QED BY <2>3, <2>6, <2>7, <2>8, RequestInv, SMTT(30), Z3T(30) DEF Good
<1>5. Good(asked[k])
  BY <1>4, SMTT(30), Z3T(30)
<1> QED BY <1>1, <1>3, <1>5, SMTT(30), Z3T(30) DEF Good

\* on_connection_closed forgets the requests of the connection, which no other
\* one owes.
LEMMA ClosedInv ==
    ASSUME Inv, NEW p \in Peers, on_connection_closed(p) PROVE Inv'
<1> DEFINE s == [n EXCEPT !.conn[p].status = "closed",
                          !.active_requests = released(n, p),
                          !.to[p] = << >>]
           t == IF n.conn[p].sync_requested = {} THEN s ELSE trigger_fetch_sync_items_loop(s)
<1>1. ~ IsClosed(n, p) /\ NodeInv(n) /\ HasFields(n)
  BY ZenonT(30) DEF on_connection_closed, Inv, NodeInv, IsClosed
<1>2. /\ HasFields(s)
      /\ s.active_requests = n.active_requests \ n.conn[p].sync_requested
      /\ IsClosed(s, p) /\ s.to[p] = << >>
      /\ \A q \in Peers : /\ s.conn[q].sync_requested = n.conn[q].sync_requested
                          /\ q # p => /\ IsClosed(s, q) <=> IsClosed(n, q)
                                      /\ s.to[q] = n.to[q]
  BY <1>1, ZenonT(30) DEF HasFields, IsClosed, released
<1>3. n' = reschedule(t, n.conn[p].requested) /\ from' = [from EXCEPT ![p] = << >>]
  BY ZenonT(30) DEF on_connection_closed
<1> HIDE DEF s
<1>4. NodeInv(s)
  BY <1>1, <1>2, SMTT(30), Z3T(30) DEF NodeInv
<1>5. KeepsRequests(s, t)
  BY <1>2, KeepsSelf, TriggersKeep, SMTT(30), Z3T(30)
<1> HIDE DEF t
<1>6. KeepsRequests(s, n')
  BY <1>3, <1>5, RescheduleKeeps, SMTT(30), Z3T(30)
<1>7. NodeInv(n)'
  <2>1. NodeInv(n')
    BY <1>4, <1>6, KeepsInv, SMTT(30), Z3T(30)
  <2> QED BY <2>1, ZenonT(30) DEF NodeInv, HasFields, IsClosed
<1>8. \A q \in Peers : IsClosed(n', q) <=> IsClosed(s, q)
  BY <1>6, ZenonT(30) DEF KeepsRequests
<1>9. DOMAIN from' = Peers /\ \A q \in Peers : IsClosed(n', q) => from'[q] = << >>
  BY <1>2, <1>3, <1>8, SMTT(30), Z3T(30) DEF Inv
<1> QED BY <1>7, <1>9, SMTT(30), Z3T(30) DEF Inv, IsClosed

\* A step that leaves the requests alone, and on closed connections what arrives.
LEMMA KeepingStep ==
    ASSUME Inv, KeepsRequests(n, n'), DOMAIN from' = Peers,
           \A p \in Peers : IsClosed(n, p) => from'[p] = << >>
    PROVE  Inv'
<1>1. NodeInv(n')
  BY KeepsInv, ZenonT(30) DEF Inv
<1>2. NodeInv(n)'
  BY <1>1, ZenonT(30) DEF NodeInv, HasFields, IsClosed
<1>3. \A p \in Peers : IsClosed(n', p) => from'[p] = << >>
  BY ZenonT(30) DEF KeepsRequests
<1> QED BY <1>2, <1>3, ZenonT(30) DEF Inv, IsClosed

\* A message that is handled.
LEMMA MessageInv ==
    ASSUME NEW s, NodeInv(s), NEW p \in Peers, ~ IsClosed(s, p), NEW m
    PROVE  /\ NodeInv(on_message(s, p, m))
           /\ \A q \in Peers : IsClosed(on_message(s, p, m), q) <=> IsClosed(s, q)
<1>1. CASE m.type = "block"
  BY <1>1, BlockMessageInv, ZenonT(30) DEF on_message
<1>2. CASE m.type # "block"
  <2>1. KeepsRequests(s, s)
    BY KeepsSelf, Zenon DEF NodeInv
  <2>2. KeepsRequests(s, on_message(s, p, m))
    BY <1>2, <2>1, InventoryKeeps, OtherMessagesKeep, SMTT(30), Z3T(30) DEF on_message
  <2> QED BY <2>2, KeepsInv, SMTT(30), Z3T(30) DEF KeepsRequests
<1> QED BY <1>1, <1>2, ZenonT(30)

\* The network thread.
LEMMA NetworkInv ==
    ASSUME Inv, network_thread PROVE Inv'
<1> DEFINE c == Head(n.ready)
           s == [n EXCEPT !.ready = Tail(@)]
<1>1. KeepsRequests(n, s) /\ NodeInv(s)
  <2>1. KeepsRequests(n, s)
    BY ZenonT(30) DEF Inv, NodeInv, KeepsRequests, HasFields, IsClosed
  <2> HIDE DEF s
  <2> QED BY <2>1, KeepsInv, SMTT(30), Z3T(30) DEF Inv
<1>2. \A p \in Peers : IsClosed(s, p) <=> IsClosed(n, p)
  BY <1>1, ZenonT(30) DEF KeepsRequests
<1> HIDE DEF s
<1>3. ASSUME NodeInv(n'), \A q \in Peers : IsClosed(n', q) <=> IsClosed(n, q),
             DOMAIN from' = Peers, \A q \in Peers : IsClosed(n, q) => from'[q] = << >>
      PROVE  Inv'
  <2>1. NodeInv(n)'
    BY <1>3, SMTT(30), Z3T(30) DEF NodeInv, HasFields, IsClosed
  <2> QED BY <1>3, <2>1, ZenonT(30) DEF Inv, IsClosed
<1>4. CASE \E p \in Peers :
             /\ n' = IF from[p] = << >> THEN s ELSE on_message(s, p, Head(from[p]))
             /\ from' = IF from[p] = << >> THEN from ELSE [from EXCEPT ![p] = Tail(@)]
  <2>1. PICK p \in Peers :
             /\ n' = IF from[p] = << >> THEN s ELSE on_message(s, p, Head(from[p]))
             /\ from' = IF from[p] = << >> THEN from ELSE [from EXCEPT ![p] = Tail(@)]
    BY <1>4, ZenonT(30)
  <2>2. CASE from[p] = << >>
    BY <1>1, <2>1, <2>2, KeepingStep, SMTT(30), Z3T(30) DEF Inv
  <2>3. CASE from[p] # << >>
    <3>1. ~ IsClosed(n, p)
      BY <2>3, ZenonT(30) DEF Inv
    <3>2. NodeInv(n') /\ \A q \in Peers : IsClosed(n', q) <=> IsClosed(n, q)
      BY <1>1, <1>2, <2>1, <2>3, <3>1, MessageInv, SMTT(30), Z3T(30)
    <3>3. DOMAIN from' = Peers /\ \A q \in Peers : IsClosed(n, q) => from'[q] = << >>
      BY <2>1, <2>3, <3>1, SMTT(30), Z3T(30) DEF Inv
    <3> QED BY <1>3, <3>2, <3>3, SMTT(30), Z3T(30)
  <2> QED BY <2>2, <2>3, SMTT(30), Z3T(30)
<1>5. CASE n' = process_backlog_of_sync_blocks(s) /\ from' = from
  BY <1>1, <1>5, BacklogKeeps, KeepingStep, SMTT(30), Z3T(30) DEF Inv
<1>6. CASE (\E order \in SetToSeqs(Active(n)) : n' = fetch_sync_items_loop(s, order)) /\ from' = from
  <2>1. PICK order \in SetToSeqs(Active(n)) : n' = fetch_sync_items_loop(s, order)
    BY <1>6, SMTT(30), Z3T(30)
  <2>2. Cardinality(Active(n)) \in Nat
    BY SyncAssumption, FS_Subset, FS_CardinalityType, SMTT(30), Z3T(30) DEF Active
  <2>3. Len(order) \in Nat /\ \A i \in 1 .. Len(order) : order[i] \in Active(n)
    BY <2>1, <2>2, SMTT(30), Z3T(30) DEF SetToSeqs
  <2>4. \A i \in 1 .. Len(order) : order[i] \in Peers /\ ~ IsClosed(s, order[i])
    BY <1>2, <2>3, ZenonT(30) DEF Active, IsClosed
  <2>5. NodeInv(n') /\ \A q \in Peers : IsClosed(n', q) <=> IsClosed(n, q)
    BY <1>1, <1>2, <2>1, <2>3, <2>4, SyncItemsLoopInv, SMTT(30), Z3T(30)
  <2> QED BY <1>3, <1>6, <2>5, SMTT(30), Z3T(30) DEF Inv
<1>7. CASE /\ \E f \in [Fetchable(s) -> Peers] :
                /\ \A b \in DOMAIN f : CanFetch(s, f[b], b)
                /\ n' = fetch_items_loop(s, f)
           /\ from' = from
  BY <1>1, <1>7, ItemsLoopKeeps, KeepingStep, SMTT(30), Z3T(30) DEF Inv
<1>8. CASE n' = Resumed(s, c) /\ from' = from
  BY <1>1, <1>8, ResumedKeeps, KeepingStep, SMTT(30), Z3T(30) DEF Inv
<1> QED BY <1>4, <1>5, <1>6, <1>7, <1>8, ZenonT(30) DEF network_thread, s

\* Every step preserves the invariant.
LEMMA StepInv ==
    ASSUME Inv, [Next]_vars PROVE Inv'
<1>1. KeepsRequests(n, n)
  BY KeepsSelf, ZenonT(30) DEF Inv, NodeInv
<1>2. CASE main_thread
  <2> DEFINE r == Executed(n, Head(n.main))
  <2>1. KeepsRequests(n, r[1])
    BY <1>1, ExecutedKeeps, SMTT(30), Z3T(30)
  <2>2. n' = [r[1] EXCEPT !.main = Tail(@), !.ready = Append(@, r[2])] /\ from' = from
    BY <1>2, ZenonT(30) DEF main_thread
  <2> HIDE DEF r
  <2>3. KeepsRequests(n, n')
    BY <2>1, <2>2, SMTT(30), Z3T(30) DEF KeepsRequests, HasFields, IsClosed
  <2> QED BY <2>2, <2>3, KeepingStep, SMTT(30), Z3T(30) DEF Inv
<1>3. CASE network_thread
  BY <1>3, NetworkInv, SMTT(30), Z3T(30)
<1>4. ASSUME NEW p \in Peers, Arrive(p) PROVE Inv'
  BY <1>1, <1>4, QueuesKeep, KeepingStep, SMTT(30), Z3T(30) DEF Arrive, Inv
<1>5. ASSUME NEW p \in Peers, new_peer_just_added(p) PROVE Inv'
  <2>1. KeepsRequests(n, [n EXCEPT !.conn[p].status = "active"])
    BY <1>1, <1>5, SMTT(30), Z3T(30) DEF KeepsRequests, HasFields, IsClosed, new_peer_just_added
  <2>2. KeepsRequests(n, n')
    BY <1>5, <2>1, AskingKeeps, SMTT(30), Z3T(30) DEF new_peer_just_added
  <2> QED BY <1>5, <2>2, KeepingStep, SMTT(30), Z3T(30) DEF new_peer_just_added, Inv
<1>6. ASSUME NEW p \in Peers, terminate_inactive_connections_loop(p) PROVE Inv'
  BY <1>1, <1>6, DisconnectKeeps, KeepingStep, SMTT(30), Z3T(30) DEF terminate_inactive_connections_loop, Inv
<1>7. ASSUME NEW p \in Peers, on_connection_closed(p) PROVE Inv'
  BY <1>7, ClosedInv, SMTT(30), Z3T(30)
<1>8. ASSUME NEW p \in Peers, Serve(p) PROVE Inv'
  <2>1. ~ IsClosed(n, p)
    BY <1>8, ZenonT(30) DEF Serve, Inv, NodeInv
  <2>2. KeepsRequests(n, n')
    BY <1>1, <1>8, <2>1, ZenonT(30) DEF Serve, KeepsRequests, HasFields, IsClosed
  <2>3. DOMAIN from' = Peers /\ \A q \in Peers : IsClosed(n, q) => from'[q] = << >>
    BY <1>8, <2>1, ZenonT(30) DEF Serve, Inv
  <2> QED BY <2>2, <2>3, KeepingStep, SMTT(30), Z3T(30)
<1>9. ASSUME NEW p \in Peers, Switch(p) \/ Ask(p) PROVE Inv'
  <2>1. ~ IsClosed(n, p) /\ n' = n
    BY <1>9, SMTT(30), Z3T(30) DEF Switch, Ask, IsClosed
  <2>2. DOMAIN from' = Peers /\ \A q \in Peers : IsClosed(n, q) => from'[q] = << >>
    BY <1>9, <2>1, ZenonT(30) DEF Switch, Ask, Inv
  <2> QED BY <1>1, <2>1, <2>2, KeepingStep, SMTT(30), Z3T(30)
<1>10. CASE UNCHANGED vars
  BY <1>1, <1>10, KeepingStep, SMTT(30), Z3T(30) DEF vars, Inv
<1> QED BY <1>2, <1>3, <1>4, <1>5, <1>6, <1>7, <1>8, <1>9, <1>10, SMTT(30), Z3T(30) DEF Next

\* The invariant holds for any peers and chains, in every state.
THEOREM RequestsHold == Spec => []Inv
<1>1. Init => Inv
  BY DEF Init, Inv, NodeInv, HasFields, IsClosed, NewPeer
<1> QED BY <1>1, StepInv, PTL DEF Spec

\* A block that counts as requested in _active_sync_requests is owed by a
\* connection that is still open, and what one owes counts as requested: however
\* handlers, loops and closing connections interleave, fetch_sync_items_loop
\* neither waits for a block nobody will send nor asks for it a second time.
THEOREM RequestsOwed == Spec => []RequestsAreOwed
<1>1. Inv => RequestsAreOwed
  BY SMTT(30), Z3T(30) DEF Inv, NodeInv, IsClosed, RequestsAreOwed
<1> QED BY <1>1, RequestsHold, PTL

\* No block is requested for synchronization from two open connections at once.
THEOREM RequestsOnce == Spec => []RequestedOnce
<1>1. Inv => RequestedOnce
  BY Zenon DEF Inv, NodeInv, IsClosed, RequestedOnce
<1> QED BY <1>1, RequestsHold, PTL
=============================================================================
