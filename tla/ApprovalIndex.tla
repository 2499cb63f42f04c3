--------------------------- MODULE ApprovalIndex ---------------------------
(***************************************************************************)
(* required_approval_index, which maps accounts to the proposals they may  *)
(* have to approve.  It is told of insertions and removals of proposals    *)
(* and ignores their modifications (proposal_object.cpp).  Undo restores   *)
(* modified proposals in place, removes the new ones and inserts the       *)
(* removed ones again (undo_database.cpp); a restart inserts them all      *)
(* (primary_index::load).                                                  *)
(***************************************************************************)
EXTENDS Integers, Sequences

CONSTANT Accounts

VARIABLES
    proposals,  \* id -> required and available approvals
    next,       \* the id of the next proposal
    idx,        \* _account_to_proposals
    stack       \* the undo states, as the proposals and next id they restore

vars == <<proposals, next, idx, stack>>

\* Whether required_approval_index enters, or removes, proposal p of contents r
\* under account a.
object_inserted(a, p, r) == a \in r.required \cup r.available

object_removed(a, p, r) == a \in r.required \cup r.available

with_inserted(i, p, r) == [a \in Accounts |-> IF object_inserted(a, p, r) THEN i[a] \cup {p} ELSE i[a]]

with_removed(i, p, r) == [a \in Accounts |-> IF object_removed(a, p, r) THEN i[a] \ {p} ELSE i[a]]

(***************************************************************************)
(* The operations: creation with no approval, approvals given and          *)
(* withdrawn, and removal by deletion, execution or expiration.            *)
(***************************************************************************)
create(required) ==
    LET r == [required |-> required, available |-> {}]
    IN  /\ proposals' = [p \in DOMAIN proposals \cup {next} |-> IF p = next THEN r ELSE proposals[p]]
        /\ idx' = with_inserted(idx, next, r)
        /\ next' = next + 1
        /\ UNCHANGED stack

update(p, available) ==
    /\ p \in DOMAIN proposals
    /\ proposals' = [proposals EXCEPT ![p].available = available]
    /\ UNCHANGED <<next, idx, stack>>

remove(p) ==
    /\ p \in DOMAIN proposals
    /\ idx' = with_removed(idx, p, proposals[p])
    /\ proposals' = [q \in DOMAIN proposals \ {p} |-> proposals[q]]
    /\ UNCHANGED <<next, stack>>

(***************************************************************************)
(* Sessions: a block or a transaction starts one; it is merged into the    *)
(* one below or undone, and the oldest is forgotten when the history is    *)
(* longer than it needs to be.                                             *)
(***************************************************************************)
start_undo_session ==
    /\ stack' = Append(stack, [proposals |-> proposals, next |-> next])
    /\ UNCHANGED <<proposals, next, idx>>

merge ==
    /\ stack # <<>>
    /\ stack' = SubSeq(stack, 1, Len(stack) - 1)
    /\ UNCHANGED <<proposals, next, idx>>

forget_oldest ==
    /\ stack # <<>>
    /\ stack' = Tail(stack)
    /\ UNCHANGED <<proposals, next, idx>>

\* The index after the new proposals were removed and the removed ones inserted.
undo_index(now, then) ==
    [a \in Accounts |->
        (idx[a] \ {p \in DOMAIN now \ DOMAIN then : object_removed(a, p, now[p])})
            \cup {p \in DOMAIN then \ DOMAIN now : object_inserted(a, p, then[p])}]

undo ==
    /\ stack # <<>>
    /\ LET then == stack[Len(stack)].proposals
       IN  /\ idx' = undo_index(proposals, then)
           /\ proposals' = then
           /\ next' = stack[Len(stack)].next
    /\ stack' = SubSeq(stack, 1, Len(stack) - 1)

(***************************************************************************)
(* A restart with no session: the proposals are loaded and inserted anew.  *)
(***************************************************************************)
restart ==
    /\ stack = <<>>
    /\ idx' = [a \in Accounts |-> {p \in DOMAIN proposals : object_inserted(a, p, proposals[p])}]
    /\ UNCHANGED <<proposals, next, stack>>

Init ==
    /\ proposals = [p \in {} |-> 0]
    /\ next = 1
    /\ idx = [a \in Accounts |-> {}]
    /\ stack = <<>>

Next ==
    \/ \E S \in SUBSET Accounts : create(S)
    \/ \E p \in DOMAIN proposals : remove(p) \/ \E S \in SUBSET Accounts : update(p, S)
    \/ start_undo_session \/ merge \/ forget_oldest \/ undo
    \/ restart

Spec == Init /\ [][Next]_vars

(***************************************************************************)
(* Properties.                                                             *)
(***************************************************************************)
\* The part of a proposal_object that the index reads.
Proposal == [required : SUBSET Accounts, available : SUBSET Accounts]

\* Whatever is undone, merged, forgotten or reloaded, every proposal is found
\* under each account whose approval it requires (proposal_object.hpp 58: the
\* index "tracks all of the proposal objects that requrie approval of an
\* individual account").
RequiredIndexed == \A p \in DOMAIN proposals : \A a \in proposals[p].required : p \in idx[a]
============================================================================
