------------------------------- MODULE WpPool -------------------------------
(***************************************************************************)
(* The watchpoint pool of NEMU's debugger (nemu/src/monitor/sdb/           *)
(* watchpoint.c): NR_WP nodes linked into the list of watchpoints in use   *)
(* and the list of free ones.  A node is its number; 0 is NULL.            *)
(***************************************************************************)
EXTENDS Naturals

CONSTANTS
    NR_WP,        \* size of the pool: 32
    Expr,         \* the expressions a user may watch
    BadExpr,      \* those of them that expr() cannot evaluate
    WordVal,      \* values of an expression
    NDEBUG        \* is assert() compiled out?

ASSUME PoolAssumption ==
    /\ NR_WP \in Nat \ {0}
    /\ Expr # {} /\ BadExpr \subseteq Expr
    /\ 0 \in WordVal
    /\ NDEBUG \in BOOLEAN

VARIABLES
    wp_next,      \* the links
    wp_expr,      \* the watched expression
    wp_old,       \* old_val
    head, free_,  \* the two lists
    aborted       \* an assertion has failed: the process is gone

poolVars == <<wp_next, wp_expr, wp_old, head, free_, aborted>>

NULL == 0
WP == 1 .. NR_WP

PoolTypeOK ==
    /\ wp_next \in [WP -> WP \cup {NULL}]
    /\ wp_expr \in [WP -> Expr]
    /\ wp_old \in [WP -> WordVal]
    /\ head \in WP \cup {NULL}
    /\ free_ \in WP \cup {NULL}
    /\ aborted \in BOOLEAN

\* init_wp_pool; what the expression of an unused node is does not matter.
InitWpPool ==
    /\ wp_next = [i \in WP |-> IF i = NR_WP THEN NULL ELSE i + 1]
    /\ wp_expr = [i \in WP |-> CHOOSE e \in Expr : TRUE]
    /\ wp_old = [i \in WP |-> 0]
    /\ head = NULL
    /\ free_ = 1
    /\ aborted = FALSE

\* The nodes from h along next: the k-th one, NULL after the last.
Walk(h) ==
    LET at[k \in 0 .. NR_WP] ==
          IF k = 0 THEN h
          ELSE IF at[k - 1] = NULL THEN NULL ELSE wp_next[at[k - 1]]
    IN at

Nodes(h) == {Walk(h)[k] : k \in 0 .. NR_WP} \ {NULL}

(***************************************************************************)
(* add_watchpoint.  v is the value of e, 0 if it has none.                 *)
(***************************************************************************)
AddWatchpointFull ==
    /\ free_ = NULL
    /\ aborted' = ~NDEBUG
    /\ UNCHANGED <<wp_next, wp_expr, wp_old, head, free_>>

\* Mutation: the new node is linked to the free list's next node.
AddWatchpointKeepsLink(e, v) ==
    /\ free_ # NULL /\ e \notin BadExpr
    /\ head' = free_
    /\ free_' = wp_next[free_]
    /\ wp_expr' = [wp_expr EXCEPT ![free_] = e]
    /\ wp_old' = [wp_old EXCEPT ![free_] = v]
    /\ UNCHANGED <<wp_next, aborted>>

AddWatchpoint(e, v) ==
    /\ free_ # NULL /\ e \notin BadExpr
    /\ head' = free_
    /\ free_' = wp_next[free_]
    /\ wp_next' = [wp_next EXCEPT ![free_] = head]
    /\ wp_expr' = [wp_expr EXCEPT ![free_] = e]
    /\ wp_old' = [wp_old EXCEPT ![free_] = v]
    /\ UNCHANGED aborted

\* The expression has no value: new_wp, then free_wp of the same node, which
\* is the head of the list.
AddWatchpointFails(e) ==
    /\ free_ # NULL /\ e \in BadExpr
    /\ wp_expr' = [wp_expr EXCEPT ![free_] = e]
    /\ wp_old' = [wp_old EXCEPT ![free_] = 0]
    /\ UNCHANGED <<wp_next, head, free_, aborted>>

(***************************************************************************)
(* delete_watchpoint: free_wp of the node with that number, if it is used. *)
(***************************************************************************)
DeleteHead(wp) ==
    /\ wp = head /\ wp # NULL
    /\ head' = wp_next[head]
    /\ wp_next' = [wp_next EXCEPT ![wp] = free_]
    /\ free_' = wp
    /\ UNCHANGED <<wp_expr, wp_old, aborted>>

\* The assertion on the way says that wp does not follow prev.
DeleteInner(wp) ==
    /\ wp \in Nodes(head) /\ wp # head
    /\ aborted' = ~NDEBUG
    /\ LET prev == CHOOSE p \in Nodes(head) : wp_next[p] = wp
       IN IF NDEBUG
          THEN /\ wp_next' = [wp_next EXCEPT ![prev] = wp_next[wp], ![wp] = free_]
               /\ free_' = wp
          ELSE UNCHANGED <<wp_next, free_>>
    /\ UNCHANGED <<wp_expr, wp_old, head>>

DeleteMissing(wp) == wp \notin Nodes(head) /\ UNCHANGED poolVars

DeleteWatchpoint(wp) == DeleteHead(wp) \/ DeleteInner(wp) \/ DeleteMissing(wp)

(***************************************************************************)
(* check_watchpoints: vals holds the present value of every expression.    *)
(* expr() returns 0 when it fails, and the result is compared all the same.*)
(***************************************************************************)
Changed(vals) == {wp \in Nodes(head) : vals[wp_expr[wp]] # wp_old[wp]}

\* Mutation: the scan ends with the first watchpoint that has changed.
UpdateOldFirst(vals) ==
    wp_old' = IF Changed(vals) = {} THEN wp_old
              ELSE LET wp == Walk(head)[CHOOSE k \in 0 .. NR_WP :
                               /\ Walk(head)[k] \in Changed(vals)
                               /\ \A j \in 0 .. k - 1 : Walk(head)[j] \notin Changed(vals)]
                   IN [wp_old EXCEPT ![wp] = vals[wp_expr[wp]]]

UpdateOld(vals) ==
    wp_old' = [wp \in WP |-> IF wp \in Changed(vals) THEN vals[wp_expr[wp]]
                             ELSE wp_old[wp]]

CheckWatchpoints(vals) ==
    UpdateOld(vals) /\ UNCHANGED <<wp_next, wp_expr, head, free_, aborted>>

-----------------------------------------------------------------------------

(***************************************************************************)
(* The two lists are finite, share no node, and together hold every node:  *)
(* whatever is added and deleted, no watchpoint is lost and none is handed *)
(* out twice.                                                              *)
(***************************************************************************)
PoolIntact ==
    /\ Walk(head)[NR_WP] = NULL /\ Walk(free_)[NR_WP] = NULL
    /\ Nodes(head) \cap Nodes(free_) = {}
    /\ Nodes(head) \cup Nodes(free_) = WP

=============================================================================
