------------------------- MODULE NemuMonitor_proofs -------------------------
(***************************************************************************)
(* The debugger of NEMU.                                                   *)
(*   - The watchpoint pool: its two lists share out the nodes, however     *)
(*     watchpoints come and go, and every watchpoint in use remembers the  *)
(*     value its expression had when the program last stopped or was       *)
(*     checked.                                                            *)
(*   - DiffTest and the end of the program, with watchpoints or without    *)
(*     and whatever the debugger reads: a mismatch aborts the run unless   *)
(*     the instruction or the debugger asked for the check to be skipped   *)
(*     or a watchpoint hides it, the reference keeps in step, and an end   *)
(*     is lost only to a watchpoint that changes with it.                  *)
(***************************************************************************)
EXTENDS NemuMonitor, WellFoundedInduction, TLAPS

-----------------------------------------------------------------------------
(* The watchpoint pool.                                                    *)

(***************************************************************************)
(* Numbers are well-founded: what takes the place of induction below.      *)
(***************************************************************************)
LEMMA LeastNat ==
    ASSUME NEW T, T \subseteq Nat, T # {}
    PROVE  \E m \in T : \A k \in T : m <= k
  <1> DEFINE R == OpToRel(<, Nat)
  <1>1. IsWellFoundedOn(R, Nat)
    BY NatLessThanWellFounded
  <1>2. PICK m \in T : \A k \in T : ~(<<k, m>> \in R)
    BY <1>1, WFMin
  <1>3. \A k \in T : <<k, m>> \in Nat \X Nat
    OBVIOUS
  <1>4. \A k \in T : ~(k < m)
    BY <1>2, <1>3 DEF OpToRel
  <1>5. \A k \in T : m <= k
    BY <1>4
  <1> QED
    BY <1>5

\* From h the links next lead through the m nodes of s, none of them twice,
\* and then to NULL.
IsList(next, h, s, m) ==
    /\ s \in [1 .. m -> WP]
    /\ \A i, j \in 1 .. m : s[i] = s[j] => i = j
    /\ h = IF m = 0 THEN NULL ELSE s[1]
    /\ \A i \in 1 .. m : next[s[i]] = IF i = m THEN NULL ELSE s[i + 1]

(***************************************************************************)
(* The walk along a list visits its nodes in order, then stays at NULL.    *)
(* Walk is recursive: the walk that the list describes satisfies its       *)
(* equation, and no other function does.                                   *)
(***************************************************************************)
LEMMA WalkList ==
    ASSUME NEW h, NEW m \in 0 .. NR_WP, NEW s, IsList(wp_next, h, s, m)
    PROVE  \A k \in 0 .. NR_WP : Walk(h)[k] = IF k < m THEN s[k + 1] ELSE NULL
  <1> DEFINE w == [k \in 0 .. NR_WP |-> IF k < m THEN s[k + 1] ELSE NULL]
             F(at) == [k \in 0 .. NR_WP |->
                          IF k = 0 THEN h
                          ELSE IF at[k - 1] = NULL THEN NULL ELSE wp_next[at[k - 1]]]
  <1>0. NR_WP \in Nat \ {0}
    BY PoolAssumption
  <1>1. w = F(w)
    <2> SUFFICES ASSUME NEW k \in 0 .. NR_WP
                 PROVE  w[k] = (IF k = 0 THEN h
                                ELSE IF w[k - 1] = NULL THEN NULL ELSE wp_next[w[k - 1]])
      <3>1. w = [k \in 0 .. NR_WP |-> w[k]]
        OBVIOUS
      <3> HIDE DEF w
      <3> QED
        BY <3>1
    <2>1. CASE k = 0
      BY <2>1 DEF IsList
    <2>2. CASE k # 0
      <3>1. k - 1 \in 0 .. NR_WP /\ k - 1 < NR_WP /\ k \in 1 .. NR_WP
        BY <2>2, <1>0
      <3>2. w[k - 1] = IF k - 1 < m THEN s[k] ELSE NULL
        BY <3>1
      <3>3. CASE k <= m
        <4>1. k \in 1 .. m /\ s[k] \in WP /\ s[k] # NULL
          BY <3>1, <3>3 DEF IsList, WP, NULL
        <4> QED
          BY <3>1, <3>2, <3>3, <4>1, <2>2 DEF IsList
      <3>4. CASE ~(k <= m)
        BY <3>1, <3>2, <3>4, <2>2
      <3> QED
        BY <3>3, <3>4
    <2> QED
      BY <2>1, <2>2
  <1>2. Walk(h) = CHOOSE at : at = F(at)
    BY DEF Walk
  <1>3. Walk(h) = F(Walk(h))
    <2> HIDE DEF F, w
    <2> QED
      BY <1>1, <1>2
  <1> DEFINE v == Walk(h)
             T == {k \in 0 .. NR_WP : v[k] # w[k]}
  <1>4. T = {}
    <2> SUFFICES ASSUME T # {} PROVE FALSE
      OBVIOUS
    <2>1. T \subseteq Nat
      <3>1. T \subseteq 0 .. NR_WP
        OBVIOUS
      <3> HIDE DEF T
      <3> QED
        BY <3>1, <1>0
    <2>2. PICK k \in T : \A j \in T : k <= j
      BY <2>1, LeastNat
    <2>3. k \in 0 .. NR_WP /\ v[k] # w[k]
      OBVIOUS
    <2>4. k = 0 \/ v[k - 1] = w[k - 1]
      <3> HIDE DEF v, w
      <3>1. k # 0 => k - 1 \in 0 .. NR_WP /\ ~(k <= k - 1)
        BY <2>3, <1>0
      <3> QED
        BY <2>2, <3>1
    <2>5. v[k] = F(v)[k] /\ w[k] = F(w)[k]
      BY <1>1, <1>3
    <2>6. F(v)[k] = F(w)[k]
      <3> HIDE DEF v, w
      <3> QED
        BY <2>3, <2>4
    <2> QED
      BY <2>3, <2>5, <2>6
  <1> QED
    BY <1>4

NodesOf(s, m) == {s[i] : i \in 1 .. m}

(***************************************************************************)
(* The walk ends within the pool, and Nodes are the nodes of the list.     *)
(***************************************************************************)
LEMMA NodesList ==
    ASSUME NEW h, NEW m \in 0 .. NR_WP, NEW s, IsList(wp_next, h, s, m)
    PROVE  /\ Walk(h)[NR_WP] = NULL
           /\ Nodes(h) = NodesOf(s, m)
  <1>0. NR_WP \in Nat \ {0} /\ m \in Nat
    BY PoolAssumption
  <1>1. \A k \in 0 .. NR_WP : Walk(h)[k] = IF k < m THEN s[k + 1] ELSE NULL
    BY WalkList
  <1>2. Walk(h)[NR_WP] = NULL
    BY <1>0, <1>1
  <1>3. ASSUME NEW x \in Nodes(h) PROVE x \in {s[i] : i \in 1 .. m}
    <2>1. PICK k \in 0 .. NR_WP : x = Walk(h)[k] /\ x # NULL
      BY DEF Nodes
    <2>2. k < m /\ x = s[k + 1]
      BY <1>1, <2>1
    <2>3. k + 1 \in 1 .. m
      BY <1>0, <2>2
    <2> QED
      BY <2>2, <2>3
  <1>4. ASSUME NEW i \in 1 .. m PROVE s[i] \in Nodes(h)
    <2>1. i - 1 \in 0 .. NR_WP /\ i - 1 < m /\ (i - 1) + 1 = i
      BY <1>0
    <2>2. Walk(h)[i - 1] = s[i]
      BY <1>1, <2>1
    <2>3. s[i] # NULL
      BY DEF IsList, WP, NULL
    <2> QED
      BY <2>1, <2>2, <2>3 DEF Nodes
  <1> QED
    BY <1>2, <1>3, <1>4 DEF NodesOf

\* The list of p nodes A without its k-th; B with x in front.
Without(A, p, k) == [i \in 1 .. p - 1 |-> IF i < k THEN A[i] ELSE A[i + 1]]
Pushed(x, B, q) == [i \in 1 .. q + 1 |-> IF i = 1 THEN x ELSE B[i - 1]]

(***************************************************************************)
(* The first node of a list is relinked elsewhere: its rest is a list.     *)
(***************************************************************************)
LEMMA TakeFirst ==
    ASSUME NEW next \in [WP -> WP \cup {NULL}], NEW p \in Nat \ {0}, NEW a, NEW b, NEW A,
           IsList(next, a, A, p)
    PROVE  /\ a \in WP
           /\ IsList([next EXCEPT ![a] = b], next[a], Without(A, p, 1), p - 1)
  <1> DEFINE W == Without(A, p, 1)
             n2 == [next EXCEPT ![a] = b]
  <1>1. 1 \in 1 .. p /\ a = A[1] /\ a \in WP
    BY DEF IsList
  <1>2. \A i \in 1 .. p - 1 : i \in 1 .. p /\ i + 1 \in 1 .. p /\ i + 1 # 1 /\ W[i] = A[i + 1]
    BY DEF Without
  <1>3. W \in [1 .. p - 1 -> WP]
    BY <1>2 DEF Without, IsList
  <1>4. \A i, j \in 1 .. p - 1 : W[i] = W[j] => i = j
    BY <1>2 DEF IsList
  <1>5. next[a] = IF p - 1 = 0 THEN NULL ELSE W[1]
    BY <1>1, <1>2 DEF IsList
  <1>6. ASSUME NEW i \in 1 .. p - 1
        PROVE  n2[W[i]] = IF i = p - 1 THEN NULL ELSE W[i + 1]
    <2>1. W[i] \in WP /\ W[i] # a
      BY <1>1, <1>2, <1>3 DEF IsList
    <2>2. n2[W[i]] = next[A[i + 1]]
      BY <1>2, <2>1
    <2>3. i # p - 1 => i + 1 \in 1 .. p - 1
      OBVIOUS
    <2> QED
      BY <1>2, <2>2, <2>3 DEF IsList
  <1> QED
    BY <1>1, <1>3, <1>4, <1>5, <1>6 DEF IsList

(***************************************************************************)
(* A node inside a list is unlinked by its predecessor.                    *)
(***************************************************************************)
LEMMA TakeInner ==
    ASSUME NEW next \in [WP -> WP \cup {NULL}], NEW p \in Nat, NEW a, NEW b, NEW A,
           NEW k \in 2 .. p, IsList(next, a, A, p)
    PROVE  IsList([next EXCEPT ![A[k - 1]] = next[A[k]], ![A[k]] = b], a, Without(A, p, k), p - 1)
  <1> DEFINE W == Without(A, p, k)
             n2 == [next EXCEPT ![A[k - 1]] = next[A[k]], ![A[k]] = b]
  <1>1. /\ k \in 1 .. p /\ k - 1 \in 1 .. p /\ k - 1 # k
        /\ A[k] \in WP /\ A[k - 1] \in WP /\ A[k] # A[k - 1]
    BY DEF IsList
  <1>2. \A i \in 1 .. p - 1 : /\ i \in 1 .. p /\ i + 1 \in 1 .. p
                             /\ W[i] = IF i < k THEN A[i] ELSE A[i + 1]
    BY DEF Without
  <1>3. W \in [1 .. p - 1 -> WP]
    BY <1>2 DEF Without, IsList
  <1>4. \A i, j \in 1 .. p - 1 : W[i] = W[j] => i = j
    <2> SUFFICES ASSUME NEW i \in 1 .. p - 1, NEW j \in 1 .. p - 1, W[i] = W[j] PROVE i = j
      OBVIOUS
    <2>1. (IF i < k THEN i ELSE i + 1) = (IF j < k THEN j ELSE j + 1)
      BY <1>2 DEF IsList
    <2> QED
      BY <2>1
  <1>5. a = IF p - 1 = 0 THEN NULL ELSE W[1]
    BY <1>1, <1>2 DEF IsList
  <1>6. ASSUME NEW i \in 1 .. p - 1
        PROVE  n2[W[i]] = IF i = p - 1 THEN NULL ELSE W[i + 1]
    <2>0. i # p - 1 => i + 1 \in 1 .. p - 1
      OBVIOUS
    <2>1. CASE i < k - 1
      <3>1. W[i] = A[i] /\ A[i] \in WP /\ A[i] # A[k] /\ A[i] # A[k - 1]
        BY <1>1, <1>2, <2>1 DEF IsList
      <3>2. n2[W[i]] = next[A[i]]
        BY <3>1
      <3>3. i # p /\ i # p - 1 /\ W[i + 1] = A[i + 1]
        BY <1>2, <2>0, <2>1
      <3> QED
        BY <1>2, <3>2, <3>3 DEF IsList
    <2>2. CASE i = k - 1
      <3>1. W[i] = A[k - 1] /\ n2[W[i]] = next[A[k]]
        BY <1>1, <1>2, <2>2
      <3>2. (i = p - 1) <=> (k = p)
        BY <2>2
      <3>3. k # p => W[i + 1] = A[k + 1]
        BY <1>2, <2>0, <2>2, <3>2
      <3> QED
        BY <1>1, <3>1, <3>2, <3>3 DEF IsList
    <2>3. CASE i > k - 1
      <3>1. W[i] = A[i + 1] /\ A[i + 1] \in WP /\ A[i + 1] # A[k] /\ A[i + 1] # A[k - 1]
        <4>1. i + 1 # k /\ i + 1 # k - 1 /\ ~(i < k)
          BY <2>3
        <4> QED
          BY <1>1, <1>2, <4>1 DEF IsList
      <3>2. n2[W[i]] = next[A[i + 1]]
        BY <3>1
      <3>3. i # p - 1 => W[i + 1] = A[(i + 1) + 1]
        BY <1>2, <2>0, <2>3
      <3> QED
        BY <1>2, <3>2, <3>3 DEF IsList
    <2> QED
      BY <2>1, <2>2, <2>3
  <1> QED
    BY <1>3, <1>4, <1>5, <1>6 DEF IsList

(***************************************************************************)
(* A node that is not in a list is put in front of it.                     *)
(***************************************************************************)
LEMMA Push ==
    ASSUME NEW next \in [WP -> WP \cup {NULL}], NEW q \in Nat, NEW b, NEW B, NEW x \in WP,
           IsList(next, b, B, q), \A i \in 1 .. q : B[i] # x,
           NEW n2, n2[x] = b, \A i \in 1 .. q : n2[B[i]] = next[B[i]]
    PROVE  IsList(n2, x, Pushed(x, B, q), q + 1)
  <1> DEFINE P == Pushed(x, B, q)
  <1>1. \A i \in 1 .. q + 1 : /\ i # 1 => i - 1 \in 1 .. q
                             /\ P[i] = IF i = 1 THEN x ELSE B[i - 1]
    BY DEF Pushed
  <1>2. P \in [1 .. q + 1 -> WP]
    BY <1>1 DEF Pushed, IsList
  <1>3. \A i, j \in 1 .. q + 1 : P[i] = P[j] => i = j
    <2> SUFFICES ASSUME NEW i \in 1 .. q + 1, NEW j \in 1 .. q + 1, P[i] = P[j] PROVE i = j
      OBVIOUS
    <2>1. CASE i = 1 \/ j = 1
      BY <1>1, <2>1
    <2>2. CASE i # 1 /\ j # 1
      <3>1. i - 1 = j - 1
        BY <1>1, <2>2 DEF IsList
      <3> QED
        BY <3>1
    <2> QED
      BY <2>1, <2>2
  <1>4. x = IF q + 1 = 0 THEN NULL ELSE P[1]
    BY <1>1
  <1>5. ASSUME NEW i \in 1 .. q + 1
        PROVE  n2[P[i]] = IF i = q + 1 THEN NULL ELSE P[i + 1]
    <2>0. i # q + 1 => i + 1 \in 1 .. q + 1 /\ P[i + 1] = B[i]
      BY <1>1
    <2>1. CASE i = 1
      <3>1. n2[P[i]] = b
        BY <1>1, <2>1
      <3>2. (i = q + 1) <=> (q = 0)
        BY <2>1
      <3> QED
        BY <2>0, <2>1, <3>1, <3>2 DEF IsList
    <2>2. CASE i # 1
      <3>1. i - 1 \in 1 .. q /\ P[i] = B[i - 1] /\ n2[P[i]] = next[B[i - 1]]
        BY <1>1, <2>2
      <3>2. next[B[i - 1]] = IF i - 1 = q THEN NULL ELSE B[(i - 1) + 1]
        BY <3>1 DEF IsList
      <3>3. ((i - 1 = q) <=> (i = q + 1)) /\ (i - 1) + 1 = i
        OBVIOUS
      <3> QED
        BY <2>0, <3>1, <3>2, <3>3
    <2> QED
      BY <2>1, <2>2
  <1> QED
    BY <1>2, <1>3, <1>4, <1>5 DEF IsList

-----------------------------------------------------------------------------
(* DiffTest and the end of the program.                                    *)

(***************************************************************************)
(* The inductive invariant: a pending request to skip comes from the       *)
(* debugger or from the instruction in flight, which is why no check goes  *)
(* missing; while the loop runs the state is RUNNING, or QUIT between a    *)
(* poll and the next instruction.                                          *)
(***************************************************************************)
DiffInv ==
    /\ ctl = "device" => nstate = "RUNNING"
    /\ ctl = "loop" => nstate \in {"RUNNING", "QUIT"}
    /\ RefInStep
    /\ is_skip_ref => peeked \/ (ctl = "trace" /\ touched)

\* What a command does to the loop and to DiffTest.
CommandEffect ==
    /\ UNCHANGED <<cpu, ref, overruled>>
    /\ is_skip_ref' => is_skip_ref \/ peeked'
    /\ peeked => peeked'
    /\ \/ ctl' = ctl /\ nstate' = nstate
       \/ ctl' = "loop" /\ nstate' = "RUNNING" /\ nstate \notin Ended
       \/ ctl' = "exited" /\ (nstate' = nstate \/ nstate' = "QUIT")

(***************************************************************************)
(* A command starts the loop, leaves it alone or exits; it asks DiffTest   *)
(* to skip only when it reads a device.                                    *)
(***************************************************************************)
LEMMA CommandQuiet ==
    ASSUME Command
    PROVE  ctl = "prompt" /\ CommandEffect
<1> USE DEF CommandEffect, histVars
<1>1. CASE CmdC
  BY <1>1 DEF CmdC, Dispatch, AtPrompt, CpuExec
<1>2. CASE CmdQ
  BY <1>2 DEF CmdQ, Dispatch, AtPrompt
<1>3. CASE EndOfInput
  BY <1>3 DEF EndOfInput, AtPrompt
<1>4. CASE \E n \in StepCounts : CmdSi(n)
  BY <1>4 DEF CmdSi, Dispatch, AtPrompt, CpuExec
<1>5. ASSUME NEW e \in Expr, CmdW(e)
      PROVE  ctl = "prompt" /\ CommandEffect
  <2>1. UNCHANGED <<is_skip_ref, histVars>> \/ SkipAfterEval({e})
    BY <1>5 DEF CmdW
  <2>2. ctl = "prompt" /\ UNCHANGED <<ctl, nstate, cpu, ref>>
    BY <1>5 DEF CmdW, Dispatch, AtPrompt
  <2>3. CASE UNCHANGED <<is_skip_ref, histVars>>
    BY <2>2, <2>3
  <2>4. CASE SkipAfterEval({e})
    <3>1. /\ is_skip_ref' = (is_skip_ref \/ ReadsDevice({e}))
          /\ peeked' = (peeked \/ ReadsDevice({e})) /\ overruled' = overruled
      BY <2>4 DEF SkipAfterEval
    <3> HIDE DEF CommandEffect
    <3>2. (is_skip_ref' => is_skip_ref \/ peeked') /\ (peeked => peeked')
      BY <3>1, Zenon
    <3> QED
      BY <2>2, <3>1, <3>2 DEF CommandEffect
  <2> QED
    BY <2>1, <2>3, <2>4
<1>6. ASSUME NEW e \in Expr, CmdP(e)
      PROVE  ctl = "prompt" /\ CommandEffect
  BY <1>6 DEF CmdP, SkipAfterEval, Dispatch, AtPrompt
<1>7. CASE \E no \in WP : CmdD(no)
  BY <1>7 DEF CmdD, Dispatch, AtPrompt
<1>8. QED
  BY <1>1, <1>2, <1>3, <1>4, <1>5, <1>6, <1>7 DEF Command

\* What trace_and_difftest decides, with watchpoints or without.
TraceEffect ==
    /\ is_skip_ref' => peeked'
    /\ nstate' = Verdict \/ (nstate' = "STOP" /\ (overruled' <=> Verdict \in Ended))

(***************************************************************************)
(* Trace has two ways to end: DiffTest's verdict stands, or the scan of    *)
(* the watchpoints stops the machine and overrules an end.                 *)
(***************************************************************************)
LEMMA TraceDecides == ASSUME Trace PROVE TraceEffect
<1>1. CASE CONFIG_WATCHPOINT
  <2>1. TraceWatch
    BY <1>1 DEF Trace
  <2>2. PICK vals \in Values :
            /\ nstate' = IF Changed(vals) # {} THEN "STOP" ELSE Verdict
            /\ overruled' = (Changed(vals) # {} /\ Verdict \in Ended)
    BY <2>1 DEF TraceWatch
  <2>3. is_skip_ref' => peeked'
    <3> DEFINE exprs == {wp_expr[wp] : wp \in Nodes(head)}
    <3>1. is_skip_ref' = ReadsDevice(exprs) /\ peeked' = ReadsDevice(exprs)
      BY <2>1 DEF TraceWatch, SkipAfterStep
    <3> HIDE DEF exprs
    <3> QED
      BY <3>1, Zenon
  <2>4. nstate' = Verdict \/ (nstate' = "STOP" /\ (overruled' <=> Verdict \in Ended))
    <3>1. CASE Changed(vals) = {}
      BY <2>2, <3>1
    <3>2. CASE Changed(vals) # {}
      <4>1. overruled' = (Verdict \in Ended)
        BY <2>2, <3>2
      <4> QED
        BY <2>2, <3>2, <4>1, Zenon
    <3> QED
      BY <3>1, <3>2
  <2> QED
    BY <2>3, <2>4 DEF TraceEffect
<1>2. CASE ~CONFIG_WATCHPOINT
  <2>1. TraceOnly
    BY <1>2 DEF Trace
  <2> QED
    BY <2>1 DEF TraceOnly, SkipAfterStep, ReadsDevice, TraceEffect
<1> QED
  BY <1>1, <1>2

(***************************************************************************)
(* Every step of the loop preserves the invariant.                         *)
(***************************************************************************)
LEMMA LoopPreserves ==
    ASSUME DiffInv, Loop
    PROVE  DiffInv'
<1> USE DEF DiffInv, RefInStep, Settled
<1>1. CASE ExecOnce
  BY <1>1 DEF ExecOnce, ExecPlain, ExecDevice, ExecTrap, InLoop
<1>2. CASE Trace
  <2>1. ref' = RefAfter /\ cpu' = cpu
    BY <1>2 DEF Trace
  <2>2. ctl' = IF nstate' = "RUNNING" THEN "device" ELSE "prompt"
    BY <1>2 DEF Trace
  <2>3. nstate' # "ABORT" /\ ~overruled' => ref' = cpu
    BY <1>2, <2>1, TraceDecides DEF TraceEffect, RefAfter, Verdict, Ended
  <2>4. is_skip_ref' => peeked'
    BY <1>2, TraceDecides DEF TraceEffect
  <2> QED
    BY <2>1, <2>2, <2>3, <2>4
<1>3. CASE DeviceUpdate
  BY <1>3 DEF DeviceUpdate, PollEvents, histVars
<1>4. CASE LoopEnd
  BY <1>4 DEF LoopEnd, histVars
<1>5. QED
  BY <1>1, <1>2, <1>3, <1>4 DEF Loop

\* Every step of the debugger, the loop and its callees keeps DiffTest sound.
LEMMA NextPreserves ==
    ASSUME DiffInv, [Next]_vars
    PROVE  DiffInv'
<1>1. CASE Command
  BY <1>1, CommandQuiet DEF CommandEffect, DiffInv, RefInStep, Settled, Ended
<1>2. CASE Batch
  BY <1>2 DEF Batch, CpuExec, DiffInv, RefInStep, Settled, Ended, histVars
<1>3. CASE BatchEnd
  BY <1>3 DEF BatchEnd, DiffInv, RefInStep, Settled, histVars
<1>4. CASE Loop
  BY <1>4, LoopPreserves
<1>5. CASE CloseWindow
  BY <1>5 DEF CloseWindow, DiffInv, RefInStep, Settled, histVars
<1>6. CASE Gone \/ UNCHANGED vars
  BY <1>6 DEF Gone, vars, DiffInv, RefInStep, Settled, histVars
<1>7. QED
  BY <1>1, <1>2, <1>3, <1>4, <1>5, <1>6 DEF Next

(***************************************************************************)
(* DiffTest (difftest_step), with watchpoints or without, whatever the     *)
(* user reads at the prompt and in whatever order the program traps, the   *)
(* watchpoints change and the window is closed: an instruction that goes   *)
(* wrong aborts the run, unless it or the debugger touched a device since  *)
(* the last check or a watchpoint hides the mismatch; until then the       *)
(* reference is in step.                                                   *)
(***************************************************************************)
THEOREM DiffTestSound == Spec => DiffTestFaithful
<1>1. Init => DiffInv
  BY DEF Init, DiffInv, RefInStep, Settled
<1>2. DiffInv /\ [Next]_vars => DiffInv'
  BY NextPreserves
<1>3. DiffInv => RefInStep
  BY DEF DiffInv
<1>4. DiffInv /\ [Next]_vars
        => [ctl = "trace" /\ ctl' # "trace" /\ cpu # Right(ref)
               => nstate' = "ABORT" \/ overruled' \/ touched \/ peeked]_vars
  <2> SUFFICES ASSUME DiffInv, Next, ctl = "trace", ctl' # "trace", cpu # Right(ref),
                      ~touched, ~peeked
               PROVE  nstate' = "ABORT" \/ overruled'
    BY DEF vars
  <2>1. Trace
    <3>1. ~Command
      BY CommandQuiet
    <3> QED
      BY <3>1 DEF Next, Loop, Batch, BatchEnd, CloseWindow, Gone, ExecOnce, ExecPlain,
                  ExecDevice, ExecTrap, InLoop, DeviceUpdate, LoopEnd, vars
  <2>2. Verdict = "ABORT"
    BY DEF DiffInv, Verdict
  <2> QED
    BY <2>1, <2>2, TraceDecides DEF TraceEffect, Ended
<1>5. QED
  BY <1>1, <1>2, <1>3, <1>4, PTL DEF Spec, DiffTestFaithful, MismatchAborts

(***************************************************************************)
(* cpu_exec: a program that has ended stays ended, whatever is typed,      *)
(* unless a watchpoint changes at the instruction that ends it.            *)
(***************************************************************************)
THEOREM EndFinal == Spec => EndKept
<1>1. ASSUME [Next]_vars, nstate \in Ended
      PROVE  nstate' \in Ended \/ (ctl = "trace" /\ overruled')
  <2>1. CASE Command
    BY <1>1, <2>1, CommandQuiet DEF CommandEffect, Ended
  <2>2. CASE Trace
    <3>1. Verdict \in Ended /\ ctl = "trace"
      BY <1>1, <2>2 DEF Trace, Verdict, Ended
    <3> QED
      BY <2>2, <3>1, TraceDecides DEF TraceEffect
  <2>3. CASE ExecOnce \/ DeviceUpdate \/ LoopEnd
    BY <1>1, <2>3 DEF ExecOnce, ExecPlain, ExecDevice, ExecTrap, DeviceUpdate, PollEvents,
                      LoopEnd, Ended
  <2>4. CASE Batch \/ BatchEnd \/ CloseWindow \/ Gone \/ UNCHANGED vars
    BY <1>1, <2>4 DEF Batch, CpuExec, BatchEnd, CloseWindow, Gone, vars
  <2>5. QED
    BY <1>1, <2>1, <2>2, <2>3, <2>4 DEF Next, Loop
<1>2. [Next]_vars => [(nstate \in Ended) => (nstate' \in Ended \/ (ctl = "trace" /\ overruled'))]_vars
  BY <1>1
<1>3. QED
  BY <1>2, PTL DEF Spec, EndKept

-----------------------------------------------------------------------------
(* The watchpoints.                                                        *)

\* Each node of the pool is in exactly one of A and B.
Split(A, p, B, q) ==
    \A x \in WP : (\E i \in 1 .. p : A[i] = x) <=> ~(\E j \in 1 .. q : B[j] = x)

\* The nodes in use and the free ones: two lists that share no node and
\* between them hold the whole pool.
Lists(next, h, f, m, n, hs, fs) ==
    /\ m + n = NR_WP
    /\ IsList(next, h, hs, m) /\ IsList(next, f, fs, n)
    /\ Split(hs, m, fs, n)

\* A node in use watches an expression that has a value, and between two
\* instructions remembers it.
Remembered(wp) ==
    /\ wp_expr[wp] \in Expr \ BadExpr
    /\ CONFIG_WATCHPOINT /\ Settled /\ wp_expr[wp] \notin DeviceExpr
          => wp_old[wp] = ExprVal(wp_expr[wp], cpu)

\* The inductive invariant of the pool and of what it remembers.
UsedAndFree(m, n) ==
    \E hs \in [1 .. m -> WP], fs \in [1 .. n -> WP] :
        /\ Lists(wp_next, head, free_, m, n, hs, fs)
        /\ \A i \in 1 .. m : Remembered(hs[i])

WatchInv == \E m, n \in 0 .. NR_WP : UsedAndFree(m, n)

(***************************************************************************)
(* Which of the two lists is called the first does not matter.             *)
(***************************************************************************)
LEMMA Swapped ==
    ASSUME NEW next, NEW h, NEW f, NEW m \in Nat, NEW n \in Nat, NEW hs, NEW fs,
           Lists(next, h, f, m, n, hs, fs)
    PROVE  Lists(next, f, h, n, m, fs, hs)
  BY DEF Lists, Split

(***************************************************************************)
(* Taking a node out of a list leaves the others, pushing it adds it.      *)
(***************************************************************************)
LEMMA Members ==
    ASSUME NEW p \in Nat, NEW q \in Nat, NEW A \in [1 .. p -> WP], NEW B \in [1 .. q -> WP],
           NEW k \in 1 .. p, \A i, j \in 1 .. p : A[i] = A[j] => i = j,
           Split(A, p, B, q)
    PROVE  /\ \A i \in 1 .. p - 1 : \E j \in 1 .. p : Without(A, p, k)[i] = A[j]
           /\ Split(Without(A, p, k), p - 1, Pushed(A[k], B, q), q + 1)
  <1> DEFINE W == Without(A, p, k)
             P == Pushed(A[k], B, q)
  <1>1. \A i \in 1 .. p - 1 : /\ i \in 1 .. p /\ i + 1 \in 1 .. p
                             /\ W[i] = IF i < k THEN A[i] ELSE A[i + 1]
    BY DEF Without
  <1>2. \A i \in 1 .. q + 1 : /\ i # 1 => i - 1 \in 1 .. q
                             /\ P[i] = IF i = 1 THEN A[k] ELSE B[i - 1]
    BY DEF Pushed
  <1>3. \A i \in 1 .. p - 1 : \E j \in 1 .. p : W[i] = A[j] /\ j # k
    <2> SUFFICES ASSUME NEW i \in 1 .. p - 1 PROVE \E j \in 1 .. p : W[i] = A[j] /\ j # k
      OBVIOUS
    <2>1. CASE i < k
      BY <1>1, <2>1
    <2>2. CASE ~(i < k)
      <3>1. i + 1 \in 1 .. p /\ W[i] = A[i + 1] /\ i + 1 # k
        BY <1>1, <2>2
      <3> QED
        BY <3>1
    <2> QED
      BY <2>1, <2>2
  <1>4. \A j \in 1 .. p : j # k => \E i \in 1 .. p - 1 : W[i] = A[j]
    <2> SUFFICES ASSUME NEW j \in 1 .. p, j # k PROVE \E i \in 1 .. p - 1 : W[i] = A[j]
      OBVIOUS
    <2>1. CASE j < k
      <3>1. j \in 1 .. p - 1 /\ W[j] = A[j]
        BY <1>1, <2>1
      <3> QED
        BY <3>1
    <2>2. CASE j > k
      <3>1. j - 1 \in 1 .. p - 1 /\ W[j - 1] = A[j]
        BY <1>1, <2>2
      <3> QED
        BY <3>1
    <2> QED
      BY <2>1, <2>2
  <1>5. \A x \in WP : (\E i \in 1 .. p - 1 : W[i] = x)
                      <=> (\E j \in 1 .. p : A[j] = x) /\ x # A[k]
    <2> SUFFICES ASSUME NEW x \in WP
                 PROVE  (\E i \in 1 .. p - 1 : W[i] = x)
                            <=> (\E j \in 1 .. p : A[j] = x) /\ x # A[k]
      OBVIOUS
    <2> HIDE DEF W
    <2>1. ASSUME NEW i \in 1 .. p - 1, W[i] = x
          PROVE  (\E j \in 1 .. p : A[j] = x) /\ x # A[k]
      <3>1. PICK j \in 1 .. p : W[i] = A[j] /\ j # k
        BY <1>3
      <3> QED
        BY <2>1, <3>1
    <2>2. ASSUME NEW j \in 1 .. p, A[j] = x, x # A[k]
          PROVE  \E i \in 1 .. p - 1 : W[i] = x
      BY <1>4, <2>2
    <2> QED
      BY <2>1, <2>2
  <1>6. \A x : (\E i \in 1 .. q + 1 : P[i] = x) <=> x = A[k] \/ (\E j \in 1 .. q : B[j] = x)
    <2>1. \A i \in 1 .. q + 1 : P[i] = A[k] \/ \E j \in 1 .. q : P[i] = B[j]
      BY <1>2
    <2>2. 1 \in 1 .. q + 1 /\ P[1] = A[k]
      BY <1>2
    <2>3. \A j \in 1 .. q : j + 1 \in 1 .. q + 1 /\ P[j + 1] = B[j]
      BY <1>2
    <2> HIDE DEF P
    <2> SUFFICES ASSUME NEW x
                 PROVE  (\E i \in 1 .. q + 1 : P[i] = x)
                            <=> x = A[k] \/ (\E j \in 1 .. q : B[j] = x)
      OBVIOUS
    <2>4. ASSUME NEW i \in 1 .. q + 1, P[i] = x
          PROVE  x = A[k] \/ (\E j \in 1 .. q : B[j] = x)
      BY <2>1, <2>4
    <2>5. ASSUME x = A[k] PROVE \E i \in 1 .. q + 1 : P[i] = x
      BY <2>2, <2>5
    <2>6. ASSUME NEW j \in 1 .. q, B[j] = x PROVE \E i \in 1 .. q + 1 : P[i] = x
      BY <2>3, <2>6
    <2> QED
      BY <2>4, <2>5, <2>6
  <1>7. \A x \in WP : (\E i \in 1 .. p - 1 : W[i] = x) <=> ~(\E j \in 1 .. q + 1 : P[j] = x)
    BY <1>5, <1>6 DEF Split
  <1> QED
    BY <1>3, <1>7 DEF Split

(***************************************************************************)
(* new_wp, and free_wp of the newest: the first node changes lists.        *)
(***************************************************************************)
LEMMA MoveFirst ==
    ASSUME NEW next \in [WP -> WP \cup {NULL}], NEW p \in Nat \ {0}, NEW q \in Nat,
           NEW a, NEW b, NEW A, NEW B, Lists(next, a, b, p, q, A, B)
    PROVE  Lists([next EXCEPT ![a] = b], next[a], a, p - 1, q + 1,
                 Without(A, p, 1), Pushed(a, B, q))
  <1> DEFINE n2 == [next EXCEPT ![a] = b]
  <1>1. IsList(next, a, A, p) /\ IsList(next, b, B, q) /\ 1 \in 1 .. p
    BY DEF Lists
  <1>2. a = A[1] /\ A \in [1 .. p -> WP] /\ B \in [1 .. q -> WP]
    BY <1>1 DEF IsList
  <1>3. a \in WP /\ IsList(n2, next[a], Without(A, p, 1), p - 1)
    BY <1>1, TakeFirst
  <1>4. ASSUME NEW i \in 1 .. q PROVE B[i] \in WP /\ B[i] # a
    <2>1. (\E j \in 1 .. p : A[j] = B[i]) <=> ~(\E j \in 1 .. q : B[j] = B[i])
      BY <1>2 DEF Lists, Split
    <2> QED
      BY <1>1, <1>2, <2>1
  <1>5. n2[a] = b /\ \A i \in 1 .. q : n2[B[i]] = next[B[i]]
    BY <1>3, <1>4
  <1>6. IsList(n2, a, Pushed(a, B, q), q + 1)
    <2> HIDE DEF n2
    <2> QED
      BY <1>1, <1>3, <1>4, <1>5, Push
  <1>7. \A i, j \in 1 .. p : A[i] = A[j] => i = j
    BY <1>1 DEF IsList
  <1>8. Split(A, p, B, q)
    BY DEF Lists
  <1>9. Split(Without(A, p, 1), p - 1, Pushed(a, B, q), q + 1)
    BY <1>1, <1>2, <1>7, <1>8, Members
  <1>10. (p - 1) + (q + 1) = NR_WP
    BY DEF Lists
  <1> QED
    BY <1>3, <1>6, <1>9, <1>10 DEF Lists

(***************************************************************************)
(* free_wp of a node that is not the newest, with the assertion compiled   *)
(* out.                                                                    *)
(***************************************************************************)
LEMMA MoveInner ==
    ASSUME NEW next \in [WP -> WP \cup {NULL}], NEW p \in Nat, NEW q \in Nat,
           NEW a, NEW b, NEW A, NEW B, Lists(next, a, b, p, q, A, B), NEW k \in 2 .. p
    PROVE  Lists([next EXCEPT ![A[k - 1]] = next[A[k]], ![A[k]] = b], a, A[k], p - 1, q + 1,
                 Without(A, p, k), Pushed(A[k], B, q))
  <1> DEFINE n2 == [next EXCEPT ![A[k - 1]] = next[A[k]], ![A[k]] = b]
  <1>1. IsList(next, a, A, p) /\ IsList(next, b, B, q) /\ k \in 1 .. p /\ k - 1 \in 1 .. p
    BY DEF Lists
  <1>2. A \in [1 .. p -> WP] /\ B \in [1 .. q -> WP] /\ A[k] \in WP /\ A[k - 1] \in WP
    BY <1>1 DEF IsList
  <1>3. IsList(n2, a, Without(A, p, k), p - 1)
    BY <1>1, TakeInner
  <1>4. ASSUME NEW i \in 1 .. q PROVE B[i] \in WP /\ B[i] # A[k] /\ B[i] # A[k - 1]
    <2>1. (\E j \in 1 .. p : A[j] = B[i]) <=> ~(\E j \in 1 .. q : B[j] = B[i])
      BY <1>2 DEF Lists, Split
    <2> QED
      BY <1>1, <1>2, <2>1
  <1>5. n2[A[k]] = b /\ \A i \in 1 .. q : n2[B[i]] = next[B[i]]
    BY <1>2, <1>4
  <1>6. IsList(n2, A[k], Pushed(A[k], B, q), q + 1)
    <2> HIDE DEF n2
    <2> QED
      BY <1>1, <1>2, <1>4, <1>5, Push
  <1>7. \A i, j \in 1 .. p : A[i] = A[j] => i = j
    BY <1>1 DEF IsList
  <1>8. Split(A, p, B, q)
    BY DEF Lists
  <1>9. Split(Without(A, p, k), p - 1, Pushed(A[k], B, q), q + 1)
    BY <1>1, <1>2, <1>7, <1>8, Members
  <1>10. (p - 1) + (q + 1) = NR_WP
    BY DEF Lists
  <1> QED
    BY <1>3, <1>6, <1>9, <1>10 DEF Lists

(***************************************************************************)
(* Every step keeps the types.                                             *)
(***************************************************************************)
LEMMA PoolType ==
    ASSUME PoolTypeOK, NEW vals \in Values,
           \/ AddWatchpointFull
           \/ \E e \in Expr : AddWatchpoint(e, vals[e]) \/ AddWatchpointFails(e)
           \/ \E no \in WP : DeleteWatchpoint(no)
           \/ CheckWatchpoints(vals)
           \/ UNCHANGED poolVars
    PROVE  PoolTypeOK'
  <1> USE DEF PoolTypeOK
  <1>0. vals \in [Expr -> WordVal] /\ 0 \in WordVal /\ NDEBUG \in BOOLEAN
    BY PoolAssumption, MonitorAssumption DEF Values
  <1>1. CASE AddWatchpointFull
    BY <1>0, <1>1 DEF AddWatchpointFull
  <1>2. ASSUME NEW e \in Expr, AddWatchpoint(e, vals[e]) PROVE PoolTypeOK'
    <2>1. free_ \in WP /\ vals[e] \in WordVal
      BY <1>0, <1>2 DEF AddWatchpoint
    <2> QED
      BY <1>2, <2>1 DEF AddWatchpoint
  <1>3. ASSUME NEW e \in Expr, AddWatchpointFails(e) PROVE PoolTypeOK'
    BY <1>0, <1>3 DEF AddWatchpointFails
  <1>4. ASSUME NEW no \in WP, DeleteWatchpoint(no) PROVE PoolTypeOK'
    <2>1. CASE DeleteHead(no)
      <3>1. wp_next[no] \in WP \cup {NULL}
        OBVIOUS
      <3> QED
        BY <2>1, <3>1 DEF DeleteHead
    <2>2. CASE DeleteInner(no)
      <3>1. wp_next[no] \in WP \cup {NULL}
        OBVIOUS
      <3>2. wp_next' \in [WP -> WP \cup {NULL}] /\ free_' \in WP \cup {NULL}
        BY <2>2, <3>1 DEF DeleteInner
      <3> QED
        BY <2>2, <3>2, <1>0 DEF DeleteInner
    <2>3. CASE DeleteMissing(no)
      BY <2>3 DEF DeleteMissing, poolVars
    <2> QED
      BY <1>4, <2>1, <2>2, <2>3 DEF DeleteWatchpoint
  <1>5. CASE CheckWatchpoints(vals)
    <2>1. ASSUME NEW wp \in WP PROVE vals[wp_expr[wp]] \in WordVal /\ wp_old[wp] \in WordVal
      BY <1>0
    <2>2. wp_old' \in [WP -> WordVal]
      BY <1>5, <2>1 DEF CheckWatchpoints, UpdateOld
    <2> QED
      BY <1>5, <2>2 DEF CheckWatchpoints
  <1>6. CASE UNCHANGED poolVars
    BY <1>6 DEF poolVars
  <1> QED
    BY <1>1, <1>2, <1>3, <1>4, <1>5, <1>6

(***************************************************************************)
(* The machine states expressions are evaluated in have values.            *)
(***************************************************************************)
LEMMA SomeValues == ASSUME TypeOK PROVE \E vals : vals \in Values
  <1> DEFINE v == [e \in Expr |-> IF e \in BadExpr THEN 0 ELSE ExprVal(e, cpu)]
  <1>1. 0 \in MVal /\ \A e \in Expr : ExprVal(e, cpu) \in MVal
    BY MonitorAssumption DEF TypeOK, MVal
  <1>2. v \in [Expr -> MVal]
    BY <1>1
  <1>3. v \in Values
    BY <1>2 DEF Values
  <1> QED
    BY <1>3

(***************************************************************************)
(* The pool is only touched by its operations.                             *)
(***************************************************************************)
LEMMA PoolStep ==
    ASSUME TypeOK, [Next]_vars
    PROVE  \E vals \in Values :
              \/ AddWatchpointFull
              \/ \E e \in Expr : AddWatchpoint(e, vals[e]) \/ AddWatchpointFails(e)
              \/ \E no \in WP : DeleteWatchpoint(no)
              \/ CheckWatchpoints(vals)
              \/ UNCHANGED poolVars
  <1>0. PICK v : v \in Values
    BY SomeValues
  <1>1. CASE Command
    <2>1. ASSUME NEW e \in Expr, CmdW(e)
          PROVE  \E vals \in Values : \/ AddWatchpointFull
                                      \/ AddWatchpoint(e, vals[e]) \/ AddWatchpointFails(e)
      BY <2>1 DEF CmdW
    <2>2. ASSUME NEW no \in WP, CmdD(no) PROVE DeleteWatchpoint(no)
      BY <2>2 DEF CmdD
    <2>3. CASE CmdC \/ CmdQ \/ EndOfInput \/ (\E n \in StepCounts : CmdSi(n)) \/ (\E e \in Expr : CmdP(e))
      <3>1. UNCHANGED poolVars
        BY <2>3 DEF CmdC, CmdQ, EndOfInput, CmdSi, CmdP
      <3> QED
        BY <1>0, <3>1
    <2> QED
      BY <1>0, <1>1, <2>1, <2>2, <2>3 DEF Command
  <1>2. CASE Trace
    <2>1. CASE CONFIG_WATCHPOINT
      <3>1. PICK vals \in Values : CheckWatchpoints(vals)
        BY <1>2, <2>1 DEF Trace, TraceWatch
      <3> QED
        BY <3>1
    <2>2. CASE ~CONFIG_WATCHPOINT
      <3>1. UNCHANGED poolVars
        BY <1>2, <2>2 DEF Trace, TraceOnly
      <3> QED
        BY <1>0, <3>1
    <2> QED
      BY <2>1, <2>2
  <1>3. CASE Batch \/ BatchEnd \/ CloseWindow \/ ExecOnce \/ DeviceUpdate \/ LoopEnd \/ Gone \/ UNCHANGED vars
    <2>1. UNCHANGED poolVars
      BY <1>3 DEF Batch, BatchEnd, CloseWindow, ExecOnce, ExecPlain, ExecDevice, ExecTrap,
                  DeviceUpdate, LoopEnd, Gone, vars, poolVars
    <2> QED
      BY <1>0, <2>1
  <1> QED
    BY <1>1, <1>2, <1>3 DEF Next, Loop

\* The truth values of the debugger.
Flags(a, b, c, d) == a \in BOOLEAN /\ b \in BOOLEAN /\ c \in BOOLEAN /\ d \in BOOLEAN

(***************************************************************************)
(* The request to skip and the history stay truth values.                  *)
(***************************************************************************)
LEMMA FlagsType ==
    ASSUME Flags(is_skip_ref, touched, peeked, overruled), [Next]_vars
    PROVE  Flags(is_skip_ref, touched, peeked, overruled)'
  <1> USE DEF Flags, histVars
  <1>1. CASE Command
    <2>1. CASE CmdC \/ CmdQ \/ EndOfInput \/ (\E n \in StepCounts : CmdSi(n)) \/ \E no \in WP : CmdD(no)
      BY <2>1 DEF CmdC, CmdQ, EndOfInput, CmdSi, CmdD
    <2>2. ASSUME NEW e \in Expr, CmdW(e) \/ CmdP(e)
          PROVE  Flags(is_skip_ref, touched, peeked, overruled)'
      <3>1. UNCHANGED <<is_skip_ref, histVars>> \/ SkipAfterEval({e})
        BY <2>2 DEF CmdW, CmdP
      <3> QED
        BY <3>1 DEF SkipAfterEval
    <2> QED
      BY <1>1, <2>1, <2>2 DEF Command
  <1>2. CASE Trace
    <2>1. CASE CONFIG_WATCHPOINT
      <3>1. TraceWatch /\ touched' = FALSE
        BY <1>2, <2>1 DEF Trace
      <3> QED
        BY <3>1 DEF TraceWatch, SkipAfterStep, ReadsDevice
    <2>2. CASE ~CONFIG_WATCHPOINT
      <3>1. TraceOnly /\ touched' = FALSE
        BY <1>2, <2>2 DEF Trace
      <3> QED
        BY <3>1 DEF TraceOnly, SkipAfterStep, ReadsDevice
    <2> QED
      BY <2>1, <2>2
  <1>3. CASE Batch \/ BatchEnd \/ CloseWindow \/ ExecOnce \/ DeviceUpdate \/ LoopEnd \/ Gone \/ UNCHANGED vars
    BY <1>3 DEF Batch, BatchEnd, CloseWindow, ExecOnce, ExecPlain, ExecDevice, ExecTrap,
                DeviceUpdate, LoopEnd, Gone, vars
  <1> QED
    BY <1>1, <1>2, <1>3 DEF Next, Loop

(***************************************************************************)
(* Commands, loop and window keep the types of the debugger's state.       *)
(***************************************************************************)
LEMMA MonitorType == ASSUME TypeOK, [Next]_vars PROVE TypeOK'
  <1>1. PoolTypeOK' /\ Flags(is_skip_ref, touched, peeked, overruled)'
    <2>1. Flags(is_skip_ref, touched, peeked, overruled)
      BY DEF TypeOK, Flags
    <2> QED
      BY <2>1, FlagsType, PoolStep, PoolType DEF TypeOK
  <1>2. \A v \in MVal : Right(v) \in MVal
    BY MonitorAssumption DEF Right, MVal
  <1> USE DEF TypeOK, Flags
  <1>3. CASE Command /\ UNCHANGED is_batch_mode
    <2> USE DEF Dispatch, AtPrompt, CpuExec
    <2>1. CASE CmdC
      <3>1. left' \in Int
        BY <2>1 DEF CmdC
      <3>2. /\ ctl' \in {ctl, "loop"} /\ nstate' \in {nstate, "RUNNING"} /\ sdl_quit' = FALSE
            /\ UNCHANGED <<halt_ret, cpu, ref>>
        BY <2>1 DEF CmdC
      <3> HIDE DEF Dispatch, AtPrompt, CpuExec
      <3> QED
        BY <1>1, <1>3, <3>1, <3>2
    <2>2. CASE CmdQ \/ EndOfInput
      BY <1>1, <1>3, <2>2 DEF CmdQ, EndOfInput, Ended
    <2>3. CASE \E n \in StepCounts : CmdSi(n)
      BY <1>1, <1>3, <2>3, MonitorAssumption DEF CmdSi
    <2>4. CASE \E e \in Expr : CmdW(e)
      <3>1. UNCHANGED <<ctl, left, nstate, halt_ret, cpu, ref>> /\ sdl_quit' = FALSE
        BY <2>4 DEF CmdW
      <3> QED
        BY <1>1, <1>3, <3>1
    <2>5. CASE \E e \in Expr : CmdP(e)
      BY <1>1, <1>3, <2>5 DEF CmdP
    <2>6. CASE \E no \in WP : CmdD(no)
      BY <1>1, <1>3, <2>6 DEF CmdD
    <2> QED
      BY <1>3, <2>1, <2>2, <2>3, <2>4, <2>5, <2>6 DEF Command
  <1>4. CASE (Batch \/ BatchEnd \/ CloseWindow) /\ UNCHANGED is_batch_mode
    <2>1. left' \in Int
      BY <1>4 DEF Batch, BatchEnd, CloseWindow, CpuExec
    <2>2. /\ ctl' \in {ctl, "loop", "exited"} /\ nstate' \in {nstate, "RUNNING"}
          /\ sdl_quit' \in {sdl_quit, TRUE}
          /\ UNCHANGED <<halt_ret, cpu, ref>>
      BY <1>4 DEF Batch, BatchEnd, CloseWindow, CpuExec
    <2> QED
      BY <1>1, <1>4, <2>1, <2>2
  <1>5. CASE ExecOnce /\ UNCHANGED is_batch_mode
    BY <1>1, <1>2, <1>5 DEF ExecOnce, ExecPlain, ExecDevice, ExecTrap, Ended
  <1>6. CASE Trace /\ UNCHANGED is_batch_mode
    <2>1. Verdict \in {"STOP", "RUNNING"} \cup Ended
      BY DEF Verdict, Ended
    <2>2. nstate' \in {"STOP", "RUNNING"} \cup Ended
      BY <1>6, <2>1 DEF Trace, TraceWatch, TraceOnly
    <2>4. ref' \in MVal
      BY <1>2, <1>6 DEF Trace, RefAfter
    <2>5. ctl' \in {"device", "prompt"} /\ UNCHANGED <<left, halt_ret, cpu, sdl_quit>>
      BY <1>6 DEF Trace
    <2> QED
      BY <1>1, <1>6, <2>2, <2>4, <2>5
  <1>7. CASE (DeviceUpdate \/ LoopEnd) /\ UNCHANGED is_batch_mode
    <2>1. left' \in Int
      BY <1>7 DEF DeviceUpdate, LoopEnd
    <2>2. /\ ctl' \in {"loop", "prompt"} /\ nstate' \in {nstate, "QUIT", "STOP"}
          /\ sdl_quit' \in {sdl_quit, FALSE}
          /\ UNCHANGED <<halt_ret, cpu, ref>>
      BY <1>7 DEF DeviceUpdate, PollEvents, LoopEnd
    <2> QED
      BY <1>1, <1>7, <2>1, <2>2 DEF Ended
  <1>8. CASE Gone \/ UNCHANGED vars
    BY <1>1, <1>8 DEF Gone, vars
  <1> QED
    BY <1>3, <1>4, <1>5, <1>6, <1>7, <1>8 DEF Next, Loop

(***************************************************************************)
(* The lists of an invariant state, with the shape the pool's operations   *)
(* need.                                                                   *)
(***************************************************************************)
LEMMA SetsUp ==
    ASSUME NEW m \in Nat, NEW n \in Nat, NEW hs, NEW fs, NEW next, NEW h, NEW f,
           Lists(next, h, f, m, n, hs, fs)
    PROVE  /\ m \in 0 .. NR_WP /\ n \in 0 .. NR_WP
           /\ hs \in [1 .. m -> WP] /\ fs \in [1 .. n -> WP]
           /\ \A i \in 1 .. m, j \in 1 .. n : hs[i] # fs[j]
           /\ (m = 0 <=> h = NULL) /\ (n = 0 <=> f = NULL)
           /\ m # 0 => h = hs[1]
           /\ n # 0 => f = fs[1]
  <1>1. m \in 0 .. NR_WP /\ n \in 0 .. NR_WP
    BY PoolAssumption DEF Lists
  <1>2. hs \in [1 .. m -> WP] /\ fs \in [1 .. n -> WP]
    BY DEF Lists, IsList
  <1>3. (m # 0 => 1 \in 1 .. m /\ h = hs[1]) /\ (n # 0 => 1 \in 1 .. n /\ f = fs[1])
    BY DEF Lists, IsList
  <1>4. NULL \notin WP /\ (m = 0 => h = NULL) /\ (n = 0 => f = NULL)
    BY DEF Lists, IsList, NULL, WP
  <1>5. ASSUME NEW i \in 1 .. m, NEW j \in 1 .. n PROVE hs[i] # fs[j]
    <2>1. (\E k \in 1 .. m : hs[k] = hs[i]) <=> ~(\E k \in 1 .. n : fs[k] = hs[i])
      BY <1>2 DEF Lists, Split
    <2> QED
      BY <2>1
  <1> QED
    BY <1>1, <1>2, <1>3, <1>4, <1>5

(***************************************************************************)
(* A step that leaves the pool alone, and the machine between two          *)
(* instructions.                                                           *)
(***************************************************************************)
LEMMA WatchQuiet ==
    ASSUME WatchInv, UNCHANGED <<wp_next, wp_expr, wp_old, head, free_>>,
           CONFIG_WATCHPOINT /\ Settled' => Settled /\ cpu' = cpu
    PROVE  WatchInv'
  BY DEF WatchInv, UsedAndFree, Remembered

(***************************************************************************)
(* add_watchpoint: the first free node is used, and remembers the value    *)
(* the expression has now.                                                 *)
(***************************************************************************)
LEMMA WatchAdd ==
    ASSUME TypeOK, WatchInv, NEW e \in Expr, NEW vals \in Values, AddWatchpoint(e, vals[e]),
           UNCHANGED <<ctl, cpu>>
    PROVE  WatchInv'
  <1>a. PICK m \in 0 .. NR_WP, n \in 0 .. NR_WP : UsedAndFree(m, n)
    BY DEF WatchInv
  <1>1. PICK hs \in [1 .. m -> WP], fs \in [1 .. n -> WP] :
            /\ Lists(wp_next, head, free_, m, n, hs, fs)
            /\ \A i \in 1 .. m : Remembered(hs[i])
    BY <1>a DEF UsedAndFree
  <1>2. m \in Nat /\ n \in Nat \ {0} /\ free_ = fs[1] /\ free_ \in WP /\ 1 \in 1 .. n
    BY <1>1, SetsUp DEF AddWatchpoint
  <1> DEFINE hs2 == Pushed(fs[1], hs, m)
             fs2 == Without(fs, n, 1)
  <1>3. Lists(wp_next, free_, head, n, m, fs, hs)
    BY <1>1, <1>2, Swapped
  <1>4. Lists([wp_next EXCEPT ![free_] = head], wp_next[free_], free_, n - 1, m + 1, fs2, hs2)
    <2>1. Lists([wp_next EXCEPT ![free_] = head], wp_next[free_], free_, n - 1, m + 1,
                fs2, Pushed(free_, hs, m))
      BY <1>2, <1>3, MoveFirst DEF TypeOK, PoolTypeOK
    <2> QED
      BY <1>2, <2>1
  <1>5. Lists(wp_next', free_', head', n - 1, m + 1, fs2, hs2)
    BY <1>4 DEF AddWatchpoint
  <1>6. Lists(wp_next', head', free_', m + 1, n - 1, hs2, fs2)
    BY <1>2, <1>5, Swapped
  <1>7. /\ m + 1 \in 0 .. NR_WP /\ n - 1 \in 0 .. NR_WP
        /\ hs2 \in [1 .. m + 1 -> WP] /\ fs2 \in [1 .. n - 1 -> WP]
    BY <1>2, <1>6, SetsUp
  <1>8. ASSUME NEW i \in 1 .. m + 1 PROVE Remembered(hs2[i])'
    <2>1. CASE i = 1
      <3>1. hs2[i] = free_
        BY <1>2, <2>1 DEF Pushed
      <3>2. wp_expr'[free_] = e /\ wp_old'[free_] = vals[e] /\ e \in Expr \ BadExpr
        BY <1>2 DEF AddWatchpoint, TypeOK, PoolTypeOK
      <3>3. e \notin DeviceExpr => vals[e] = ExprVal(e, cpu)
        BY <3>2 DEF Values
      <3> QED
        BY <3>1, <3>2, <3>3 DEF Remembered
    <2>2. CASE i # 1
      <3>1. i - 1 \in 1 .. m /\ hs2[i] = hs[i - 1]
        BY <1>2, <2>2 DEF Pushed
      <3>2. hs[i - 1] \in WP /\ hs[i - 1] # free_
        BY <1>1, <1>2, <3>1, SetsUp
      <3>3. wp_expr'[hs[i - 1]] = wp_expr[hs[i - 1]] /\ wp_old'[hs[i - 1]] = wp_old[hs[i - 1]]
        BY <3>2 DEF AddWatchpoint, TypeOK, PoolTypeOK
      <3>4. Remembered(hs[i - 1]) /\ Settled' = Settled /\ cpu' = cpu
        BY <1>1, <3>1 DEF Settled
      <3> QED
        BY <3>1, <3>3, <3>4 DEF Remembered
    <2> QED
      BY <2>1, <2>2
  <1> QED
    <2> HIDE DEF hs2, fs2
    <2> QED
      BY <1>6, <1>7, <1>8 DEF WatchInv, UsedAndFree

(***************************************************************************)
(* add_watchpoint of an expression that has no value: the node it has      *)
(* scribbled on is free again.                                             *)
(***************************************************************************)
LEMMA WatchFails ==
    ASSUME TypeOK, WatchInv, NEW e \in Expr, AddWatchpointFails(e), UNCHANGED <<ctl, cpu>>
    PROVE  WatchInv'
  <1>a. PICK m \in 0 .. NR_WP, n \in 0 .. NR_WP : UsedAndFree(m, n)
    BY DEF WatchInv
  <1>1. PICK hs \in [1 .. m -> WP], fs \in [1 .. n -> WP] :
            /\ Lists(wp_next, head, free_, m, n, hs, fs)
            /\ \A i \in 1 .. m : Remembered(hs[i])
    BY <1>a DEF UsedAndFree
  <1>2. m \in Nat /\ n \in Nat \ {0} /\ free_ = fs[1] /\ 1 \in 1 .. n
    BY <1>1, SetsUp DEF AddWatchpointFails
  <1>3. Lists(wp_next', head', free_', m, n, hs, fs)
    BY <1>1 DEF AddWatchpointFails
  <1>4. ASSUME NEW i \in 1 .. m PROVE Remembered(hs[i])'
    <2>1. hs[i] \in WP /\ hs[i] # free_
      BY <1>1, <1>2, SetsUp
    <2>2. wp_expr'[hs[i]] = wp_expr[hs[i]] /\ wp_old'[hs[i]] = wp_old[hs[i]]
      BY <2>1 DEF AddWatchpointFails, TypeOK, PoolTypeOK
    <2>3. Remembered(hs[i]) /\ Settled' = Settled /\ cpu' = cpu
      BY <1>1 DEF Settled
    <2> QED
      BY <2>2, <2>3 DEF Remembered
  <1> QED
    BY <1>3, <1>4 DEF WatchInv, UsedAndFree

(***************************************************************************)
(* delete_watchpoint: the node is taken out of the list in use, wherever   *)
(* it is, and put in front of the free ones.                               *)
(***************************************************************************)
LEMMA WatchDelete ==
    ASSUME TypeOK, WatchInv, NEW no \in WP, DeleteWatchpoint(no), UNCHANGED <<ctl, cpu>>
    PROVE  WatchInv'
  <1>0. Settled' = Settled /\ cpu' = cpu /\ wp_next \in [WP -> WP \cup {NULL}]
    BY DEF Settled, TypeOK, PoolTypeOK
  <1>a. PICK m \in 0 .. NR_WP, n \in 0 .. NR_WP : UsedAndFree(m, n)
    BY DEF WatchInv
  <1>1. PICK hs \in [1 .. m -> WP], fs \in [1 .. n -> WP] :
            /\ Lists(wp_next, head, free_, m, n, hs, fs)
            /\ \A i \in 1 .. m : Remembered(hs[i])
    BY <1>a DEF UsedAndFree
  <1>2. m \in Nat /\ n \in Nat /\ IsList(wp_next, head, hs, m)
    BY <1>1, PoolAssumption DEF Lists
  <1>3. \A i, j \in 1 .. m : hs[i] = hs[j] => i = j
    BY <1>2 DEF IsList
  <1>4. Split(hs, m, fs, n)
    BY <1>1 DEF Lists
  <1>5. ASSUME NEW k \in 1 .. m, UNCHANGED <<wp_expr, wp_old>>,
               Lists(wp_next', head', free_', m - 1, n + 1,
                     Without(hs, m, k), Pushed(hs[k], fs, n))
        PROVE  WatchInv'
    <2> DEFINE hs2 == Without(hs, m, k)
               fs2 == Pushed(hs[k], fs, n)
    <2>1. m - 1 \in Nat /\ n + 1 \in Nat
      BY <1>2
    <2>2. /\ m - 1 \in 0 .. NR_WP /\ n + 1 \in 0 .. NR_WP
          /\ hs2 \in [1 .. m - 1 -> WP] /\ fs2 \in [1 .. n + 1 -> WP]
      BY <1>5, <2>1, SetsUp
    <2>3. \A i \in 1 .. m - 1 : \E j \in 1 .. m : hs2[i] = hs[j]
      BY <1>2, <1>3, <1>4, Members
    <2>4. \A i \in 1 .. m - 1 : Remembered(hs2[i])'
      <3> HIDE DEF hs2
      <3> SUFFICES ASSUME NEW i \in 1 .. m - 1 PROVE Remembered(hs2[i])'
        OBVIOUS
      <3>1. PICK j \in 1 .. m : hs2[i] = hs[j]
        BY <2>3
      <3>2. Remembered(hs2[i])
        BY <1>1, <3>1
      <3> QED
        BY <1>0, <1>5, <3>2 DEF Remembered
    <2> HIDE DEF hs2, fs2
    <2> QED
      BY <1>5, <2>2, <2>4 DEF WatchInv, UsedAndFree, hs2, fs2
  <1>6. CASE DeleteHead(no)
    <2>1. m # 0 /\ no = hs[1] /\ head = hs[1] /\ m \in Nat \ {0} /\ 1 \in 1 .. m
      BY <1>1, <1>2, <1>6, SetsUp DEF DeleteHead
    <2>2. Lists([wp_next EXCEPT ![head] = free_], wp_next[head], head, m - 1, n + 1,
                Without(hs, m, 1), Pushed(head, fs, n))
      BY <1>0, <1>1, <1>2, <2>1, MoveFirst
    <2>3. Lists(wp_next', head', free_', m - 1, n + 1, Without(hs, m, 1), Pushed(hs[1], fs, n))
      BY <1>6, <2>1, <2>2 DEF DeleteHead
    <2> QED
      BY <1>5, <1>6, <2>1, <2>3 DEF DeleteHead
  <1>7. CASE DeleteInner(no) /\ NDEBUG
    <2>1. Nodes(head) = NodesOf(hs, m)
      BY <1>1, <1>2, NodesList
    <2>2. PICK k \in 1 .. m : hs[k] = no
      BY <1>7, <2>1 DEF DeleteInner, NodesOf
    <2>3. k # 1 /\ k \in 2 .. m /\ k - 1 \in 1 .. m
      <3>1. m # 0 /\ head = hs[1]
        BY <1>1, <1>2, <2>2, SetsUp
      <3>2. k # 1
        BY <1>7, <2>2, <3>1 DEF DeleteInner
      <3> QED
        BY <1>2, <2>2, <3>2
    <2> DEFINE prev == CHOOSE p \in Nodes(head) : wp_next[p] = no
    <2>4. hs[k - 1] \in Nodes(head) /\ wp_next[hs[k - 1]] = no
      <3>1. wp_next[hs[k - 1]] = IF k - 1 = m THEN NULL ELSE hs[(k - 1) + 1]
        BY <1>2, <2>3 DEF IsList
      <3>2. k - 1 # m /\ (k - 1) + 1 = k
        BY <1>2, <2>3
      <3> QED
        BY <2>1, <2>2, <2>3, <3>1, <3>2 DEF NodesOf
    <2>5. ASSUME NEW p \in Nodes(head), wp_next[p] = no PROVE p = hs[k - 1]
      <3>1. PICK i \in 1 .. m : p = hs[i]
        BY <2>1 DEF NodesOf
      <3>2. no # NULL
        BY DEF WP, NULL
      <3>3. i # m /\ hs[i + 1] = hs[k] /\ i + 1 \in 1 .. m
        BY <1>2, <2>2, <2>5, <3>1, <3>2 DEF IsList
      <3>4. i + 1 = k
        BY <1>3, <3>3
      <3> QED
        BY <3>1, <3>4
    <2>6. prev = hs[k - 1]
      BY <2>4, <2>5
    <2>7. wp_next' = [wp_next EXCEPT ![hs[k - 1]] = wp_next[hs[k]], ![hs[k]] = free_]
      <3>1. wp_next' = [wp_next EXCEPT ![prev] = wp_next[no], ![no] = free_]
        BY <1>7 DEF DeleteInner
      <3> HIDE DEF prev
      <3> QED
        BY <2>2, <2>6, <3>1
    <2>8. free_' = hs[k] /\ head' = head /\ UNCHANGED <<wp_expr, wp_old>>
      BY <1>7, <2>2 DEF DeleteInner
    <2>9. Lists(wp_next', head', free_', m - 1, n + 1, Without(hs, m, k), Pushed(hs[k], fs, n))
      BY <1>0, <1>1, <1>2, <2>3, <2>7, <2>8, MoveInner
    <2> QED
      BY <1>5, <2>8, <2>9
  <1>8. CASE DeleteMissing(no) \/ (DeleteInner(no) /\ ~NDEBUG)
    <2>1. UNCHANGED <<wp_next, wp_expr, wp_old, head, free_>>
      BY <1>8 DEF DeleteMissing, DeleteInner, poolVars
    <2> QED
      BY <1>0, <2>1, WatchQuiet
  <1> QED
    BY <1>6, <1>7, <1>8 DEF DeleteWatchpoint

(***************************************************************************)
(* check_watchpoints: every node in use has the present value afterwards.  *)
(***************************************************************************)
LEMMA WatchCheck ==
    ASSUME TypeOK, WatchInv, NEW vals \in Values, CheckWatchpoints(vals), UNCHANGED cpu
    PROVE  WatchInv'
  <1>a. PICK m \in 0 .. NR_WP, n \in 0 .. NR_WP : UsedAndFree(m, n)
    BY DEF WatchInv
  <1>1. PICK hs \in [1 .. m -> WP], fs \in [1 .. n -> WP] :
            /\ Lists(wp_next, head, free_, m, n, hs, fs)
            /\ \A i \in 1 .. m : Remembered(hs[i])
    BY <1>a DEF UsedAndFree
  <1>2. Lists(wp_next', head', free_', m, n, hs, fs)
    BY <1>1 DEF CheckWatchpoints
  <1>3. Nodes(head) = NodesOf(hs, m)
    BY <1>1, NodesList DEF Lists
  <1>4. ASSUME NEW i \in 1 .. m PROVE Remembered(hs[i])'
    <2>1. hs[i] \in WP /\ hs[i] \in Nodes(head) /\ Remembered(hs[i])
      BY <1>1, <1>3 DEF NodesOf
    <2>2. wp_expr' = wp_expr /\ wp_old'[hs[i]] = vals[wp_expr[hs[i]]]
      BY <2>1 DEF CheckWatchpoints, UpdateOld, Changed
    <2>3. wp_expr[hs[i]] \in Expr \ BadExpr
      BY <2>1 DEF Remembered
    <2>4. wp_expr[hs[i]] \notin DeviceExpr => vals[wp_expr[hs[i]]] = ExprVal(wp_expr[hs[i]], cpu)
      BY <2>3 DEF Values
    <2> QED
      BY <2>2, <2>3, <2>4 DEF Remembered
  <1> QED
    BY <1>2, <1>4 DEF WatchInv, UsedAndFree

(***************************************************************************)
(* Every step of the debugger and of the loop keeps the two lists whole    *)
(* and what the nodes in use remember.                                     *)
(***************************************************************************)
LEMMA WatchStep == ASSUME TypeOK, WatchInv, [Next]_vars PROVE WatchInv'
  <1>1. CASE \E e \in Expr : CmdW(e)
    <2>1. PICK e \in Expr : CmdW(e)
      BY <1>1
    <2>2. UNCHANGED <<ctl, cpu>> /\ Settled' = Settled
      BY <2>1 DEF CmdW, Settled
    <2>3. PICK vals \in Values :
              AddWatchpointFull \/ AddWatchpoint(e, vals[e]) \/ AddWatchpointFails(e)
      BY <2>1 DEF CmdW
    <2>4. CASE AddWatchpointFull
      BY <2>2, <2>4, WatchQuiet DEF AddWatchpointFull
    <2>5. CASE AddWatchpoint(e, vals[e])
      BY <2>2, <2>5, WatchAdd
    <2>6. CASE AddWatchpointFails(e)
      BY <2>2, <2>6, WatchFails
    <2> QED
      BY <2>3, <2>4, <2>5, <2>6
  <1>2. CASE \E no \in WP : CmdD(no)
    BY <1>2, WatchDelete DEF CmdD
  <1>3. CASE Trace /\ CONFIG_WATCHPOINT
    <2>1. PICK vals \in Values : CheckWatchpoints(vals)
      BY <1>3 DEF Trace, TraceWatch
    <2> QED
      BY <1>3, <2>1, WatchCheck DEF Trace
  <1>4. CASE \/ CmdC \/ CmdQ \/ EndOfInput \/ (\E n \in StepCounts : CmdSi(n))
             \/ (\E e \in Expr : CmdP(e)) \/ Batch \/ BatchEnd \/ CloseWindow \/ ExecOnce
             \/ (Trace /\ ~CONFIG_WATCHPOINT) \/ DeviceUpdate \/ LoopEnd \/ Gone \/ UNCHANGED vars
    <2>1. UNCHANGED poolVars
      BY <1>4 DEF CmdC, CmdQ, EndOfInput, CmdSi, CmdP, Batch, BatchEnd, CloseWindow, ExecOnce,
                  ExecPlain, ExecDevice, ExecTrap, Trace, TraceOnly, DeviceUpdate, LoopEnd,
                  Gone, vars, poolVars
    <2>2. CASE ExecOnce
      <3>1. ctl' = "trace"
        BY <2>2 DEF ExecOnce, ExecPlain, ExecDevice, ExecTrap
      <3> QED
        BY <2>1, <3>1, WatchQuiet DEF poolVars, Settled
    <2>3. CASE Trace /\ ~CONFIG_WATCHPOINT
      BY <2>1, <2>3, WatchQuiet DEF poolVars
    <2>4. CASE \/ CmdC \/ CmdQ \/ EndOfInput \/ (\E n \in StepCounts : CmdSi(n))
               \/ (\E e \in Expr : CmdP(e)) \/ Batch \/ BatchEnd \/ CloseWindow
               \/ DeviceUpdate \/ LoopEnd \/ Gone \/ UNCHANGED vars
      <3>1. cpu' = cpu /\ (Settled' => Settled)
        BY <2>4 DEF CmdC, CmdQ, EndOfInput, CmdSi, CmdP, Dispatch, AtPrompt, Batch, BatchEnd,
                    CloseWindow, CpuExec, DeviceUpdate, LoopEnd, Gone, vars, Settled
      <3> QED
        BY <2>1, <3>1, WatchQuiet DEF poolVars
    <2> QED
      BY <1>4, <2>2, <2>3, <2>4
  <1> QED
    BY <1>1, <1>2, <1>3, <1>4 DEF Next, Command, Loop

(***************************************************************************)
(* init_wp_pool makes one list of all nodes and one of none.               *)
(***************************************************************************)
LEMMA WatchInit == ASSUME Init PROVE TypeOK /\ WatchInv
  <1> USE DEF Init, InitWpPool
  <1>0. NR_WP \in Nat \ {0}
    BY PoolAssumption
  <1>1. TypeOK
    <2>1. wp_next \in [WP -> WP \cup {NULL}]
      BY <1>0 DEF WP, NULL
    <2>2. wp_expr \in [WP -> Expr]
      BY PoolAssumption
    <2>3. wp_old \in [WP -> WordVal] /\ head = NULL /\ free_ \in WP
      BY <1>0, PoolAssumption DEF WP
    <2>4. PoolTypeOK
      BY <2>1, <2>2, <2>3 DEF PoolTypeOK
    <2> HIDE DEF InitWpPool
    <2>5. left \in Int /\ halt_ret \in {-1, 0, 1} /\ cpu \in MVal /\ ref \in MVal
      OBVIOUS
    <2>6. /\ ctl = "prompt" /\ nstate = "STOP"
          /\ is_skip_ref = FALSE /\ sdl_quit = FALSE /\ is_batch_mode \in BOOLEAN
          /\ touched = FALSE /\ peeked = FALSE /\ overruled = FALSE
      OBVIOUS
    <2> HIDE DEF Init
    <2> QED
      BY <2>4, <2>5, <2>6 DEF TypeOK
  <1> DEFINE none == [i \in 1 .. 0 |-> 1]
             all == [i \in 1 .. NR_WP |-> i]
  <1>2. IsList(wp_next, head, none, 0)
    BY DEF IsList, NULL
  <1>3. IsList(wp_next, free_, all, NR_WP)
    <2>1. all \in [1 .. NR_WP -> WP] /\ \A i \in 1 .. NR_WP : all[i] = i
      BY DEF WP
    <2>2. \A i \in 1 .. NR_WP : i # NR_WP => i + 1 \in 1 .. NR_WP
      BY <1>0
    <2>3. \A i \in 1 .. NR_WP : wp_next[i] = IF i = NR_WP THEN NULL ELSE i + 1
      BY DEF WP
    <2>4. free_ = IF NR_WP = 0 THEN NULL ELSE all[1]
      BY <1>0
    <2> HIDE DEF all, Init, InitWpPool
    <2>5. \A i, j \in 1 .. NR_WP : all[i] = all[j] => i = j
      BY <2>1
    <2>6. ASSUME NEW i \in 1 .. NR_WP
          PROVE  wp_next[all[i]] = IF i = NR_WP THEN NULL ELSE all[i + 1]
      BY <2>1, <2>2, <2>3
    <2> QED
      BY <2>1, <2>4, <2>5, <2>6 DEF IsList
  <1>4. Split(none, 0, all, NR_WP)
    BY <1>0 DEF Split, WP
  <1>5. Lists(wp_next, head, free_, 0, NR_WP, none, all)
    BY <1>0, <1>2, <1>3, <1>4 DEF Lists
  <1>6. none \in [1 .. 0 -> WP] /\ all \in [1 .. NR_WP -> WP]
    BY DEF WP
  <1>7. 0 \in 0 .. NR_WP /\ NR_WP \in 0 .. NR_WP /\ \A i \in 1 .. 0 : Remembered(none[i])
    BY <1>0
  <1>8. UsedAndFree(0, NR_WP)
    <2> HIDE DEF none, all
    <2> QED
      BY <1>5, <1>6, <1>7 DEF UsedAndFree
  <1> QED
    BY <1>1, <1>7, <1>8 DEF WatchInv

(***************************************************************************)
(* What the theorems on the pool rest on: at every point the nodes in use  *)
(* and the free ones form two lists that make up the pool.                 *)
(***************************************************************************)
THEOREM WatchInvariant == Spec => [](TypeOK /\ WatchInv)
  <1>1. Init => TypeOK /\ WatchInv
    BY WatchInit
  <1>2. TypeOK /\ WatchInv /\ [Next]_vars => TypeOK' /\ WatchInv'
    BY MonitorType, WatchStep
  <1> QED
    BY <1>1, <1>2, PTL DEF Spec

(***************************************************************************)
(* new_wp and free_wp (watchpoint.c), for a pool of any size, whatever the *)
(* assertions do: no node is lost, none is in both lists, no list is       *)
(* circular.                                                               *)
(***************************************************************************)
THEOREM PoolAlwaysIntact == Spec => []PoolIntact
  <1>1. TypeOK /\ WatchInv => PoolIntact
    <2> SUFFICES ASSUME WatchInv PROVE PoolIntact
      OBVIOUS
    <2>a. PICK m \in 0 .. NR_WP, n \in 0 .. NR_WP : UsedAndFree(m, n)
      BY DEF WatchInv
    <2>1. PICK hs \in [1 .. m -> WP], fs \in [1 .. n -> WP] :
              Lists(wp_next, head, free_, m, n, hs, fs)
      BY <2>a DEF UsedAndFree
    <2>2. Walk(head)[NR_WP] = NULL /\ Nodes(head) = NodesOf(hs, m)
      BY <2>1, NodesList DEF Lists
    <2>3. Walk(free_)[NR_WP] = NULL /\ Nodes(free_) = NodesOf(fs, n)
      BY <2>1, NodesList DEF Lists
    <2>4. Split(hs, m, fs, n)
      BY <2>1 DEF Lists
    <2>5. \A x \in WP : x \in NodesOf(hs, m) <=> x \notin NodesOf(fs, n)
      BY <2>4 DEF Split, NodesOf
    <2>6. NodesOf(hs, m) \subseteq WP /\ NodesOf(fs, n) \subseteq WP
      BY DEF NodesOf
    <2> QED
      BY <2>2, <2>3, <2>5, <2>6 DEF PoolIntact
  <1> QED
    BY <1>1, WatchInvariant, PTL

(***************************************************************************)
(* check_watchpoints, in a loop that runs it after every instruction: each *)
(* watchpoint remembers the present value, so the next change is seen.     *)
(***************************************************************************)
THEOREM WatchpointsAlwaysCurrent == Spec => []WatchpointsCurrent
  <1>1. TypeOK /\ WatchInv => WatchpointsCurrent
    <2> SUFFICES ASSUME WatchInv, CONFIG_WATCHPOINT, Settled, NEW wp \in Nodes(head),
                        wp_expr[wp] \notin DeviceExpr
                 PROVE  wp_old[wp] = ExprVal(wp_expr[wp], cpu)
      BY DEF WatchpointsCurrent
    <2>a. PICK m \in 0 .. NR_WP, n \in 0 .. NR_WP : UsedAndFree(m, n)
      BY DEF WatchInv
    <2>1. PICK hs \in [1 .. m -> WP], fs \in [1 .. n -> WP] :
              /\ Lists(wp_next, head, free_, m, n, hs, fs)
              /\ \A i \in 1 .. m : Remembered(hs[i])
      BY <2>a DEF UsedAndFree
    <2>2. Nodes(head) = NodesOf(hs, m)
      BY <2>1, NodesList DEF Lists
    <2>3. PICK i \in 1 .. m : wp = hs[i]
      BY <2>2 DEF NodesOf
    <2> QED
      BY <2>1, <2>3 DEF Remembered
  <1> QED
    BY <1>1, WatchInvariant, PTL

=============================================================================
