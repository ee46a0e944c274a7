------------------------------ MODULE Cachesim ------------------------------
(***************************************************************************)
(* The cache simulator (npc/tools/cachesim/cachesim.cpp): a trace of       *)
(* fetch addresses is replayed on a cache of Sets sets of Ways lines with  *)
(* first-in-first-out, least-recently-used or random replacement.          *)
(***************************************************************************)
EXTENDS Integers, Sequences, FiniteSetsExt, SequencesExt

CONSTANTS LineSize, Region(_)   \* Region: the memory an address is in

\* cacheable(): the memories the option --cache-region names.
cacheable(addr, region) ==
    IF region = "all" THEN Region(addr) \in {"flash", "psram", "sdram"} ELSE Region(addr) = region

\* parse_args(): the options a simulation starts with.
IsPow2(x) == \E n \in 0..8 : x = 2^n
OptionsOk(opt) ==
    /\ opt.ways > 0 /\ IsPow2(opt.sets) /\ IsPow2(LineSize)
    /\ opt.repl \in {"fifo", "lru", "random"}
    /\ opt.region \in {"sdram", "flash", "psram", "all"}

Line == [valid |-> FALSE, tag |-> 0, age |-> 0]
Stats == [accesses |-> 0, cacheable |-> 0, uncacheable |-> 0, hits |-> 0, misses |-> 0]
InitSim(opt) ==
    [cache |-> [s \in 0..opt.sets - 1 |-> [w \in 0..opt.ways - 1 |-> Line]], stats |-> Stats, hit |-> <<>>]

Block(pc) == pc \div LineSize
Set(pc, opt) == Block(pc) % opt.sets
Tag(pc, opt) == Block(pc) \div opt.sets

\* Mutation: the youngest line is replaced.
OldestYoung(lines) == Min({w \in DOMAIN lines : \A v \in DOMAIN lines : lines[v].age <= lines[w].age})

\* The first line with the smallest age.
Oldest(lines) == Min({w \in DOMAIN lines : \A v \in DOMAIN lines : lines[w].age <= lines[v].age})

\* The lines that may be replaced: one, unless the choice is random.
Victims(lines, opt) ==
    LET invalid == {w \in DOMAIN lines : ~lines[w].valid}
    IN CASE invalid # {} -> {Min(invalid)}
         [] invalid = {} /\ opt.repl = "random" -> DOMAIN lines
         [] OTHER -> {Oldest(lines)}

Uncached(sim) ==
    [sim EXCEPT !.stats.accesses = @ + 1, !.stats.uncacheable = @ + 1, !.stats.misses = @ + 1, !.hit = Append(@, FALSE)]

Hit(sim, pc, now, opt, way) ==
    [sim EXCEPT !.stats.accesses = @ + 1, !.stats.cacheable = @ + 1, !.stats.hits = @ + 1, !.hit = Append(@, TRUE),
                !.cache[Set(pc, opt)][way].age = IF opt.repl = "lru" THEN now ELSE @]

Miss(sim, pc, now, opt, victim) ==
    [sim EXCEPT !.stats.accesses = @ + 1, !.stats.cacheable = @ + 1, !.stats.misses = @ + 1, !.hit = Append(@, FALSE),
                !.cache[Set(pc, opt)][victim] = [valid |-> TRUE, tag |-> Tag(pc, opt), age |-> now]]

\* access_cache(): the simulations one access may lead to.
access_cache(sim, pc, now, opt) ==
    LET lines == sim.cache[Set(pc, opt)]
        found == {w \in DOMAIN lines : lines[w].valid /\ lines[w].tag = Tag(pc, opt)}
    IN CASE ~cacheable(pc, opt.region) -> {Uncached(sim)}
         [] cacheable(pc, opt.region) /\ found # {} -> {Hit(sim, pc, now, opt, Min(found))}
         [] OTHER -> {Miss(sim, pc, now, opt, v) : v \in Victims(lines, opt)}

\* main(): the trace line by line; the first access is at time 1.
Simulate(trace, opt) ==
    LET after[n \in 0..Len(trace)] ==
          IF n = 0 THEN {InitSim(opt)}
          ELSE UNION {access_cache(sim, trace[n], n, opt) : sim \in after[n - 1]}
    IN after[Len(trace)]

(***************************************************************************)
(* The reference.  A cacheable access with least-recently-used replacement *)
(* hits iff its block was accessed before and fewer than Ways other blocks *)
(* of its set since; with first-in-first-out iff its block is among the    *)
(* last Ways missed ones of its set.  Random replacement keeps at least    *)
(* the block of the last access of the set.                                *)
(***************************************************************************)
InSet(trace, opt, n, m) ==
    cacheable(trace[m], opt.region) /\ Set(trace[m], opt) = Set(trace[n], opt)

LruHit(trace, opt, n) ==
    \E m \in 1..n - 1 :
        /\ InSet(trace, opt, n, m) /\ Block(trace[m]) = Block(trace[n])
        /\ Cardinality({Block(trace[k]) : k \in {j \in m + 1..n - 1 : InSet(trace, opt, n, j)}} \ {Block(trace[n])}) < opt.ways

FifoHit(trace, opt, hit, n) ==
    \E m \in 1..n - 1 :
        /\ ~hit[m] /\ InSet(trace, opt, n, m) /\ Block(trace[m]) = Block(trace[n])
        /\ Cardinality({j \in m + 1..n - 1 : ~hit[j] /\ InSet(trace, opt, n, j)}) < opt.ways

LastInSet(trace, opt, n) ==
    \E m \in 1..n - 1 : /\ InSet(trace, opt, n, m) /\ Block(trace[m]) = Block(trace[n])
                        /\ \A j \in m + 1..n - 1 : ~InSet(trace, opt, n, j)

Expected(trace, opt, hit, n) ==
    CASE ~cacheable(trace[n], opt.region) -> ~hit[n]
      [] cacheable(trace[n], opt.region) /\ opt.repl = "lru" -> hit[n] = LruHit(trace, opt, n)
      [] cacheable(trace[n], opt.region) /\ opt.repl = "fifo" -> hit[n] = FifoHit(trace, opt, hit, n)
      [] OTHER -> LastInSet(trace, opt, n) => hit[n]

\* The counters agree with each other and with the hits.
Counted(trace, sim) ==
    /\ sim.stats.accesses = Len(trace)
    /\ sim.stats.cacheable + sim.stats.uncacheable = sim.stats.accesses
    /\ sim.stats.hits + sim.stats.misses = sim.stats.accesses
    /\ sim.stats.hits = Cardinality({n \in DOMAIN trace : sim.hit[n]})

SimulationCorrect(trace, opt) ==
    \A sim \in Simulate(trace, opt) :
        /\ Counted(trace, sim)
        /\ \A n \in DOMAIN trace : Expected(trace, opt, sim.hit, n)
=============================================================================
