---------------------------- MODULE SimpleIcache ----------------------------
(***************************************************************************)
(* The direct-mapped instruction cache between the CPU's fetch port and    *)
(* the bus (module simple_icache).  A hit answers in the next cycle; a     *)
(* miss on a cacheable address reads the whole line as one burst and       *)
(* answers after its last beat; any other address is read as a single      *)
(* beat and not kept.                                                      *)
(*                                                                         *)
(* Registers are variables, output wires are state functions, and the      *)
(* clock edge is an action parameterised by the input wires.               *)
(***************************************************************************)
EXTENDS NpcParams

VARIABLES
    ic_state,     \* FSM: "IDLE", "MISS_AR", "MISS_R", "RESP"
    req_addr,     \* address of the request being served
    resp_data,    \* word returned to the CPU
    resp_valid,   \* resp_data is waiting for the CPU
    fill_word,    \* next word of the line to be filled
    data_array, tag_array, valid_array

icVars == <<ic_state, req_addr, resp_data, resp_valid, fill_word,
            data_array, tag_array, valid_array>>

IcTypeOK ==
    /\ ic_state \in {"IDLE", "MISS_AR", "MISS_R", "RESP"}
    /\ req_addr \in Val
    /\ resp_data \in Val
    /\ resp_valid \in BOOLEAN
    /\ fill_word \in Word
    /\ data_array \in [Index -> [Word -> Val]]
    /\ tag_array \in [Index -> Tag]
    /\ valid_array \in [Index -> BOOLEAN]

IcInit ==
    /\ ic_state = "IDLE"
    /\ req_addr = 0
    /\ resp_data = 0
    /\ resp_valid = FALSE
    /\ fill_word = 0
    /\ data_array = [i \in Index |-> [w \in Word |-> 0]]
    /\ tag_array = [i \in Index |-> 0]
    /\ valid_array = [i \in Index |-> FALSE]

(***************************************************************************)
(* Output wires.                                                           *)
(***************************************************************************)
ic_cpu_arready == ic_state = "IDLE" /\ ~resp_valid
ic_mem_arvalid == ic_state = "MISS_AR"
ic_mem_araddr == IF Cacheable(req_addr) THEN LineBase(req_addr) ELSE req_addr
ic_mem_arlen == IF Cacheable(req_addr) THEN LAST_WORD ELSE 0
ic_mem_rready == ic_state = "MISS_R"

\* Mutation: the tag is not compared.
HitAnyTag(a) == Cacheable(a) /\ valid_array[IndexOf(a)]

Hit(a) == /\ Cacheable(a)
          /\ valid_array[IndexOf(a)]
          /\ tag_array[IndexOf(a)] = TagOf(a)

(***************************************************************************)
(* One clock edge, by FSM state.                                           *)
(***************************************************************************)

\* A response the CPU takes is withdrawn, in any state.
RespKept(cpu_rready) == resp_valid /\ ~cpu_rready

\* A fetch request that hits: the word is registered for the next cycle.
IcHit(cpu_arvalid, cpu_araddr) ==
    /\ ic_cpu_arready /\ cpu_arvalid /\ Hit(cpu_araddr)
    /\ req_addr' = cpu_araddr
    /\ resp_data' = data_array[IndexOf(cpu_araddr)][WordOf(cpu_araddr)]
    /\ resp_valid' = TRUE
    /\ UNCHANGED <<ic_state, fill_word, data_array, tag_array, valid_array>>

\* Mutation: the word counter keeps the value of the last refill.
IcMissKeepsCount(cpu_arvalid, cpu_araddr) ==
    /\ ic_cpu_arready /\ cpu_arvalid /\ ~Hit(cpu_araddr)
    /\ req_addr' = cpu_araddr
    /\ ic_state' = "MISS_AR"
    /\ UNCHANGED <<fill_word, resp_data, resp_valid, data_array, tag_array, valid_array>>

\* A fetch request that misses, or is not cacheable.
IcMiss(cpu_arvalid, cpu_araddr) ==
    /\ ic_cpu_arready /\ cpu_arvalid /\ ~Hit(cpu_araddr)
    /\ req_addr' = cpu_araddr
    /\ fill_word' = 0
    /\ ic_state' = "MISS_AR"
    /\ UNCHANGED <<resp_data, resp_valid, data_array, tag_array, valid_array>>

\* No request is accepted.
IcIdle(cpu_arvalid, cpu_rready) ==
    /\ ic_state = "IDLE"
    /\ ~(ic_cpu_arready /\ cpu_arvalid)
    /\ resp_valid' = RespKept(cpu_rready)
    /\ UNCHANGED <<ic_state, req_addr, resp_data, fill_word,
                   data_array, tag_array, valid_array>>

\* The bus address is offered until it is accepted.
IcMissAr(cpu_rready, mem_arready) ==
    /\ ic_state = "MISS_AR"
    /\ ic_state' = IF mem_arready THEN "MISS_R" ELSE "MISS_AR"
    /\ resp_valid' = RespKept(cpu_rready)
    /\ UNCHANGED <<req_addr, resp_data, fill_word,
                   data_array, tag_array, valid_array>>

\* A beat of a line fill: the line becomes valid with its first beat.
IcFillBeat(cpu_rready, mem_rvalid, mem_rdata, mem_rlast) ==
    LET i == IndexOf(req_addr) IN
    /\ ic_state = "MISS_R" /\ mem_rvalid /\ Cacheable(req_addr)
    /\ data_array' = [data_array EXCEPT ![i][fill_word] = mem_rdata]
    /\ tag_array' = [tag_array EXCEPT ![i] = TagOf(req_addr)]
    /\ valid_array' = [valid_array EXCEPT ![i] = TRUE]
    /\ resp_data' = IF fill_word = WordOf(req_addr) THEN mem_rdata ELSE resp_data
    /\ \/ /\ mem_rlast \/ fill_word = LAST_WORD
          /\ resp_valid' = TRUE
          /\ ic_state' = "RESP"
          /\ UNCHANGED fill_word
       \/ /\ ~mem_rlast /\ fill_word # LAST_WORD
          /\ fill_word' = fill_word + 1
          /\ resp_valid' = RespKept(cpu_rready)
          /\ UNCHANGED ic_state
    /\ UNCHANGED req_addr

\* The only beat of an uncached fetch.
IcUncachedBeat(mem_rvalid, mem_rdata) ==
    /\ ic_state = "MISS_R" /\ mem_rvalid /\ ~Cacheable(req_addr)
    /\ resp_data' = mem_rdata
    /\ resp_valid' = TRUE
    /\ ic_state' = "RESP"
    /\ UNCHANGED <<req_addr, fill_word, data_array, tag_array, valid_array>>

IcWaitBeat(cpu_rready, mem_rvalid) ==
    /\ ic_state = "MISS_R" /\ ~mem_rvalid
    /\ resp_valid' = RespKept(cpu_rready)
    /\ UNCHANGED <<ic_state, req_addr, resp_data, fill_word,
                   data_array, tag_array, valid_array>>

\* The response is held until the CPU takes it (or has been withdrawn).
IcResp(cpu_rready) ==
    /\ ic_state = "RESP"
    /\ resp_valid' = RespKept(cpu_rready)
    /\ ic_state' = IF RespKept(cpu_rready) THEN "RESP" ELSE "IDLE"
    /\ UNCHANGED <<req_addr, resp_data, fill_word,
                   data_array, tag_array, valid_array>>

IcEdge(cpu_arvalid, cpu_araddr, cpu_rready, mem_arready, mem_rvalid, mem_rdata, mem_rlast) ==
    \/ IcHit(cpu_arvalid, cpu_araddr)
    \/ IcMiss(cpu_arvalid, cpu_araddr)
    \/ IcIdle(cpu_arvalid, cpu_rready)
    \/ IcMissAr(cpu_rready, mem_arready)
    \/ IcFillBeat(cpu_rready, mem_rvalid, mem_rdata, mem_rlast)
    \/ IcUncachedBeat(mem_rvalid, mem_rdata)
    \/ IcWaitBeat(cpu_rready, mem_rvalid)
    \/ IcResp(cpu_rready)

=============================================================================
