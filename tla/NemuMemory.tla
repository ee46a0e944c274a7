----------------------------- MODULE NemuMemory -----------------------------
(***************************************************************************)
(* The memory of NEMU: paddr.c, which tells RAM, ROM and the devices apart *)
(* by their addresses, and the tables of mapped devices (map.c, mmio.c).   *)
(* The serial port stands for the devices: its callback prints.  Addresses *)
(* are bytes; host is what the arrays of NEMU hold, and shadow what the    *)
(* program has stored.                                                     *)
(***************************************************************************)
EXTENDS Integers, Sequences, FiniteSetsExt

CONSTANTS
    Arrays,        \* the arrays "pmem", "mrom", "sram", "flash": [base, size] each
    PAGE_SIZE, IO_SPACE_MAX, NR_MAP,
    Devices,       \* what init_device may map: [name, low, len]
    Accesses,      \* what the program accesses: <<address, length>>
    WriteBound     \* stores in a behaviour

VARIABLE ram

Areas == DOMAIN Arrays
in_range(addr, x) == addr - Arrays[x].base \in 0..Arrays[x].size - 1
Span(low, len) == low..low + len - 1
EndsInPmem(d) == in_range(d.low, "pmem") \/ in_range(d.low + d.len - 1, "pmem")

\* The addresses of NEMU's arrays and of ysyxSoC's are apart, no device is
\* at a ROM.  NEMU looks at the first byte of an access only: an aligned
\* access does not leave the array, or the device that can be mapped, in
\* which it begins.
ASSUME MemAssumption ==
    /\ {"pmem", "sram"} \subseteq Areas /\ "io" \notin Areas
    /\ \A x \in Areas : Arrays[x].base \in Nat /\ Arrays[x].size \in Nat
    /\ \A x, y \in Areas : x # y => \A a \in Span(Arrays[x].base, Arrays[x].size) : ~in_range(a, y)
    /\ PAGE_SIZE \in Nat \ {0} /\ IO_SPACE_MAX \in Nat /\ NR_MAP \in Nat /\ WriteBound \in Nat
    /\ \A d \in Devices :
           /\ d.low \in Nat /\ d.len \in Nat \ {0}
           /\ \A x \in Areas \ {"pmem", "sram"}, a \in Span(d.low, d.len) : ~in_range(a, x)
    /\ \A c \in Accesses :
           /\ c[1] \in Nat /\ c[2] \in Nat \ {0}
           /\ \A a \in Span(c[1], c[2]) :
                  /\ \A x \in Areas : in_range(a, x) <=> in_range(c[1], x)
                  /\ \A d \in Devices : ~EndsInPmem(d) /\ c[1] \in Span(d.low, d.len) => a \in Span(d.low, d.len)

\* The bytes of the arrays, and the addresses the program uses.
ArrayBytes(x) == {x} \X (0..Arrays[x].size - 1)
IoBytes == {"io"} \X (0..IO_SPACE_MAX - 1)
HostBytes == IoBytes \cup UNION {ArrayBytes(x) : x \in Areas}
Touched == UNION {Span(c[1], c[2]) : c \in Accesses}

\* The arrays are static: zero until something is stored.
init_mem ==
    [host |-> [h \in HostBytes |-> 0], maps |-> <<>>, p_space |-> 0, panic |-> FALSE, shadow |-> [a \in Touched |-> 0],
     value |-> <<>>, read |-> 0, written |-> 0, printed |-> <<>>, sent |-> <<>>]

InMemory(addr) == \E x \in Areas : in_range(addr, x)
guest_to_host(addr) == LET x == CHOOSE y \in Areas : in_range(addr, y) IN <<x, addr - Arrays[x].base>>
host_to_guest(h) == h[2] + Arrays[h[1]].base

(***************************************************************************)
(* The devices.                                                            *)
(***************************************************************************)
\* Mutation: the last bytes of a region get no page.
new_spaceDown(size) == (size \div PAGE_SIZE) * PAGE_SIZE

new_space(size) == (((size + PAGE_SIZE) - 1) \div PAGE_SIZE) * PAGE_SIZE

Overlaps(d, m) == d.low <= m.high /\ d.low + d.len - 1 >= m.low

\* A region that overlaps another one, and one of whose ends is in memory,
\* ends NEMU.
add_mmio_map(d) ==
    /\ ~ram.panic
    /\ LET p == ram.p_space + new_space(d.len) IN
       ram' = IF \/ p >= IO_SPACE_MAX
                 \/ Len(ram.maps) >= NR_MAP
                 \/ EndsInPmem(d)
                 \/ \E i \in DOMAIN ram.maps : Overlaps(d, ram.maps[i])
              THEN [ram EXCEPT !.panic = TRUE]
              ELSE [ram EXCEPT !.p_space = p,
                               !.maps = Append(@, [name |-> d.name, low |-> d.low, high |-> d.low + d.len - 1, space |-> ram.p_space])]

map_inside(m, addr) == addr \in m.low..m.high
Found(addr) == {i \in DOMAIN ram.maps : map_inside(ram.maps[i], addr)}

\* The first match.  That DiffTest then skips the instruction is part of the
\* module NemuMonitor.
find_mapid_by_addr(addr) == IF Found(addr) = {} THEN -1 ELSE Min(Found(addr))

\* Only the serial port has a callback here: it takes one byte at offset 0.
invoke_callback(r, m, offset, len, is_write) ==
    IF m.name # "serial" THEN r
    ELSE IF len = 1 /\ offset = 0 /\ is_write THEN [r EXCEPT !.printed = Append(@, r.host[<<"io", m.space>>])]
    ELSE [r EXCEPT !.panic = TRUE]

Bytes(h, len) == [k \in 1..len |-> ram.host[<<h[1], (h[2] + k) - 1>>]]
host_write(r, h, len, v) == [r EXCEPT !.host = [x \in DOMAIN @ |-> IF x[1] = h[1] /\ x[2] - h[2] \in 0..len - 1 THEN v + x[2] - h[2] ELSE @[x]]]

map_read(r, addr, len, i) ==
    LET m == ram.maps[i]
    IN [invoke_callback(r, m, addr - m.low, len, FALSE) EXCEPT !.value = Bytes(<<"io", m.space + addr - m.low>>, len)]
map_write(r, addr, len, v, i) ==
    LET m == ram.maps[i]
    IN invoke_callback(host_write(r, <<"io", m.space + addr - m.low>>, len, v), m, addr - m.low, len, TRUE)

(***************************************************************************)
(* The accesses of the program.  ROM is read like RAM; a store to it goes  *)
(* to the devices, which do not have it.                                   *)
(***************************************************************************)
paddr_read(addr, len) ==
    /\ ~ram.panic
    /\ LET i == find_mapid_by_addr(addr)
       IN ram' = IF InMemory(addr) THEN [ram EXCEPT !.value = Bytes(guest_to_host(addr), len), !.read = addr]
                 ELSE IF i = -1 THEN [ram EXCEPT !.panic = TRUE]
                 ELSE [map_read(ram, addr, len, i) EXCEPT !.read = addr]

paddr_write(addr, len) ==
    /\ ~ram.panic /\ ram.written < WriteBound
    /\ LET i == find_mapid_by_addr(addr)
           v == 10 * (ram.written + 1)
           r == [ram EXCEPT !.written = @ + 1, !.value = <<>>, !.read = addr,
                            !.shadow = [a \in DOMAIN @ |-> IF a - addr \in 0..len - 1 THEN v + a - addr ELSE @[a]],
                            !.sent = IF i # -1 /\ ~InMemory(addr) /\ ram.maps[i].name = "serial" THEN Append(@, v) ELSE @]
       IN ram' = IF in_range(addr, "pmem") \/ in_range(addr, "sram") THEN host_write(r, guest_to_host(addr), len, v)
                 ELSE IF i = -1 THEN [r EXCEPT !.panic = TRUE]
                 ELSE map_write(r, addr, len, v, i)

memNext ==
    \/ \E d \in Devices : add_mmio_map(d)
    \/ \E a \in Accesses : paddr_read(a[1], a[2])
    \/ \E a \in Accesses : paddr_write(a[1], a[2])

(***************************************************************************)
(* What a program relies on.                                               *)
(***************************************************************************)
Stored(a) == IF a \in DOMAIN ram.shadow THEN ram.shadow[a] ELSE 0
HeldAt(a) ==
    IF InMemory(a) THEN ram.host[guest_to_host(a)]
    ELSE IF Found(a) = {} THEN 0
    ELSE LET m == ram.maps[find_mapid_by_addr(a)] IN ram.host[<<"io", m.space + a - m.low>>]

\* No two addresses share a byte of NEMU: whatever devices are mapped, and
\* in whatever order, a load gets what was last stored at its addresses,
\* nothing else changes, and the serial port prints each byte stored to it,
\* once and in order.
MemoryKept ==
    ~ram.panic =>
        /\ \A a \in DOMAIN ram.shadow : HeldAt(a) = ram.shadow[a]
        /\ \A k \in DOMAIN ram.value : ram.value[k] = Stored(ram.read + k - 1)
        /\ \A h \in DOMAIN ram.host : h[1] # "io" => /\ guest_to_host(host_to_guest(h)) = h
                                                     /\ ram.host[h] = Stored(host_to_guest(h))
        /\ ram.printed = ram.sent

\* Why: the devices are apart in the program's addresses and in the array
\* "io", of which the rest is unused, and what was stored is there.
Contents == [HostBytes -> Int]
Shadow == [Touched -> Int]
IOMap == [name : {d.name : d \in Devices}, low : Nat, high : Nat, space : Nat]
memTypeOK ==
    ram \in [host : Contents, maps : Seq(IOMap), p_space : Nat, panic : BOOLEAN, shadow : Shadow,
             value : Seq(Int), read : Nat, written : Nat, printed : Seq(Int), sent : Seq(Int)]

IsMap(m, d) == m.name = d.name /\ m.low = d.low /\ m.high = d.low + d.len - 1 /\ ~EndsInPmem(d)
InRam(a) == in_range(a, "pmem") \/ in_range(a, "sram")
LastByte(m) == m.space + m.high - m.low
MapsApart ==
    /\ ram.p_space <= IO_SPACE_MAX
    /\ \A i \in DOMAIN ram.maps : (\E d \in Devices : IsMap(ram.maps[i], d)) /\ LastByte(ram.maps[i]) < ram.p_space
    /\ \A i, j \in DOMAIN ram.maps : i < j =>
           /\ LastByte(ram.maps[i]) < ram.maps[j].space
           /\ ram.maps[i].high < ram.maps[j].low \/ ram.maps[j].high < ram.maps[i].low
BytesKept ==
    /\ \A o \in ram.p_space..IO_SPACE_MAX - 1 : ram.host[<<"io", o>>] = 0
    /\ \A i \in DOMAIN ram.maps : \A a \in ram.maps[i].low..ram.maps[i].high :
           ~InRam(a) => ram.host[<<"io", ram.maps[i].space + a - ram.maps[i].low>>] = Stored(a)
    /\ \A h \in HostBytes : h[1] # "io" => ram.host[h] = Stored(host_to_guest(h))
    /\ \A a \in Touched : ram.shadow[a] # 0 => InRam(a) \/ Found(a) # {}
MemInv ==
    ~ram.panic => /\ MapsApart /\ BytesKept
                  /\ \A k \in DOMAIN ram.value : ram.value[k] = Stored(ram.read + k - 1)
                  /\ ram.printed = ram.sent

memSpec == ram = init_mem /\ [][memNext]_ram
=============================================================================
