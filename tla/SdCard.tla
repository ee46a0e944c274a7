------------------------------- MODULE SdCard -------------------------------
(***************************************************************************)
(* The SD card of NEMU (nemu/src/device/sdcard.c) and the Linux driver for *)
(* it (nemu/resource/sdcard/nemu.c).  The card is a record that the two    *)
(* accesses of the bus, map_read and map_write, take to its successor; the *)
(* driver has one action per function, the copying of a block one per      *)
(* segment and per burst.  Sizes are bytes; a word has four.               *)
(***************************************************************************)
EXTENDS Integers, Sequences, SequencesExt, FiniteSetsExt, TLC

CONSTANTS
    CardBlocks,    \* blocks of the image
    BlockBytes,    \* 512 in the code
    PioBurst,      \* SDDATA_FIFO_PIO_BURST
    FifoWords,     \* SDDATA_FIFO_WORDS
    FifoLevel,     \* the level the driver supposes the FIFO to have
    Requests       \* the requests of the MMC core

VARIABLES
    dev,     \* the card
    host,    \* struct nemu_host
    miter,   \* its scatter-gather iterator
    buf,     \* the words of the request's segments
    local,   \* the locals of the copying loops
    errs,    \* the error fields of the request's command and data
    xfered,  \* bytes_xfered
    resp,    \* the response of the last command
    warned,  \* a WARN_ON has fired
    before,  \* the card when the request came
    last,    \* the last request that is done
    pc       \* what the driver calls next

sdVars == <<dev, host, miter, buf, local, errs, xfered, resp, warned, before, last, pc>>

Nothing == [op |-> "nothing"]
BlockWords == BlockBytes \div 4

(***************************************************************************)
(* The card.                                                               *)
(***************************************************************************)
Quiet == {"GO_IDLE_STATE", "52", "SLEEP_AWAKE", "APP_CMD", "SET_RELATIVE_ADDR", "SELECT_CARD", "STOP_TRANSMISSION"}

\* The image is opened if it is there (fp).
NewCard(fp) ==
    [fp |-> fp, file |-> IF fp THEN [p \in 0..CardBlocks * BlockWords - 1 |-> p] ELSE <<>>, pos |-> 0, write_cmd |-> FALSE, read_ext_csd |-> FALSE,
     addr |-> 0, blkcnt |-> 0, panic |-> FALSE,
     base |-> [SDCMD |-> "none", SDARG |-> 0, SDDATA |-> 0, RSP |-> [i \in 0..3 |-> "0"]]]
init_sdcard == {NewCard(fp) : fp \in BOOLEAN}

prepare_rw(d, is_write) == [d EXCEPT !.addr = 0, !.pos = d.base.SDARG * BlockWords, !.write_cmd = is_write]

sdcard_handle_cmd(d) ==
    LET cmd == d.base.SDCMD IN
    CASE cmd \in Quiet -> d
      [] cmd = "SEND_OP_COND" -> [d EXCEPT !.base.RSP[0] = "ocr"]
      [] cmd = "ALL_SEND_CID" -> [d EXCEPT !.base.RSP = <<"cid1", "cid2", "cid3">> @@ (0 :> "cid0")]
      [] cmd = "SEND_CSD" -> [d EXCEPT !.base.RSP = <<"csd1", "csd2", "csd3">> @@ (0 :> "csd0")]
      [] cmd = "SEND_EXT_CSD" -> [d EXCEPT !.read_ext_csd = TRUE, !.addr = 0]
      [] cmd = "SET_BLOCK_COUNT" -> [d EXCEPT !.blkcnt = d.base.SDARG]
      [] cmd = "READ_MULTIPLE_BLOCK" -> prepare_rw(d, FALSE)
      [] cmd = "WRITE_MULTIPLE_BLOCK" -> prepare_rw(d, TRUE)
      [] cmd = "SEND_STATUS" -> [d EXCEPT !.base.RSP = <<"0", "0", "0">> @@ (0 :> "status")]
      [] OTHER -> [d EXCEPT !.panic = TRUE]

\* EXT_CSD: negative numbers, so that no word of the image or of a request
\* can be taken for one.
ExtCsdWord(a) == -1 - a

\* Without an image, and with fread at its end, nothing is moved: the register
\* is left as it is.
DataAccess(d) ==
    LET moved == IF d.read_ext_csd
                 THEN [d EXCEPT !.base.SDDATA = ExtCsdWord(d.addr), !.read_ext_csd = (d.addr # BlockBytes - 4)]
                 ELSE IF ~d.fp THEN d
                 ELSE IF d.write_cmd
                 THEN [d EXCEPT !.file = (d.pos :> d.base.SDDATA) @@ @, !.pos = @ + 1]
                 ELSE IF d.pos \in DOMAIN d.file
                 THEN [d EXCEPT !.base.SDDATA = d.file[d.pos], !.pos = @ + 1]
                 ELSE d
    IN [moved EXCEPT !.addr = @ + 4]

sdcard_io_handler(d, reg) ==
    CASE reg = "SDCMD" -> sdcard_handle_cmd(d)
      [] reg \in {"SDARG", "RSP"} -> d
      [] reg = "SDDATA" -> DataAccess(d)
      [] OTHER -> [d EXCEPT !.panic = TRUE]

\* The bus calls the handler before a read and after a write.
map_read(d, reg) == sdcard_io_handler(d, reg)
map_write(d, reg, v) == sdcard_io_handler([d EXCEPT !.base[reg] = v], reg)

(***************************************************************************)
(* The kernel's scatter-gather iterator.  A request's sg is the sequence   *)
(* of the lengths of its segments.                                         *)
(***************************************************************************)
sg_miter_start(sg) == [sg |-> sg, seg |-> 1, off |-> 0, length |-> 0, consumed |-> 0, mapped |-> FALSE]
sg_miter_stop(m) == IF m.mapped THEN [m EXCEPT !.off = @ + m.consumed, !.mapped = FALSE] ELSE m
sg_miter_next(m) ==
    LET s == sg_miter_stop(m)
        n == IF s.seg <= Len(s.sg) /\ s.off = s.sg[s.seg] THEN [s EXCEPT !.seg = @ + 1, !.off = 0] ELSE s
    IN IF n.seg > Len(n.sg) THEN n
       ELSE [n EXCEPT !.length = n.sg[n.seg] - n.off, !.consumed = n.sg[n.seg] - n.off, !.mapped = TRUE]

(***************************************************************************)
(* A request [op, sbc, stop, arg, blksz, blocks, sg, v]: with a CMD23      *)
(* before it or a CMD12 after it where the core provides them, and v the   *)
(* data of a write.  Its commands are "sbc", "cmd" and "stop".             *)
(***************************************************************************)
HasData(m) == m.op \in {"READ_MULTIPLE_BLOCK", "WRITE_MULTIPLE_BLOCK", "SEND_EXT_CSD"}
IsRead(m) == m.op # "WRITE_MULTIPLE_BLOCK"
Opcode(m, c) == CASE c = "sbc" -> "SET_BLOCK_COUNT" [] c = "stop" -> "STOP_TRANSMISSION" [] c = "cmd" -> m.op
Argument(m, c) == CASE c = "sbc" -> m.blocks [] c = "stop" -> 0 [] c = "cmd" -> m.arg
LongResponse(m, c) == c = "cmd" /\ m.op \in {"ALL_SEND_CID", "SEND_CSD"}
IsPowerOf2(n) == \E k \in 0..10 : n = 2^k

\* The words of the segments' memory; a write's differ from each other.
NewBuf(m) == [s \in 1..Len(m.sg) |-> [w \in 1..m.sg[s] \div 4 |-> IF IsRead(m) THEN -1000 ELSE 100 * m.v + 10 * s + w]]

sdInit ==
    /\ dev \in init_sdcard
    /\ host = [mrq |-> Nothing, cmd |-> "none", data |-> FALSE, data_complete |-> FALSE, use_sbc |-> FALSE]
    /\ miter = sg_miter_start(<<>>)
    /\ buf = <<>>
    /\ local = [i |-> 0, blksize |-> 0, copy_words |-> 0, at |-> 0]
    /\ errs = [cmd |-> FALSE, data |-> FALSE]
    /\ xfered = 0
    /\ resp = <<>>
    /\ warned = FALSE
    /\ before = dev
    /\ last = Nothing
    /\ pc = "idle"

\* The host h sends command c: prepare_data sets up the transfer, the two
\* writes start the command.  The caller goes on with the transfer, if there
\* is one, or with finish_command.
nemu_prepare_data(h, c) ==
    /\ IF c = "cmd" /\ HasData(h.mrq)
       THEN /\ host' = [h EXCEPT !.cmd = c, !.data = TRUE, !.data_complete = FALSE]
            /\ miter' = sg_miter_start(h.mrq.sg)
            /\ pc' = "transfer"
       ELSE /\ host' = [h EXCEPT !.cmd = c, !.data = FALSE]
            /\ miter' = miter
            /\ pc' = "finish_command"
    /\ local' = [local EXCEPT !.i = 0]

nemu_send_command(h, c) ==
    /\ warned' = (warned \/ h.cmd # "none" \/ h.data)
    /\ nemu_prepare_data(h, c)
    /\ dev' = map_write(map_write(dev, "SDARG", Argument(h.mrq, c)), "SDCMD", Opcode(h.mrq, c))

\* A request whose block size is not a power of two is refused.
RefuseRequest(m) ==
    /\ pc = "idle"
    /\ HasData(m) /\ ~IsPowerOf2(m.blksz)
    /\ errs' = [cmd |-> TRUE, data |-> FALSE]
    /\ before' = dev
    /\ last' = m
    /\ UNCHANGED <<dev, host, miter, buf, local, xfered, resp, warned, pc>>

nemu_request(m) ==
    /\ pc = "idle"
    /\ HasData(m) => IsPowerOf2(m.blksz)
    /\ errs' = [cmd |-> FALSE, data |-> FALSE]
    /\ LET use_sbc == m.sbc /\ HasData(m) /\ IsRead(m)
       IN nemu_send_command([host EXCEPT !.mrq = m, !.use_sbc = use_sbc], IF use_sbc THEN "sbc" ELSE "cmd")
    /\ buf' = NewBuf(m)
    /\ xfered' = 0
    /\ before' = dev
    /\ UNCHANGED <<resp, last>>

(***************************************************************************)
(* The transfer: block by block, segment by segment, burst by burst.       *)
(***************************************************************************)
nemu_transfer_pio ==
    /\ pc = "transfer"
    /\ IF local.i < host.mrq.blocks
       THEN local' = [local EXCEPT !.blksize = host.mrq.blksz] /\ pc' = "segment"
       ELSE local' = local /\ pc' = "finish_data"
    /\ UNCHANGED <<dev, host, miter, buf, errs, xfered, resp, warned, before, last>>

\* The loop over the blocks goes on after an error.
BlockEnd(it) == miter' = sg_miter_stop(it) /\ local' = [local EXCEPT !.i = @ + 1] /\ pc' = "transfer"

\* Mutation: sg_miter.consumed is not set, so a segment longer than a block is cut.
TransferSegmentForgets ==
    /\ pc = "segment"
    /\ IF local.blksize = 0 THEN BlockEnd(miter) /\ errs' = errs
       ELSE LET it == sg_miter_next(miter)
                len == Min({it.length, local.blksize})
            IN IF ~it.mapped \/ len % 4 # 0
               THEN BlockEnd(it) /\ errs' = [errs EXCEPT !.data = TRUE]
               ELSE /\ miter' = it
                    /\ local' = [local EXCEPT !.blksize = @ - len, !.copy_words = len \div 4, !.at = it.off \div 4]
                    /\ pc' = "burst"
                    /\ errs' = errs
    /\ UNCHANGED <<dev, host, buf, xfered, resp, warned, before, last>>

TransferSegment ==
    /\ pc = "segment"
    /\ IF local.blksize = 0 THEN BlockEnd(miter) /\ errs' = errs
       ELSE LET it == sg_miter_next(miter)
                len == Min({it.length, local.blksize})
            IN IF ~it.mapped \/ len % 4 # 0
               THEN BlockEnd(it) /\ errs' = [errs EXCEPT !.data = TRUE]
               ELSE /\ miter' = [it EXCEPT !.consumed = len]
                    /\ local' = [local EXCEPT !.blksize = @ - len, !.copy_words = len \div 4, !.at = it.off \div 4]
                    /\ pc' = "burst"
                    /\ errs' = errs
    /\ UNCHANGED <<dev, host, buf, xfered, resp, warned, before, last>>

\* n accesses to SDDATA, the words of the segment after its first k.
FifoAccesses(d, b, seg, k, n) ==
    FoldLeft(
        LAMBDA s, w : IF IsRead(host.mrq)
                      THEN LET r == map_read(s.dev, "SDDATA") IN [dev |-> r, buf |-> [s.buf EXCEPT ![seg][w] = r.base.SDDATA]]
                      ELSE [s EXCEPT !.dev = map_write(@, "SDDATA", s.buf[seg][w])],
        [dev |-> d, buf |-> b], [j \in 1..n |-> k + j])

\* A burst waits until the FIFO holds, or has room for, that many words: the
\* driver takes its level to be the same every time.
AvailableHalf == FifoLevel \div 2

Available == IF IsRead(host.mrq) THEN FifoLevel ELSE FifoWords - FifoLevel

TransferBurst ==
    /\ pc = "burst"
    /\ IF local.copy_words = 0
       THEN pc' = "segment" /\ UNCHANGED <<dev, buf, local>>
       ELSE /\ Available >= Min({PioBurst, local.copy_words})
            /\ LET words == Min({Available, local.copy_words})
                   r == FifoAccesses(dev, buf, miter.seg, local.at, words)
               IN /\ dev' = r.dev /\ buf' = r.buf
                  /\ local' = [local EXCEPT !.copy_words = @ - words, !.at = @ + words]
            /\ pc' = pc
    /\ UNCHANGED <<host, miter, errs, xfered, resp, warned, before, last>>

(***************************************************************************)
(* The ends of data, command, transfer and request.                        *)
(***************************************************************************)
nemu_finish_request(h) ==
    /\ host' = [h EXCEPT !.mrq = Nothing, !.cmd = "none", !.data = FALSE]
    /\ last' = h.mrq
    /\ pc' = "idle"

\* CMD12 ends an open transfer and one that failed.
nemu_transfer_complete(h) ==
    IF h.mrq.stop /\ (errs.data \/ ~h.use_sbc)
    THEN nemu_send_command([h EXCEPT !.data = FALSE], "stop") /\ last' = last
    ELSE /\ nemu_finish_request([h EXCEPT !.data = FALSE])
         /\ UNCHANGED <<dev, miter, local, warned>>

nemu_finish_data ==
    /\ pc = "finish_data"
    /\ xfered' = IF errs.data THEN 0 ELSE host.mrq.blksz * host.mrq.blocks
    /\ LET h == [host EXCEPT !.data_complete = TRUE]
       IN IF h.cmd # "none"
          THEN host' = h /\ pc' = "finish_command" /\ UNCHANGED <<dev, miter, local, warned, last>>
          ELSE nemu_transfer_complete(h)
    /\ UNCHANGED <<buf, errs, resp, before>>

\* A long response is read into the array from its end.
NoResponse(m, c) == c = "cmd" /\ m.op = "GO_IDLE_STATE"
Response == IF NoResponse(host.mrq, host.cmd) THEN resp
            ELSE IF LongResponse(host.mrq, host.cmd) THEN [i \in 1..4 |-> dev.base.RSP[4 - i]] ELSE <<dev.base.RSP[0]>>

nemu_finish_command ==
    /\ pc = "finish_command"
    /\ resp' = Response
    /\ LET h == [host EXCEPT !.cmd = "none"] IN
       CASE host.cmd = "sbc" -> nemu_send_command(h, "cmd") /\ last' = last
         [] host.cmd = "stop" -> nemu_finish_request(host) /\ UNCHANGED <<dev, miter, local, warned>>
         [] host.cmd = "cmd" /\ ~host.data -> nemu_finish_request(h) /\ UNCHANGED <<dev, miter, local, warned>>
         [] host.cmd = "cmd" /\ host.data /\ host.data_complete -> nemu_transfer_complete(h)
         [] OTHER -> host' = h /\ pc' = "waiting" /\ UNCHANGED <<dev, miter, local, warned, last>>
    /\ UNCHANGED <<buf, errs, xfered, before>>

sdNext ==
    \/ \E m \in Requests : RefuseRequest(m)
    \/ \E m \in Requests : nemu_request(m)
    \/ nemu_transfer_pio
    \/ TransferSegment
    \/ TransferBurst
    \/ nemu_finish_data
    \/ nemu_finish_command

(***************************************************************************)
(* What the block layer relies on.                                         *)
(***************************************************************************)
First(m) == m.arg * BlockWords
NWords(m) == (m.blksz * m.blocks) \div 4
Done == pc = "idle" /\ last # Nothing
Failed == errs.cmd \/ errs.data

\* Its segments hold its blocks.
Suffices(m) ==
    HasData(m) =>
        /\ IsPowerOf2(m.blksz)
        /\ FoldLeft(LAMBDA n, len : n + len, 0, m.sg) >= m.blksz * m.blocks
        /\ \A s \in DOMAIN m.sg : m.sg[s] % 4 = 0

\* A read of EXT_CSD that took less than all of it, and was followed by no
\* other, makes as many words of the next transfer as EXT_CSD has: a read gets
\* EXT_CSD's, a write loses its own, and the image begins after them.
LeftOver(m) == IF before.read_ext_csd /\ m.op # "SEND_EXT_CSD" THEN Min({NWords(m), BlockWords}) ELSE 0

\* A request that is done without an error has moved its blocks, to or from
\* the segments in order.  Without an image a read gets what the register
\* held.
DataMoved(m) ==
    LET words == FlattenSeq(buf)
        n == LeftOver(m)
    IN \A k \in 1..NWords(m) :
           IF m.op = "SEND_EXT_CSD" \/ k <= n
           THEN IsRead(m) => words[k] = ExtCsdWord(4 * (k - 1))
           ELSE IF dev.fp THEN words[k] = dev.file[First(m) + k - n - 1]
           ELSE IsRead(m) => words[k] = dev.base.SDDATA

\* The words of the image that may differ from what they were.
Written(m) == IF HasData(m) /\ ~IsRead(m) THEN First(m)..First(m) + NWords(m) - LeftOver(m) - 1 ELSE {}
=============================================================================
