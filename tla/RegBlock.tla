------------------------------ MODULE RegBlock ------------------------------
(***************************************************************************)
(* The MMIO register file rtl/control/npu_reg_block.sv: the control and    *)
(* interrupt registers, the one-cycle pulses that writes turn into, and    *)
(* the window the host writes a command descriptor into and npu_cmd_fetch  *)
(* reads back, and the DMA registers.                                      *)
(*                                                                         *)
(* A bus cycle is a record: reg names the register that is written, "BUF"  *)
(* for the buffer windows, or "NONE" when nothing is written (an idle bus  *)
(* or a read).  A read changes nothing and takes its data after the edge   *)
(* that carries its address, as is_buf_r and the bus functions of the      *)
(* test bench have it.                                                     *)
(***************************************************************************)
EXTENDS Integers

CONSTANTS
    NUM_WORDS,  \* words of a descriptor, 16 in the code
    Word,       \* the values of a descriptor word, with 0 for reset
    ExtSpace,   \* external addresses count modulo ExtSpace, 2^32
    LocSpace,   \* local addresses count modulo LocSpace, 2^20
    LenSpace    \* DMA_LEN is taken modulo LenSpace, 2^16

ASSUME NumWordsAssumption == NUM_WORDS \in Nat \ {0}
ASSUME WordAssumption == 0 \in Word
ASSUME WidthAssumption ==
    /\ ExtSpace \in Nat \ {0}
    /\ LocSpace \in Nat \ {0}
    /\ LenSpace \in Nat \ {0}

VARIABLES
    ctrl_reg,           \* the bits set in CTRL
    irq_en_reg,         \* IRQ_ENABLE[0]
    doorbell_r,         \* pulse, the cycle after a DOORBELL write
    irq_clear_r,        \* pulse, the cycle after an IRQ_CLEAR write
    cmd_mem,            \* the descriptor window; not reset
    fetch_rvalid_r,     \* the registered read port of npu_cmd_fetch
    fetch_rdata_r,
    dma_ext_addr_r,
    dma_loc_addr_r,
    dma_len_r,
    dma_start_r,        \* pulse, the cycle after a DMA_CTRL write
    dma_dir_r           \* FALSE external to local, TRUE local to external

dmaRegVars == <<dma_ext_addr_r, dma_loc_addr_r, dma_len_r, dma_start_r, dma_dir_r>>
regVars == <<ctrl_reg, irq_en_reg, doorbell_r, irq_clear_r, cmd_mem,
             fetch_rvalid_r, fetch_rdata_r, dmaRegVars>>

WordIdx == 0 .. NUM_WORDS - 1

\* The bus cycles of this model.
NoWrite == [reg |-> "NONE"]
WriteCtrl(bits) == [reg |-> "CTRL", bits |-> bits]
WriteDoorbell == [reg |-> "DOORBELL"]
WriteIrqEnable(on) == [reg |-> "IRQ_ENABLE", on |-> on]
WriteIrqClear == [reg |-> "IRQ_CLEAR"]
WriteCmdWord(i, w) == [reg |-> "CMD_QUEUE", idx |-> i, word |-> w]
WriteDma(reg, val) == [reg |-> reg, val |-> val]
WriteDmaCtrl(start, dir) == [reg |-> "DMA_CTRL", start |-> start, dir |-> dir]
WriteBuf(addr, data) == [reg |-> "BUF", addr |-> addr, data |-> data]

soft_reset == "SOFT_RESET" \in ctrl_reg
npu_enable == "ENABLE" \in ctrl_reg
irq_enable == irq_en_reg

-----------------------------------------------------------------------------
\* The descriptor window takes the host's writes in reset as well.
CmdMemClk(bus) ==
    cmd_mem' = IF bus.reg = "CMD_QUEUE"
               THEN [cmd_mem EXCEPT ![bus.idx] = bus.word]
               ELSE cmd_mem

FetchPortClk(fetch_req, fetch_idx) ==
    /\ fetch_rvalid_r' = fetch_req
    /\ fetch_rdata_r' = IF fetch_req THEN cmd_mem[fetch_idx] ELSE fetch_rdata_r

ControlRegsClk(bus) ==
    /\ ctrl_reg' = IF bus.reg = "CTRL" THEN bus.bits ELSE ctrl_reg
    /\ irq_en_reg' = IF bus.reg = "IRQ_ENABLE" THEN bus.on ELSE irq_en_reg
    /\ doorbell_r' = (bus.reg = "DOORBELL")
    /\ irq_clear_r' = (bus.reg = "IRQ_CLEAR")

\* The address and length registers keep as many bits as they have.
DmaRegsClk(bus) ==
    /\ dma_ext_addr_r' = IF bus.reg = "DMA_EXT_ADDR" THEN bus.val % ExtSpace
                                                     ELSE dma_ext_addr_r
    /\ dma_loc_addr_r' = IF bus.reg = "DMA_LOC_ADDR" THEN bus.val % LocSpace
                                                     ELSE dma_loc_addr_r
    /\ dma_len_r' = IF bus.reg = "DMA_LEN" THEN bus.val % LenSpace ELSE dma_len_r
    /\ dma_start_r' = (bus.reg = "DMA_CTRL" /\ bus.start)
    /\ dma_dir_r' = IF bus.reg = "DMA_CTRL" THEN bus.dir ELSE dma_dir_r

RegBlockClk(bus, fetch_req, fetch_idx) ==
    /\ ControlRegsClk(bus)
    /\ DmaRegsClk(bus)
    /\ CmdMemClk(bus)
    /\ FetchPortClk(fetch_req, fetch_idx)

\* Mutant: CTRL is not among the registers that are reset.
ControlRegsResetButCtrl ==
    /\ UNCHANGED ctrl_reg
    /\ irq_en_reg' = FALSE
    /\ doorbell_r' = FALSE
    /\ irq_clear_r' = FALSE

ControlRegsReset ==
    /\ ctrl_reg' = {}
    /\ irq_en_reg' = FALSE
    /\ doorbell_r' = FALSE
    /\ irq_clear_r' = FALSE

RegBlockReset(bus) ==
    /\ ControlRegsReset
    /\ fetch_rvalid_r' = FALSE
    /\ fetch_rdata_r' = 0
    /\ dma_ext_addr_r' = 0
    /\ dma_loc_addr_r' = 0
    /\ dma_len_r' = 0
    /\ dma_start_r' = FALSE
    /\ dma_dir_r' = FALSE
    /\ CmdMemClk(bus)

RegBlockInit ==
    /\ ctrl_reg = {}
    /\ irq_en_reg = FALSE
    /\ doorbell_r = FALSE
    /\ irq_clear_r = FALSE
    /\ cmd_mem \in [WordIdx -> Word]
    /\ fetch_rvalid_r = FALSE
    /\ fetch_rdata_r = 0
    /\ dma_ext_addr_r = 0
    /\ dma_loc_addr_r = 0
    /\ dma_len_r = 0
    /\ dma_start_r = FALSE
    /\ dma_dir_r = FALSE

\* Type invariant of the register file.
RegBlockTypeOK ==
    /\ ctrl_reg \subseteq {"SOFT_RESET", "ENABLE"}
    /\ irq_en_reg \in BOOLEAN
    /\ doorbell_r \in BOOLEAN
    /\ irq_clear_r \in BOOLEAN
    /\ cmd_mem \in [WordIdx -> Word]
    /\ fetch_rvalid_r \in BOOLEAN
    /\ fetch_rdata_r \in Word
    /\ dma_ext_addr_r \in 0 .. ExtSpace - 1
    /\ dma_loc_addr_r \in 0 .. LocSpace - 1
    /\ dma_len_r \in 0 .. LenSpace - 1
    /\ dma_start_r \in BOOLEAN
    /\ dma_dir_r \in BOOLEAN
=============================================================================
