----------------------------- MODULE ImrSideband -----------------------------
(***************************************************************************)
(* intel_cln_imr_setup at the level of the side-band bus: efi/clanton/     *)
(* imr.c over intel_cln_sb_read_reg and intel_cln_sb_write_reg of          *)
(* efi/clanton/intel_cln_sb.c.                                             *)
(*                                                                         *)
(* A side-band access is two PCI configuration accesses of the host       *)
(* bridge: a write puts the value in the data register (MDR, 0xD4) and     *)
(* then the command in the control register (MCR, 0xD0), which commits    *)
(* MDR to the target register; a read sends the command, which loads MDR  *)
(* from the target register, and then reads MDR.  intel_cln_imr_write is  *)
(* a read of IMRxL followed by up to six writes, so between any two of     *)
(* these accesses the IMR registers are in an intermediate state that bus *)
(* agents see.  The module keeps the call in flight as the sequence of     *)
(* port accesses it has still to make.                                     *)
(*                                                                         *)
(* The atomic view of the same code is Imr; ImrRefinement checks that the *)
(* split one implements it.                                               *)
(***************************************************************************)
EXTENDS ImrRegs, Sequences, FiniteSets, TLC

CONSTANTS
    InitRegs,       \* the register states the firmware may leave behind
    MdrInit,        \* the values the firmware may have left in MDR
    Requests,       \* the (id, addr, size) calls made of intel_cln_imr_setup
    MaxSetups       \* bound on the calls

VARIABLES
    imr,            \* [bank -> [lo, lock, hi, rm, wm]]: the IMR registers
    mdr,            \* the side-band data register
    errnum,         \* the global grub error number
    granted,        \* [id -> the last request setup reported ERR_NONE for, or NoRequest]
    setups,         \* calls so far
    call,           \* the call in flight (NoCall when none)
    port            \* the port accesses it has still to make

sb_vars == <<imr, mdr, errnum, granted, setups, call, port>>

NoRequest == [id |-> 0, addr |-> 0, size |-> 0]
NoCall    == [req |-> NoRequest, bank |-> 0, lo |-> 0, hi |-> 0, lock |-> FALSE,
              snap |-> [b \in Banks |-> [lo |-> 0, lock |-> FALSE, hi |-> 0, rm |-> {}, wm |-> {}]],
              err0 |-> ERR_NONE]
Busy == call # NoCall

-----------------------------------------------------------------------------
(* A 32-bit side-band word: its address field (bits [23:2]), bit 31 as   *)
(* the lock bit of IMRxL, and the mask bits of IMRxRM and IMRxWM.          *)
SbWord(addr, lock, bits) == [addr |-> addr, lock |-> lock, bits |-> bits]
Mask(bits) == SbWord(0, FALSE, bits)

(* The registers of a bank as the side-band addresses them: "l" (IMRxL,   *)
(* address and lock bit), "h" (IMRxH), "rm" and "wm" (the masks).          *)
RegVal(regs, b, f) ==
    CASE f = "l"  -> SbWord(regs[b].lo, regs[b].lock, {})
      [] f = "h"  -> SbWord(regs[b].hi, FALSE, {})
      [] f = "rm" -> Mask(regs[b].rm)
      [] f = "wm" -> Mask(regs[b].wm)

\* A write the eSRAM unit commits; the registers of a locked IMR are read-only.
Commit(regs, b, f, v) ==
    IF regs[b].lock THEN regs
    ELSE CASE f = "l"  -> [regs EXCEPT ![b].lo = v.addr, ![b].lock = v.lock]
           [] f = "h"  -> [regs EXCEPT ![b].hi = v.addr]
           [] f = "rm" -> [regs EXCEPT ![b].rm = v.bits]
           [] f = "wm" -> [regs EXCEPT ![b].wm = v.bits]

\* intel_cln_sb_write_reg: the data, then the command.
intel_cln_sb_write_reg(b, f, v) ==
    << [op |-> "wdata", val |-> v], [op |-> "wcmd", bank |-> b, reg |-> f] >>

\* intel_cln_sb_read_reg: the command, then the data into tmp_addr.
intel_cln_sb_read_reg(b, f) ==
    << [op |-> "rcmd", bank |-> b, reg |-> f], [op |-> "rdata"] >>

Return == << [op |-> "ret"] >>

\* Mutants: the write mask is given the read mask's value; the masks are
\* those of IMR1 whatever the bank (DRAM_IMR1RM/WM in every case).
imr_write_rest_wm_nonsmm(tmp, c) ==
    IF tmp.lock THEN Return
    ELSE (IF tmp.addr # 0
          THEN intel_cln_sb_write_reg(c.bank, "rm", Mask(IMR_READ_ENABLE_ALL))
               \o intel_cln_sb_write_reg(c.bank, "wm", Mask(IMR_WRITE_ENABLE_ALL))
          ELSE << >>)
         \o intel_cln_sb_write_reg(c.bank, "h", SbWord(c.hi, FALSE, {}))
         \o intel_cln_sb_write_reg(c.bank, "l", SbWord(c.lo, FALSE, {}))
         \o intel_cln_sb_write_reg(c.bank, "rm", Mask(IMR_NON_SMM_ENABLE))
         \o intel_cln_sb_write_reg(c.bank, "wm", Mask(IMR_NON_SMM_ENABLE))
         \o Return
imr_write_rest_imr1_masks(tmp, c) ==
    IF tmp.lock THEN Return
    ELSE (IF tmp.addr # 0
          THEN intel_cln_sb_write_reg(1, "rm", Mask(IMR_READ_ENABLE_ALL))
               \o intel_cln_sb_write_reg(1, "wm", Mask(IMR_WRITE_ENABLE_ALL))
          ELSE << >>)
         \o intel_cln_sb_write_reg(c.bank, "h", SbWord(c.hi, FALSE, {}))
         \o intel_cln_sb_write_reg(c.bank, "l", SbWord(c.lo, FALSE, {}))
         \o intel_cln_sb_write_reg(1, "rm", Mask(IMR_NON_SMM_ENABLE))
         \o intel_cln_sb_write_reg(1, "wm", Mask(IMR_SNOOP_NON_SMM_ENABLE))
         \o Return

(* intel_cln_imr_write after the read of IMRxL into tmp: return if it is  *)
(* locked; open both masks if it is in use; write IMRxH, IMRxL, the read   *)
(* and the write mask; set the lock bit in IMRxL if asked.                 *)
imr_write_rest(tmp, c) ==
    IF tmp.lock THEN Return
    ELSE (IF tmp.addr # 0
          THEN intel_cln_sb_write_reg(c.bank, "rm", Mask(IMR_READ_ENABLE_ALL))
               \o intel_cln_sb_write_reg(c.bank, "wm", Mask(IMR_WRITE_ENABLE_ALL))
          ELSE << >>)
         \o intel_cln_sb_write_reg(c.bank, "h", SbWord(c.hi, FALSE, {}))
         \o intel_cln_sb_write_reg(c.bank, "l", SbWord(c.lo, FALSE, {}))
         \o intel_cln_sb_write_reg(c.bank, "rm", Mask(IMR_NON_SMM_ENABLE))
         \o intel_cln_sb_write_reg(c.bank, "wm", Mask(IMR_SNOOP_NON_SMM_ENABLE))
         \o (IF c.lock THEN intel_cln_sb_write_reg(c.bank, "l", SbWord(c.lo, TRUE, {}))
             ELSE << >>)
         \o Return

-----------------------------------------------------------------------------
SbInit ==
    /\ imr \in InitRegs
    /\ mdr \in MdrInit
    /\ errnum = ERR_NONE
    /\ granted = [id \in DOMAIN ImrBank |-> NoRequest]
    /\ setups = 0
    /\ call = NoCall
    /\ port = << >>

(* intel_cln_imr_setup up to the switch: errnum is cleared, a size below  *)
(* IMR_MIN_SIZE or an id without a case returns ERR_BAD_ARGUMENT at once; *)
(* otherwise the addresses are aligned and converted and                   *)
(* intel_cln_imr_write starts with the read of IMRxL.                      *)
Setup(req) ==
    /\ ~Busy
    /\ setups < MaxSetups
    /\ setups' = setups + 1
    /\ IF req.size < IMR_MIN_SIZE \/ req.id \notin DOMAIN ImrBank
       THEN /\ errnum' = ERR_BAD_ARGUMENT
            /\ UNCHANGED <<imr, mdr, granted, call, port>>
       ELSE LET lo == imr_align(req.addr)
                c  == [req |-> req, bank |-> ImrBank[req.id], lock |-> UNLOCK,
                       lo |-> ImrAddrField(lo),
                       hi |-> ImrAddrField(imr_align((lo + imr_align(req.size)) % U32)),
                       snap |-> imr, err0 |-> errnum]
            IN  /\ errnum' = ERR_NONE
                /\ call' = c
                /\ port' = intel_cln_sb_read_reg(c.bank, "l")
                /\ UNCHANGED <<imr, mdr, granted>>

Next_op == Head(port)

\* pci_write_config_dword of the data register.
WriteData ==
    /\ port # << >> /\ Next_op.op = "wdata"
    /\ mdr' = Next_op.val
    /\ port' = Tail(port)
    /\ UNCHANGED <<imr, errnum, granted, setups, call>>

\* pci_write_config_dword of the control register: a write commits MDR, a
\* read loads it.
WriteCmd ==
    /\ port # << >> /\ Next_op.op \in {"wcmd", "rcmd"}
    /\ IF Next_op.op = "wcmd"
       THEN imr' = Commit(imr, Next_op.bank, Next_op.reg, mdr) /\ UNCHANGED mdr
       ELSE mdr' = RegVal(imr, Next_op.bank, Next_op.reg) /\ UNCHANGED imr
    /\ port' = Tail(port)
    /\ UNCHANGED <<errnum, granted, setups, call>>

\* pci_read_config_dword of the data register into tmp_addr, and the rest
\* of intel_cln_imr_write decided on it.
ReadData ==
    /\ port # << >> /\ Next_op.op = "rdata"
    /\ port' = imr_write_rest(mdr, call) \o Tail(port)
    /\ UNCHANGED <<imr, mdr, errnum, granted, setups, call>>

\* Mutant: the call in flight is not cleared when it returns.
SetupReturn_keepcall ==
    /\ port # << >> /\ Next_op.op = "ret"
    /\ granted' = IF errnum = ERR_NONE THEN [granted EXCEPT ![call.req.id] = call.req]
                  ELSE granted
    /\ port' = Tail(port)
    /\ UNCHANGED <<imr, mdr, errnum, setups, call>>

\* intel_cln_imr_setup returns errnum (ERR_NONE) to its caller.
SetupReturn ==
    /\ port # << >> /\ Next_op.op = "ret"
    /\ granted' = IF errnum = ERR_NONE THEN [granted EXCEPT ![call.req.id] = call.req]
                  ELSE granted
    /\ call' = NoCall
    /\ port' = Tail(port)
    /\ UNCHANGED <<imr, mdr, errnum, setups>>

SbStep == WriteData \/ WriteCmd \/ ReadData \/ SetupReturn

SbNext == (\E req \in Requests : Setup(req)) \/ SbStep

(* The host core runs the accesses of a call one after the other with     *)
(* nothing to wait for: weak fairness of its steps.                        *)
SbSpec == SbInit /\ [][SbNext]_sb_vars /\ WF_sb_vars(SbStep)
-----------------------------------------------------------------------------
\* A register of a bank as the side-band carries it.
IsRegValue(v) ==
    v.addr \in 0..16777215 /\ v.lock \in BOOLEAN /\ v.bits \subseteq AllBits

SbTypeOK ==
    /\ \A b \in Banks : imr[b].lo \in 0..16777215 /\ imr[b].hi \in 0..16777215
                        /\ imr[b].lock \in BOOLEAN
                        /\ imr[b].rm \subseteq AllBits /\ imr[b].wm \subseteq AllBits
    /\ IsRegValue(mdr)
    /\ errnum \in {ERR_NONE, ERR_BAD_ARGUMENT}
    /\ granted \in [DOMAIN ImrBank -> Requests \cup {NoRequest}]
    /\ setups \in 0..MaxSetups
    /\ Busy <=> port # << >>

(* Between any two side-band accesses of intel_cln_imr_write, every region *)
(* an earlier call reported protected stays inside its IMR's window and    *)
(* closed to the PUnit, unless it is its own IMR that is being             *)
(* reprogrammed (whose masks the "already in use" step opens on purpose): *)
(* reprogramming one IMR never opens another one's window to a DMA agent.  *)
ProtectedBy(r, req) ==
    /\ Covers(r, req.addr) /\ Covers(r, req.addr + req.size - 1)
    /\ PUNIT \notin r.rm /\ PUNIT \notin r.wm
GrantedOutsideUpdate ==
    \A id \in DOMAIN ImrBank :
        granted[id] # NoRequest /\ ~(Busy /\ call.req.id = id)
            => ProtectedBy(imr[ImrBank[id]], granted[id])

(* The sequence of side-band accesses implements the atomic                *)
(* intel_cln_imr_setup of Imr: while a call is in flight the registers,    *)
(* errnum and the count are those before it, and the call takes effect     *)
(* when it returns.                                                        *)
Abs == INSTANCE Imr WITH imr <- IF Busy THEN call.snap ELSE imr,
                         errnum <- IF Busy THEN call.err0 ELSE errnum,
                         setups <- IF Busy THEN setups - 1 ELSE setups
ImrRefinement == Abs!ImrSpec
====
