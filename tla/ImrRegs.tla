------------------------------- MODULE ImrRegs -------------------------------
(***************************************************************************)
(* The isolated memory regions (IMRs) of the Clanton SoC, as GRUB programs *)
(* them: efi/clanton/imr.c and imr.h, as operators over the registers.     *)
(*                                                                         *)
(* Each IMR is a bank of four side-band registers: IMRxL (low address and *)
(* the lock bit), IMRxH (high address), IMRxRM and IMRxWM (the agents that *)
(* may read and write the window).  The window runs from the low address  *)
(* to 1 kB past the high address: the hardware "always protects the extra *)
(* 1k memory space based on input high reg value" (imr_align).  A bus     *)
(* agent may access a word only if every IMR whose window holds it lists   *)
(* the agent in its mask.                                                  *)
(*                                                                         *)
(* Addresses and sizes are words (GrubBase).  A mask is the set of its     *)
(* bits, the bits the code names kept apart (0: non-SMM core, 29: PUnit,   *)
(* 30: core snoops) and bit 31 standing for every other agent.             *)
(***************************************************************************)
EXTENDS GrubBase, TLC

\* enum imr_range; the register bank (DRAM_IMRxL..WM) each case of the
\* switch in intel_cln_imr_setup programs.  IMR_RANGE_KERN_TEXT has no case.
IMR_RANGE_BOOT      == 1
IMR_RANGE_KERN_TEXT == 3
IMR_RANGE_BZIMAGE   == 7
ImrIds  == {IMR_RANGE_BOOT, IMR_RANGE_KERN_TEXT, IMR_RANGE_BZIMAGE}
Banks   == {1, 3, 7}
ImrBank == (IMR_RANGE_BOOT :> 1) @@ (IMR_RANGE_BZIMAGE :> 7)

IMR_MIN_SIZE  == W(1024)        \* 0x400
IMR_GRANULE   == W(1024)        \* 1 << IMR_ALIGNMENT
UNLOCK        == FALSE

NON_SMM == 0
PUNIT   == 29
SNOOP   == 30
ANY_AGENT == 31
AllBits == {NON_SMM, PUNIT, SNOOP, ANY_AGENT}
IMR_WRITE_ENABLE_ALL     == AllBits                    \* 0xFFFFFFFF
IMR_READ_ENABLE_ALL      == AllBits \ {SNOOP}          \* 0xBFFFFFFF
IMR_SNOOP_NON_SMM_ENABLE == {NON_SMM, SNOOP}           \* 0x40000001
IMR_NON_SMM_ENABLE       == {NON_SMM}                  \* 0x00000001

\* imr_align: addr & ~((1 << IMR_ALIGNMENT) - 1).
imr_align(a) == a - (a % IMR_GRANULE)

\* (a >> IMR_ADDR_SHIFT) & IMR_REG_MASK: bits [31:10] of a byte address in
\* bits [23:2] of the register (a byte shift of 8 is a word shift of 6).
ImrAddrField(a) == ((a \div 64) % 16777216) - ((a \div 64) % 4)

\* The low register is non-zero: the IMR is in use (or locked).
InUse(r) == r.lo # 0 \/ r.lock

\* The window of a bank: from its low address to the end of the 1 kB block
\* at its high address, inclusive.
Covers(r, a) == r.lo * 64 <= a /\ a <= r.hi * 64 + (IMR_GRANULE - 1)

\* The access check of the memory controller for agent at word a.
CanRead(regs, agent, a)  == \A b \in Banks : Covers(regs[b], a) => agent \in regs[b].rm
CanWrite(regs, agent, a) == \A b \in Banks : Covers(regs[b], a) => agent \in regs[b].wm

-----------------------------------------------------------------------------
(* The steps of intel_cln_imr_write on a bank r that is not locked: open   *)
(* the masks of a region in use, write IMRxH then IMRxL, restrict the      *)
(* masks to the non-SMM core (and its snoops for writes), lock if asked.   *)
imr_open(r) ==
    IF InUse(r) THEN [r EXCEPT !.rm = IMR_READ_ENABLE_ALL, !.wm = IMR_WRITE_ENABLE_ALL]
    ELSE r

imr_program(r, lo, hi) == [r EXCEPT !.hi = hi, !.lo = lo, !.lock = FALSE]

imr_restrict(r) == [r EXCEPT !.rm = IMR_NON_SMM_ENABLE, !.wm = IMR_SNOOP_NON_SMM_ENABLE]

imr_lock(r, lock) == IF lock THEN [r EXCEPT !.lock = TRUE] ELSE r

\* intel_cln_imr_write: a locked bank is left as it is.
intel_cln_imr_write(r, lo, hi, lock) ==
    IF r.lock THEN r
    ELSE imr_lock(imr_restrict(imr_program(imr_open(r), lo, hi)), lock)

\* The switch of intel_cln_imr_setup on the register fields lo and hi.
imr_dispatch(regs, id, lo, hi) ==
    IF id \in DOMAIN ImrBank
    THEN [regs |-> [regs EXCEPT ![ImrBank[id]] = intel_cln_imr_write(@, lo, hi, UNLOCK)],
          err  |-> ERR_NONE]
    ELSE [regs |-> regs, err |-> ERR_BAD_ARGUMENT]

(* intel_cln_imr_setup: reject a size below IMR_MIN_SIZE, align the start *)
(* down, add the size aligned down (in 32 bits) and align again, convert   *)
(* both to the register format, program the bank of id.  Returns the       *)
(* registers and errnum.  addr and size are 32-bit values.                 *)
intel_cln_imr_setup(regs, id, addr, size) ==
    IF size < IMR_MIN_SIZE
    THEN [regs |-> regs, err |-> ERR_BAD_ARGUMENT]
    ELSE imr_dispatch(regs, id, ImrAddrField(imr_align(addr)),
                      ImrAddrField(imr_align((imr_align(addr) + imr_align(size)) % U32)))
====
