------------------------------- MODULE MCImr -------------------------------
(* Model-checking instance of Imr, in words.  The firmware leaves every   *)
(* IMR free, IMR1 protecting a region of its own, or IMR7 protecting one   *)
(* and IMR3 locked over it.  GRUB's calls are those of grub_load_linux:    *)
(* IMR_RANGE_BOOT at the page-aligned real-mode pages (two allocations, as *)
(* for two "kernel" commands), IMR_RANGE_BZIMAGE at                        *)
(* GRUB_LINUX_BZIMAGE_ADDR with the prot_size of a signed or an unsigned   *)
(* image or one below the minimum, and IMR_RANGE_KERN_TEXT, which imr.h    *)
(* declares and the switch does not handle.                                *)
EXTENDS Imr

Free   == [lo |-> 0, lock |-> FALSE, hi |-> 0,
           rm |-> IMR_READ_ENABLE_ALL, wm |-> IMR_WRITE_ENABLE_ALL]
Bios   == [lo |-> ImrAddrField(W(2097152)), lock |-> FALSE, hi |-> ImrAddrField(W(2161664)),
           rm |-> IMR_NON_SMM_ENABLE, wm |-> IMR_NON_SMM_ENABLE]
Locked == [Bios EXCEPT !.lock = TRUE]

MCInitRegs == { [b \in Banks |-> Free],
                (1 :> Bios) @@ (3 :> Free) @@ (7 :> Free),
                (1 :> Free) @@ (3 :> Locked) @@ (7 :> Bios) }

GRUB_LINUX_BZIMAGE_ADDR == W(1048576)        \* 0x100000

Req(id, addr, size) == [id |-> id, addr |-> addr, size |-> size]
MCRequests ==
    { Req(IMR_RANGE_BOOT, W(585728), W(4112)),            \* 0x8F000, 0x1000 + strlen (arg)
      Req(IMR_RANGE_BOOT, W(581632), W(4112)),            \* 0x8E000
      Req(IMR_RANGE_BZIMAGE, GRUB_LINUX_BZIMAGE_ADDR, W(328268)),   \* 0x50000 + 0x24C
      Req(IMR_RANGE_BZIMAGE, GRUB_LINUX_BZIMAGE_ADDR, W(307200)),   \* 0x4B000, unsigned
      Req(IMR_RANGE_BZIMAGE, GRUB_LINUX_BZIMAGE_ADDR, W(768)),      \* below IMR_MIN_SIZE
      Req(IMR_RANGE_KERN_TEXT, GRUB_LINUX_BZIMAGE_ADDR, W(4096)) }

\* The firmware locked IMR7 over its own region.
MCLockedRegs == MCInitRegs \cup { (1 :> Free) @@ (3 :> Free) @@ (7 :> Locked) }
====
