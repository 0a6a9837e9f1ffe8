--------------------------- MODULE MCImrSideband ---------------------------
(* Model-checking instance of ImrSideband with the register states and    *)
(* calls of MCImr (repeated here): every bank free, IMR1 protecting a firmware region, or *)
(* IMR7 protecting one with IMR3 locked; the firmware's last side-band     *)
(* access left a low-address value or a mask in MDR.                       *)
EXTENDS ImrSideband

Free   == [lo |-> 0, lock |-> FALSE, hi |-> 0,
           rm |-> IMR_READ_ENABLE_ALL, wm |-> IMR_WRITE_ENABLE_ALL]
Bios   == [lo |-> ImrAddrField(W(2097152)), lock |-> FALSE, hi |-> ImrAddrField(W(2161664)),
           rm |-> IMR_NON_SMM_ENABLE, wm |-> IMR_NON_SMM_ENABLE]
Locked == [Bios EXCEPT !.lock = TRUE]

MCInitRegs == { [b \in Banks |-> Free],
                (1 :> Bios) @@ (3 :> Free) @@ (7 :> Free),
                (1 :> Free) @@ (3 :> Locked) @@ (7 :> Bios) }

GRUB_LINUX_BZIMAGE_ADDR == W(1048576)        \* 0x100000

Req(id, addr, size) == [id |-> id, addr |-> addr, size |-> size]
MCRequests ==
    { Req(IMR_RANGE_BOOT, W(585728), W(4112)),            \* 0x8F000, 0x1000 + strlen (arg)
      Req(IMR_RANGE_BOOT, W(581632), W(4112)),            \* 0x8E000
      Req(IMR_RANGE_BZIMAGE, GRUB_LINUX_BZIMAGE_ADDR, W(328268)),   \* 0x50000 + 0x24C
      Req(IMR_RANGE_BZIMAGE, GRUB_LINUX_BZIMAGE_ADDR, W(307200)),   \* 0x4B000, unsigned
      Req(IMR_RANGE_BZIMAGE, GRUB_LINUX_BZIMAGE_ADDR, W(768)),      \* below IMR_MIN_SIZE
      Req(IMR_RANGE_KERN_TEXT, GRUB_LINUX_BZIMAGE_ADDR, W(4096)) }

MCMdrInit  == {SbWord(0, FALSE, {}), Mask(IMR_NON_SMM_ENABLE)}
====
