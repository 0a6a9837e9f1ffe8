---------------------------- MODULE MCKernelLoad ----------------------------
(* Model-checking instance of KernelLoad, in words.  The flash holds a     *)
(* signed kernel and a signed initrd (the secure layout) or an unsigned    *)
(* kernel with the signed initrd; the device holds vmlinuz and initrd with *)
(* their ".csbh" files.  A kernel is 12 kB with 4 setup sectors, an initrd *)
(* 8 kB, each signed behind a 1 kB header region.  Conventional memory is  *)
(* 20 pages below 640 kB and 48 pages from GRUB_LINUX_BZIMAGE_ADDR on.     *)
EXTENDS KernelLoad

A1 == 1073545216   \* flash item addresses in words: 0xFFF40000, 0xFFF80000,
A2 == 1073610752   \* 0xFFF48000 and 0xFFF50000 bytes
A3 == 1073553408
A4 == 1073561600

Item(t, a, l) == [type |-> t, addr |-> a, len |-> l]
Dir(items) == [identifier |-> GRUB_CLN_MFH_IDENTIFIER, prio |-> 0, items |-> items]

MCFlashDirs ==
    { Dir(<<Item(CLN_MFH_ITEM_TYPE_KERNEL_SIGNED, A1, W(13312)),
            Item(CLN_MFH_ITEM_TYPE_RAMDISK_SIGNED, A2, W(9216))>>),
      Dir(<<Item(CLN_MFH_ITEM_TYPE_KERNEL, A3, W(12288)),
            Item(CLN_MFH_ITEM_TYPE_RAMDISK_SIGNED, A2, W(9216))>>) }

\* A kernel item of 0x300 bytes, shorter than the 1 kB header region, whose
\* forged CSBH claims a header_len of 0x800.
MCShortFlashDirs ==
    MCFlashDirs \cup { Dir(<<Item(CLN_MFH_ITEM_TYPE_KERNEL_SIGNED, A4, W(768))>>) }

Signed(m) == [magic |-> TRUE, hlen |-> W(1024), msize |-> m, genuine |-> TRUE]
Unsigned0 == [magic |-> FALSE, hlen |-> 0, msize |-> 0, genuine |-> FALSE]
MCFlashContent ==
    (A1 :> Signed(W(12288))) @@ (A2 :> Signed(W(8192))) @@ (A3 :> Unsigned0)
    @@ (A4 :> [Signed(W(4096)) EXCEPT !.hlen = W(2048), !.genuine = FALSE])

Path(b, c) == [base |-> b, csbh |-> c]
Plain(l) == [len |-> l, magic |-> FALSE, hlen |-> 0, msize |-> 0, genuine |-> FALSE]
SbhFile(m) == [len |-> W(1024), magic |-> TRUE, hlen |-> W(1024), msize |-> m, genuine |-> TRUE]
MCFileSystems ==
    { (Path("vmlinuz", FALSE) :> Plain(W(12288))) @@ (Path("vmlinuz", TRUE) :> SbhFile(W(12288)))
      @@ (Path("initrd", FALSE) :> Plain(W(8192))) @@ (Path("initrd", TRUE) :> SbhFile(W(8192))) }

Bzimage == [valid |-> TRUE, setup_sects |-> 4, initrd_addr_max |-> W(939524095)]
MCLinuxHeaders ==
    ([store |-> "fs", id |-> "vmlinuz"] :> Bzimage) @@ ([store |-> "spi", id |-> A1] :> Bzimage)
    @@ ([store |-> "spi", id |-> A3] :> Bzimage) @@ ([store |-> "spi", id |-> A4] :> Bzimage)

MCMemMap == << [start |-> 140 * PAGE_SIZE, pages |-> 20],
               [start |-> 256 * PAGE_SIZE, pages |-> 48] >>

\* The IMRs all free, IMR1 left by the firmware over a region of its own,
\* or IMR3 locked over such a region.
Free == [lo |-> 0, lock |-> FALSE, hi |-> 0, rm |-> IMR_READ_ENABLE_ALL, wm |-> IMR_WRITE_ENABLE_ALL]
Bios == [lo |-> ImrAddrField(W(2097152)), lock |-> FALSE, hi |-> ImrAddrField(W(2161664)),
         rm |-> IMR_NON_SMM_ENABLE, wm |-> IMR_NON_SMM_ENABLE]
MCInitRegs == { [b \in Banks |-> Free],
                (1 :> Bios) @@ (3 :> Free) @@ (7 :> Free),
                (1 :> Free) @@ (3 :> [Bios EXCEPT !.lock = TRUE]) @@ (7 :> Free) }

\* "kernel vmlinuz console=ttyS0" (a 16-byte command line), "kernel mem=1M"
\* (a limit below the kernel), "initrd initrd" and "initrd"; and three
\* "kernel vmlinuz" commands with test directives (48 bytes): the ramdisk's
\* signature check to fail; the kernel's; and the kernel's CSBH to be
\* missing together with its check failing; and "kernel vmlinuz
\* console=uart8250,mmio32,$EARLY_CON_ADDR_REPLACE" (48 bytes).
NoMem == [kind |-> "none"]
Console == <<"console", "=", "ttyS0">>
Drive(modes) == <<"__cln_drive_failure=">> \o modes
EarlyCon == <<"console", "=", "uart8250", ",", "mmio32", ",">> \o QUARK_UART_MMIO_TOKEN
Cmd(c, p, m) == [cmd |-> c, path |-> p, arglen |-> W(16), mem |-> m, arg |-> Console]
TestCmd(modes) == [Cmd("kernel", Path("vmlinuz", FALSE), NoMem) EXCEPT
                      !.arglen = W(48), !.arg = Console \o <<" ">> \o Drive(modes)]
MCCommands ==
    { Cmd("kernel", Path("vmlinuz", FALSE), NoMem),
      Cmd("kernel", NoFile, [kind |-> "num", value |-> 1, shift |-> 20]),
      Cmd("initrd", Path("initrd", FALSE), NoMem),
      Cmd("initrd", NoFile, NoMem),
      TestCmd(TEST_PARAM_BAD_RAMDISK_SIG),
      TestCmd(TEST_PARAM_BAD_KERNEL_SIG),
      TestCmd(TEST_PARAM_NO_KERNEL_SIG \o <<",">> \o TEST_PARAM_BAD_KERNEL_SIG),
      [Cmd("kernel", Path("vmlinuz", FALSE), NoMem) EXCEPT !.arglen = W(48), !.arg = EarlyCon] }
====
