------------------------------ MODULE KernelLoad ------------------------------
(***************************************************************************)
(* The Linux loader of the Clanton boot path: grub_load_linux,             *)
(* grub_load_initrd, allocate_pages and free_pages of                      *)
(* efi/ia32/loader/linux.c, over the asset layer (Asset), the IMR manager  *)
(* (ImrRegs), the signature oracle and the EFI page allocator.             *)
(*                                                                         *)
(* The "kernel" command fetches the kernel's CSBH in secure mode, reads    *)
(* the Linux header, allocates the real-mode pages (in the lowest free run *)
(* of the memory map that holds them) and the protected-mode pages at the  *)
(* fixed GRUB_LINUX_BZIMAGE_ADDR, protects both with IMR1 and IMR7, and    *)
(* copies the CSBH and the image there to be verified together.  The      *)
(* "initrd" command places the initrd at the highest free address below   *)
(* the kernel's limit, with its CSBH on the page in front of it, and       *)
(* verifies the pair.  A DMA agent (bus agents other than the host core,   *)
(* mask bit 31) may write any word the IMRs leave open to it, at any time. *)
(*                                                                         *)
(* Memory is abstracted to what the loader copied where: the copies of its *)
(* last command as word intervals, and for the kernel and the initrd the   *)
(* buffer the signature check sees (CSBH at the start, the image copied    *)
(* behind it) and whether a DMA write has hit it since it was copied.      *)
(***************************************************************************)
EXTENDS Asset, ImrRegs

CONSTANTS
    LinuxHeaders,   \* [asset -> [valid, setup_sects, initrd_addr_max]]: its Linux header
    ParamsBytes,    \* sizeof (struct linux_kernel_params), from grub/cpu/linux.h
    MemMap,         \* the conventional memory of the firmware: <<[start, pages]>>, ascending
    InitRegs,       \* the IMR registers the firmware may leave behind
    Secure,         \* the values grub_cln_secure may have
    Commands,       \* the "kernel" and "initrd" commands the user may give
    MaxCmds,        \* bound on the commands
    Uarts           \* what the PCI scan may find of UART1: "mmio", "io_bar", "absent"

VARIABLES
    sw,             \* the boot switches (fixed once the loader runs)
    imr,            \* the IMR registers
    ld,             \* the statics of linux.c, the EFI allocations and the buffers (LdInit)
    cmds            \* commands given so far

vars == <<asset_vars, sw, imr, ld, cmds>>

PAGE_SIZE   == W(4096)
SECTOR_SIZE == W(512)
GRUB_LINUX_BZIMAGE_ADDR == W(1048576)            \* 0x100000
LowMemLimit == W(65536)                           \* 0x10000, allocate_pages
AddrLimit   == W(2147483647)                      \* 0x7fffffff, grub_load_initrd
LINUX_INITRD_MAX_ADDRESS == W(939524095)          \* 0x37FFFFFF

\* page_align: round up to a page in 32-bit arithmetic.
page_align(size) == LET up == (size + PAGE_SIZE - 1) % U32 IN up - (up % PAGE_SIZE)

\* (grub_size_t) of an int, and (int) of a grub_size_t.
Unsigned(x) == x % U32

-----------------------------------------------------------------------------
(* The EFI boot services (not part of the sources): memory is in pages of  *)
(* PAGE_SIZE words; held is the set of pages allocated and not freed.      *)
PageNo(addr) == addr \div PAGE_SIZE
PagesAt(addr, n) == PageNo(addr) .. PageNo(addr) + n - 1
ConvPages == UNION {PagesAt(MemMap[i].start, MemMap[i].pages) : i \in DOMAIN MemMap}

\* grub_efi_allocate_pages at a fixed address: the pages must all be free.
AllocOk(held, addr, n) ==
    /\ n > 0 /\ n <= Cardinality(ConvPages) /\ addr % PAGE_SIZE = 0
    /\ PagesAt(addr, n) \subseteq ConvPages \ held

\* grub_efi_get_memory_map: the conventional runs of free pages, ascending.
FreeRuns(held) ==
    LET F      == ConvPages \ held
        starts == SetToSortSeq({p \in F : p - 1 \notin F}, <)
        RunLen(p) == CHOOSE n \in 1..Cardinality(F) : p + n \notin F /\ p..(p + n - 1) \subseteq F
    IN  [i \in DOMAIN starts |-> [start |-> starts[i] * PAGE_SIZE, pages |-> RunLen(starts[i])]]

-----------------------------------------------------------------------------
(* The loader's statics and what it wrote (record ld):                      *)
(*   loaded, sbh_len, cln_sbh, linux_mem_size as in linux.c;              *)
(*   real_mode_mem/pages, prot_mode_mem/pages, initrd_mem/pages;           *)
(*   held: the pages allocated and not freed; lh: the Linux header in      *)
(*   params (initrd_addr_max, ramdisk_image, ramdisk_size);                *)
(*   copies: the [lo, hi) word intervals the last command wrote;           *)
(*   kbuf, ibuf: the buffers verified (at prot_mode_mem, at initrd_mem -   *)
(*   sbh_len) with the base address, whether the ROM accepted them and     *)
(*   whether a DMA write hit them since; ramdisk: the initrd buffer handed *)
(*   to the kernel in params;                                              *)
(*   kernel_ok: a "kernel" command succeeded before; last: the errnum of   *)
(*   the last "kernel" command; injected: the assets whose signature check *)
(*   the test hook failed; cmdline: the command line of the last "kernel"  *)
(*   command that got as far as copying it.                                *)
NoBuf == [hdr |-> NoCsbh, body |-> [src |-> [store |-> "none", id |-> 0], from |-> 0,
                                    len |-> 0, at |-> 0],
          base |-> 0, verified |-> FALSE, tampered |-> FALSE]
NoHeader == [valid |-> FALSE, setup_sects |-> 0, initrd_addr_max |-> 0]

LdInit ==
    [loaded |-> FALSE, sbh_len |-> 0, cln_sbh |-> NoCsbh, linux_mem_size |-> 0,
     real_mode_mem |-> 0, real_mode_pages |-> 0, prot_mode_mem |-> 0, prot_mode_pages |-> 0,
     initrd_mem |-> 0, initrd_pages |-> 0, held |-> {},
     lh |-> [initrd_addr_max |-> 0, ramdisk_image |-> 0, ramdisk_size |-> 0],
     copies |-> {}, kbuf |-> NoBuf, ibuf |-> NoBuf, ramdisk |-> NoBuf,
     kernel_ok |-> FALSE, last |-> ERR_NONE, injected |-> {}, cmdline |-> <<>>]

\* Whether the words lo..hi-1 all lie in pages of held.
InHeld(held, lo, hi) ==
    \/ hi <= lo
    \/ /\ PageNo(hi - 1) - PageNo(lo) < Cardinality(held)
       /\ \A p \in PageNo(lo)..PageNo(hi - 1) : p \in held

(* A copy of n words to addr (n a 32-bit length, as memcpy takes it), with *)
(* whether the loader held all its pages when it wrote them.               *)
Copy(held, addr, n) ==
    [lo |-> addr, hi |-> addr + Unsigned(n), held |-> InHeld(held, addr, addr + Unsigned(n))]
-----------------------------------------------------------------------------
(* The loader's state k is [s: the asset layer (Asset's S), ld, imr].      *)
Fail(k, err) == [k EXCEPT !.s.errnum = err]

\* free_pages: give back the real-mode, protected-mode and initrd pages.
FreeRange(held, mem, pages) == IF mem # 0 THEN held \ PagesAt(mem, pages) ELSE held
free_pages(k) ==
    [k EXCEPT !.ld.held = FreeRange(FreeRange(FreeRange(@, k.ld.real_mode_mem,
                              k.ld.real_mode_pages), k.ld.prot_mode_mem, k.ld.prot_mode_pages),
                              k.ld.initrd_mem, k.ld.initrd_pages),
              !.ld.real_mode_mem = 0, !.ld.prot_mode_mem = 0, !.ld.initrd_mem = 0]

\* The protected-mode pages at GRUB_LINUX_BZIMAGE_ADDR, after the real-mode ones.
alloc_prot(k2) ==
    IF AllocOk(k2.ld.held, GRUB_LINUX_BZIMAGE_ADDR, k2.ld.prot_mode_pages)
    THEN [k |-> [k2 EXCEPT !.ld.prot_mode_mem = GRUB_LINUX_BZIMAGE_ADDR,
                           !.ld.held = @ \cup PagesAt(GRUB_LINUX_BZIMAGE_ADDR,
                                                      k2.ld.prot_mode_pages)],
          ok |-> TRUE]
    ELSE [k |-> free_pages(Fail(k2, ERR_WONT_FIT)), ok |-> FALSE]

\* The real-mode pages at the top of the run i of the memory map (0: none fits).
alloc_real(k1, runs, i) ==
    LET addr == runs[i].start + runs[i].pages * PAGE_SIZE - k1.ld.real_mode_pages * PAGE_SIZE
    IN  IF i = 0 \/ ~AllocOk(k1.ld.held, addr, k1.ld.real_mode_pages)
        THEN [k |-> free_pages(Fail(k1, ERR_WONT_FIT)), ok |-> FALSE]
        ELSE alloc_prot([k1 EXCEPT !.ld.real_mode_mem = addr,
                                   !.ld.held = @ \cup PagesAt(addr, k1.ld.real_mode_pages)])

\* The scan of the memory map for the first run that holds the real-mode pages
\* at or above 0x10000.
alloc_scan(k1, runs) ==
    alloc_real(k1, runs,
               SelectInSeq(runs, LAMBDA d : d.pages >= k1.ld.real_mode_pages
                              /\ d.start + (d.pages - k1.ld.real_mode_pages) * PAGE_SIZE
                                   >= LowMemLimit))

\* Mutant: the page counts are truncated, not rounded up.
allocate_pages_trunc(k, real_size, prot_size) ==
    LET k1 == [k EXCEPT !.ld.real_mode_pages = (real_size + SECTOR_SIZE) \div PAGE_SIZE,
                        !.ld.prot_mode_pages = prot_size \div PAGE_SIZE,
                        !.ld.real_mode_mem = 0, !.ld.prot_mode_mem = 0, !.ld.initrd_mem = 0]
    IN  alloc_scan(k1, FreeRuns(k1.ld.held))

(* allocate_pages: page-align both sizes (the real-mode one with a sector  *)
(* more), forget the three pointers without freeing them, then allocate.   *)
allocate_pages(k, real_size, prot_size) ==
    LET k1 == [k EXCEPT !.ld.real_mode_pages = page_align(real_size + SECTOR_SIZE) \div PAGE_SIZE,
                        !.ld.prot_mode_pages = page_align(prot_size) \div PAGE_SIZE,
                        !.ld.real_mode_mem = 0, !.ld.prot_mode_mem = 0, !.ld.initrd_mem = 0]
    IN  alloc_scan(k1, FreeRuns(k1.ld.held))

(* The "mem=" option of the command line, as safe_parse_maxulong and the  *)
(* suffix switch leave linux_mem_size (in words): none; a number too large *)
(* to parse; not a number; or value (bytes) shifted by its k/m/g suffix,   *)
(* 0 when the shift overflows.                                             *)
linux_mem_option(opt) ==
    CASE opt.kind = "overflow" -> LINUX_INITRD_MAX_ADDRESS
      [] opt.kind = "num" ->
           IF opt.shift > 0 /\ opt.value > 2^(32 - opt.shift) - 1 THEN 0
           ELSE IF opt.shift >= 2 THEN opt.value * 2^(opt.shift - 2) ELSE W(opt.value)
      [] OTHER -> 0
-----------------------------------------------------------------------------
(* grub_load_linux, from its end backwards.  Each step gets the state     *)
(* after the previous one, and the values it computed, as parameters.     *)

\* fail1: a kernel that did not load is forgotten (the history is recorded).
linux_fail1(k) ==
    [k EXCEPT !.ld.loaded = IF k.s.errnum # ERR_NONE THEN FALSE ELSE @,
              !.ld.last = k.s.errnum,
              !.ld.kernel_ok = @ \/ k.s.errnum = ERR_NONE]

\* fail: close the asset, then fail1.
linux_fail(k) == linux_fail1([k EXCEPT !.s = grub_close(@)])

\* The check of the verifier in secure mode; none otherwise.
SecureVerify(k, c) ==
    IF k.sw.secure THEN cln_verify(k.s, c) ELSE [st |-> k.s, forced |-> FALSE, ret |-> TRUE]

\* The ROM checks the CSBH and image at prot_mode_mem; ERR_NONE: loaded.
linux_verify(k5) ==
    LET v  == SecureVerify(k5, k5.ld.kbuf)
        ok == v.ret
    IN  linux_fail([k5 EXCEPT !.s = v.st,
                              !.s.errnum = IF ok THEN @ ELSE ERR_CLN_VERIFICATION,
                              !.ld.injected = IF v.forced THEN @ \cup {KERNEL} ELSE @,
                              !.ld.kbuf.verified = k5.sw.secure /\ ok,
                              !.ld.loaded = IF k5.s.errnum = ERR_NONE /\ ok THEN TRUE ELSE @])

\* The read r of len words of the image to prot_mode_mem + offs: memcpy on
\* flash, grub_read on a file; a short read fails.
linux_read(k4, r, len, offs) ==
    LET k5 == [k4 EXCEPT !.s = r.st,
                         !.ld.copies = @ \cup {Copy(k4.ld.held, k4.ld.prot_mode_mem + offs,
                                                    IF FromSpi(k4.sw, KERNEL) THEN len ELSE r.ret)},
                         !.ld.kbuf.body = [src |-> SrcOf(k4.s, k4.sw, KERNEL), from |-> r.from,
                                           len |-> r.ret, at |-> offs],
                         !.ld.kbuf.base = k4.ld.prot_mode_mem, !.ld.kbuf.tampered = FALSE]
    IN  IF r.ret # len THEN linux_fail(Fail(k5, ERR_EXEC_FORMAT)) ELSE linux_verify(k5)

(* In secure mode, seek to the image's start, drop sbh_len from prot_size *)
(* and copy the CSBH to prot_mode_mem, the image behind it; otherwise seek *)
(* past the real-mode sectors.  len is (grub_ssize_t) prot_size.           *)
linux_copy(k3, prot_size, setup_sects) ==
    IF k3.sw.secure
    THEN LET k4 == [k3 EXCEPT !.s = grub_cln_asset_seek(@, k3.sw, 0),
                              !.ld.copies = @ \cup {Copy(k3.ld.held, k3.ld.prot_mode_mem, SizeofSbh)},
                              !.ld.kbuf.hdr = k3.ld.cln_sbh]
             len == ToInt32(Unsigned(prot_size - k3.ld.sbh_len))
         IN  linux_read(k4, grub_cln_asset_read(k4.s, k4.sw, KERNEL, len), len, k3.ld.sbh_len)
    ELSE LET k4 == [k3 EXCEPT !.s = grub_cln_asset_seek(@, k3.sw,
                                      setup_sects * SECTOR_SIZE + SECTOR_SIZE)]
             len == ToInt32(prot_size)
         IN  linux_read(k4, grub_cln_asset_read(k4.s, k4.sw, KERNEL, len), len, 0)

\* The token the early console's address replaces, and an address of UART1.
QUARK_UART_MMIO_TOKEN == <<"$EARLY_CON_ADDR_REPLACE">>
UartMmio == <<"0x9000b000">>

\* Mutant: a scan that finds no UART1 leaves errnum alone.
(* cln_early_uart_init: the scan of bus 0 for UART1 (Intel 0x0936 at      *)
(* function 5).  Behind a 32-bit memory BAR it returns the address; behind *)
(* an I/O or 64-bit BAR cln_uart_early_setup bails and NULL is returned;  *)
(* with no UART1 it returns NULL and sets errnum to ERR_DEV_VALUES.        *)
cln_early_uart_init(k) ==
    [k    |-> IF k.sw.uart = "absent" THEN Fail(k, ERR_DEV_VALUES) ELSE k,
     mmio |-> k.sw.uart = "mmio"]

(* cln_detect_early_uart: when the command line holds the token, the scan *)
(* runs; a NULL address is skipped (errnum as the scan left it), otherwise *)
(* the address is printed over the token and the rest moved up behind it.  *)
(* "0x%x" is at most 10 bytes against the token's 23, so the line never    *)
(* grows past the arglen real_size was computed from.                      *)
cln_detect_early_uart(k, arg) ==
    LET u == cln_early_uart_init(k)
    IN  CASE grub_strstr(arg, QUARK_UART_MMIO_TOKEN) = 0 -> [k |-> k, arg |-> arg]
          [] ~u.mmio -> [k |-> u.k, arg |-> arg]
          [] OTHER   -> [k |-> u.k, arg |-> ReplaceFirstSubSeq(UartMmio, QUARK_UART_MMIO_TOKEN, arg)]

(* The boot parameters: the header copied into the zeroed real-mode pages *)
(* and layout.conf looked up (grub_cln_dump_layout), with no ramdisk and   *)
(* the "mem=" limit for the initrd; then the early UART is looked for and  *)
(* the command line copied to real_mode_mem + 0x1000.                      *)
linux_params(k2, real_size, prot_size, hdr, cmd) ==
    LET u == cln_detect_early_uart([k2 EXCEPT !.s = grub_cln_dump_layout(@)], cmd.arg)
    IN  linux_copy([u.k EXCEPT !.ld.copies = @ \cup {Copy(k2.ld.held, k2.ld.real_mode_mem, real_size),
                                                   Copy(k2.ld.held, k2.ld.real_mode_mem + PAGE_SIZE,
                                                         cmd.arglen + 1)},
                               !.ld.lh = [initrd_addr_max |-> hdr.initrd_addr_max,
                                          ramdisk_image |-> 0, ramdisk_size |-> 0],
                               !.ld.linux_mem_size = linux_mem_option(cmd.mem),
                               !.ld.cmdline = u.arg],
                   prot_size, hdr.setup_sects)

\* IMR7 over prot_size words at GRUB_LINUX_BZIMAGE_ADDR, after IMR1.
linux_imr_bzimage(k2, i, real_size, prot_size, hdr, cmd) ==
    IF i.err # ERR_NONE THEN linux_fail(Fail([k2 EXCEPT !.imr = i.regs], i.err))
    ELSE linux_params([k2 EXCEPT !.imr = i.regs, !.s.errnum = ERR_NONE],
                      real_size, prot_size, hdr, cmd)

\* Mutant: IMR7 is set up with the real-mode size.
linux_imr_boot_real(a, i, real_size, prot_size, hdr, cmd) ==
    IF i.err # ERR_NONE THEN linux_fail(Fail([a.k EXCEPT !.imr = i.regs], i.err))
    ELSE linux_imr_bzimage([a.k EXCEPT !.imr = i.regs],
                           intel_cln_imr_setup(i.regs, IMR_RANGE_BZIMAGE,
                                               GRUB_LINUX_BZIMAGE_ADDR, real_size),
                           real_size, prot_size, hdr, cmd)

\* IMR1 over the real_size words at real_mode_mem, after the allocation a.
linux_imr_boot(a, i, real_size, prot_size, hdr, cmd) ==
    IF i.err # ERR_NONE THEN linux_fail(Fail([a.k EXCEPT !.imr = i.regs], i.err))
    ELSE linux_imr_bzimage([a.k EXCEPT !.imr = i.regs], 
                           intel_cln_imr_setup(i.regs, IMR_RANGE_BZIMAGE,
                                               GRUB_LINUX_BZIMAGE_ADDR, prot_size),
                           real_size, prot_size, hdr, cmd)

linux_allocated(a, real_size, prot_size, hdr, cmd) ==
    IF ~a.ok THEN linux_fail(a.k)
    ELSE linux_imr_boot(a, intel_cln_imr_setup(a.k.imr, IMR_RANGE_BOOT, a.k.ld.real_mode_mem,
                                               real_size),
                        real_size, prot_size, hdr, cmd)
(* The sizes: img_size is (grub_size_t) of the asset's int size; the       *)
(* real-mode part is 0x1000 plus the command line; prot_size is the image  *)
(* with its CSBH in secure mode, the image less its real-mode sectors      *)
(* otherwise, both in 32-bit arithmetic.                                   *)
linux_sizes(k1, img_size, hdr, cmd) ==
    LET real_size == PAGE_SIZE + cmd.arglen
        prot_size == IF k1.sw.secure THEN Unsigned(img_size + k1.ld.sbh_len)
                     ELSE Unsigned(img_size - hdr.setup_sects * SECTOR_SIZE - SECTOR_SIZE)
    IN  linux_allocated(allocate_pages(k1, real_size, prot_size), real_size, prot_size, hdr, cmd)

\* The Linux header is what the read r of the parameter block copied: the
\* asset's own header when the read began at its payload, garbage otherwise.
HeaderRead(r, src) ==
    IF r.from = PayloadStart(src) /\ src \in DOMAIN LinuxHeaders THEN LinuxHeaders[src]
    ELSE NoHeader

(* The read r of sizeof (params_buf): a short read, a wrong boot_flag or   *)
(* header magic, a version below 2.03 or a zImage fail with               *)
(* ERR_EXEC_FORMAT.                                                        *)
linux_header(k1, r, hdr, cmd) ==
    IF r.ret # W(ParamsBytes) \/ ~hdr.valid
    THEN linux_fail(Fail([k1 EXCEPT !.s = r.st], ERR_EXEC_FORMAT))
    ELSE linux_sizes([k1 EXCEPT !.s = r.st],
                     Unsigned(grub_cln_asset_size(r.st, k1.sw, KERNEL)), hdr, cmd)

\* The open o of the kernel asset.
linux_open(k1, o, cmd) ==
    IF ~o.ret THEN linux_fail1([k1 EXCEPT !.s = o.st])
    ELSE LET r == grub_cln_asset_read(o.st, k1.sw, KERNEL, W(ParamsBytes))
         IN  linux_header([k1 EXCEPT !.s = o.st], r, HeaderRead(r, SrcOf(o.st, k1.sw, KERNEL)), cmd)

\* The fetch f of the kernel's CSBH, in secure mode.
linux_fetched(k1, f, cmd) ==
    IF ~f.ret
    THEN linux_fail1([k1 EXCEPT !.s = f.st,
                                !.s.errnum = IF @ = ERR_FILE_NOT_FOUND /\ ~k1.sw.linux_spi
                                             THEN ERR_SGN_FILE_NOT_FOUND ELSE @])
    ELSE linux_open([k1 EXCEPT !.s = f.st, !.ld.sbh_len = f.csbh.hlen, !.ld.cln_sbh = f.csbh],
                    grub_cln_asset_open(f.st, k1.sw, KERNEL, cmd.path), cmd)

(* grub_load_linux (the "kernel" command; stage2 runs every command with  *)
(* errnum cleared): the test directives of its command line are read,      *)
(* then a kernel path is needed unless the kernel is on flash.             *)
grub_load_linux(k, cmd) ==
    LET k0 == [k EXCEPT !.ld.sbh_len = 0, !.ld.copies = {}, !.s.errnum = ERR_NONE,
                        !.s.err = cln_test_setup(@, cmd.arg)]
    IN  IF ~k.sw.linux_spi /\ cmd.path = NoFile THEN linux_fail1(Fail(k0, ERR_BAD_FILENAME))
        ELSE IF k.sw.secure
        THEN linux_fetched(k0, grub_cln_fetch_sbh(k0.s, k0.sw, KERNEL_CSBH, cmd.path), cmd)
        ELSE linux_open(k0, grub_cln_asset_open(k0.s, k0.sw, KERNEL, cmd.path), cmd)
-----------------------------------------------------------------------------
(* grub_load_initrd, from its end backwards.  On every path it closes the *)
(* asset ("fail") or returns at once ("fail1"); loaded is left as it is.   *)
initrd_fail(k) == [k EXCEPT !.s = grub_close(@)]

\* The ROM checks the CSBH and initrd at initrd_mem - sbh_len; the page that
\* held the CSBH is given back and the ramdisk is handed to the kernel.
initrd_verify(k5, addr, size) ==
    LET v  == SecureVerify(k5, k5.ld.ibuf)
        k6 == [k5 EXCEPT !.s = v.st,
                         !.ld.injected = IF v.forced THEN @ \cup {INITRD} ELSE @]
    IN  IF ~v.ret THEN initrd_fail(Fail(k6, ERR_CLN_VERIFICATION))
        ELSE initrd_fail([k6 EXCEPT !.ld.ibuf.verified = k5.sw.secure,
                                    !.ld.held = IF k5.sw.secure
                                                THEN @ \ PagesAt(k5.ld.initrd_mem - PAGE_SIZE, 1)
                                                ELSE @,
                                    !.ld.lh.ramdisk_image = addr, !.ld.lh.ramdisk_size = size,
                                    !.ld.ramdisk = [k5.ld.ibuf EXCEPT !.verified = k5.sw.secure]])

\* The read r of size words of the initrd to initrd_mem.
initrd_read(k4, r, addr, size) ==
    LET k5 == [k4 EXCEPT !.s = r.st,
                         !.ld.copies = @ \cup {Copy(k4.ld.held, k4.ld.initrd_mem,
                                                    IF FromSpi(k4.sw, INITRD) THEN size ELSE r.ret)},
                         !.ld.ibuf.body = [src |-> SrcOf(k4.s, k4.sw, INITRD), from |-> r.from,
                                           len |-> r.ret, at |-> k4.ld.sbh_len],
                         !.ld.ibuf.base = k4.ld.initrd_mem - k4.ld.sbh_len,
                         !.ld.ibuf.tampered = FALSE]
    IN  IF r.ret # size THEN initrd_fail(Fail(k5, ERR_EXEC_FORMAT))
        ELSE initrd_verify(k5, addr, size)

\* Mutants: the initrd starts right behind the CSBH; the address handed to
\* the kernel is not moved past the CSBH page.
initrd_place_adjacent(k3, addr, size) ==
    IF k3.sw.secure
    THEN LET k4 == [k3 EXCEPT !.ld.copies = @ \cup {Copy(k3.ld.held, k3.ld.initrd_mem + PAGE_SIZE
                                                           - k3.ld.sbh_len, SizeofSbh)},
                              !.ld.ibuf.hdr = k3.ld.cln_sbh,
                              !.ld.initrd_mem = @ + PAGE_SIZE - k3.ld.sbh_len]
         IN  initrd_read(k4, grub_cln_asset_read(k4.s, k4.sw, INITRD, size - PAGE_SIZE),
                         addr + PAGE_SIZE - k3.ld.sbh_len, size - PAGE_SIZE)
    ELSE initrd_read(k3, grub_cln_asset_read(k3.s, k3.sw, INITRD, size), addr, size)
initrd_place_noaddr(k3, addr, size) ==
    IF k3.sw.secure
    THEN LET k4 == [k3 EXCEPT !.ld.copies = @ \cup {Copy(k3.ld.held, k3.ld.initrd_mem + PAGE_SIZE
                                                           - k3.ld.sbh_len, SizeofSbh)},
                              !.ld.ibuf.hdr = k3.ld.cln_sbh,
                              !.ld.initrd_mem = @ + PAGE_SIZE]
         IN  initrd_read(k4, grub_cln_asset_read(k4.s, k4.sw, INITRD, size - PAGE_SIZE),
                         addr, size - PAGE_SIZE)
    ELSE initrd_read(k3, grub_cln_asset_read(k3.s, k3.sw, INITRD, size), addr, size)

(* In secure mode the CSBH goes to the end of the first page, sbh_len     *)
(* before the initrd, which starts on the second page.                     *)
initrd_place(k3, addr, size) ==
    IF k3.sw.secure
    THEN LET k4 == [k3 EXCEPT !.ld.copies = @ \cup {Copy(k3.ld.held, k3.ld.initrd_mem + PAGE_SIZE
                                                           - k3.ld.sbh_len, SizeofSbh)},
                              !.ld.ibuf.hdr = k3.ld.cln_sbh,
                              !.ld.initrd_mem = @ + PAGE_SIZE]
         IN  initrd_read(k4, grub_cln_asset_read(k4.s, k4.sw, INITRD, size - PAGE_SIZE),
                         addr + PAGE_SIZE, size - PAGE_SIZE)
    ELSE initrd_read(k3, grub_cln_asset_read(k3.s, k3.sw, INITRD, size), addr, size)

\* The pages at the address the scan chose (0: none).
initrd_alloc(k2, addr, size) ==
    IF addr = 0 THEN initrd_fail(Fail(k2, ERR_UNRECOGNIZED))
    ELSE IF ~AllocOk(k2.ld.held, addr, k2.ld.initrd_pages)
    THEN initrd_fail(Fail(k2, ERR_WONT_FIT))
    ELSE initrd_place([k2 EXCEPT !.ld.initrd_mem = addr,
                                 !.ld.held = @ \cup PagesAt(addr, k2.ld.initrd_pages)],
                      addr, size)

(* One descriptor d of the scan for the highest place for the initrd      *)
(* (bytes page_align (size), pages pages) between addr_min and addr_max:  *)
(* the part below addr_min is cut off, the end is capped at addr_max, and  *)
(* the candidate replaces addr when its end lies above addr.               *)
InitrdCandidate(addr, d, addr_min, addr_max, bytes, pages) ==
    LET t   == IF d.start < addr_min /\ d.pages > (addr_min - d.start) \div PAGE_SIZE
               THEN [start |-> addr_min, pages |-> d.pages - (addr_min - d.start) \div PAGE_SIZE]
               ELSE d
        end == IF t.start + t.pages * PAGE_SIZE > addr_max THEN addr_max
               ELSE t.start + t.pages * PAGE_SIZE
    IN  IF /\ t.start >= addr_min /\ t.start + bytes <= addr_max /\ t.pages >= pages
           /\ end <= AddrLimit /\ end > addr
        THEN end - bytes ELSE addr

\* The limits: the kernel's initrd_addr_max, lowered to "mem=", page-aligned;
\* above three times the protected-mode pages.
InitrdAddrMax(l) ==
    LET m == IF l.linux_mem_size # 0 /\ l.linux_mem_size < l.lh.initrd_addr_max
             THEN l.linux_mem_size ELSE l.lh.initrd_addr_max
    IN  m - (m % PAGE_SIZE)
InitrdAddrMin(l) == l.prot_mode_mem + l.prot_mode_pages * 3 * PAGE_SIZE

(* The size (int) of the initrd, with a page for the CSBH in secure mode,  *)
(* gives initrd_pages; then the scan of the memory map.                    *)
initrd_size(k1, size) ==
    LET k2 == [k1 EXCEPT !.ld.initrd_pages = page_align(Unsigned(size)) \div PAGE_SIZE]
    IN  initrd_alloc(k2,
                     FoldLeft(LAMBDA a, d : InitrdCandidate(a, d, InitrdAddrMin(k2.ld),
                                InitrdAddrMax(k2.ld), page_align(Unsigned(size)),
                                k2.ld.initrd_pages),
                              0, FreeRuns(k2.ld.held)),
                     size)

\* The open o of the initrd asset.
initrd_open(k1, o) ==
    IF ~o.ret THEN [k1 EXCEPT !.s = o.st]
    ELSE initrd_size([k1 EXCEPT !.s = o.st],
                     grub_cln_asset_size(o.st, k1.sw, INITRD)
                       + (IF k1.sw.secure THEN PAGE_SIZE ELSE 0))

\* The fetch f of the initrd's CSBH, in secure mode.
initrd_fetched(k1, f, cmd) ==
    IF ~f.ret
    THEN [k1 EXCEPT !.s = f.st,
                    !.s.errnum = IF @ = ERR_FILE_NOT_FOUND /\ ~k1.sw.initrd_spi
                                 THEN ERR_SGN_FILE_NOT_FOUND ELSE @]
    ELSE initrd_open([k1 EXCEPT !.s = f.st, !.ld.sbh_len = f.csbh.hlen, !.ld.cln_sbh = f.csbh],
                     grub_cln_asset_open(f.st, k1.sw, INITRD, cmd.path))

(* grub_load_initrd (the "initrd" command): a path is needed unless the   *)
(* initrd is on flash, and a kernel must be loaded.                        *)
grub_load_initrd(k, cmd) ==
    LET k0 == [k EXCEPT !.ld.sbh_len = 0, !.ld.copies = {}, !.s.errnum = ERR_NONE]
    IN  CASE ~k.sw.initrd_spi /\ cmd.path = NoFile -> Fail(k0, ERR_BAD_FILENAME)
          [] ~k.ld.loaded -> Fail(k0, ERR_UNRECOGNIZED)
          [] k.sw.secure ->
               initrd_fetched(k0, grub_cln_fetch_sbh(k0.s, k0.sw, INITRD_CSBH, cmd.path), cmd)
          [] OTHER -> initrd_open(k0, grub_cln_asset_open(k0.s, k0.sw, INITRD, cmd.path))
-----------------------------------------------------------------------------
(* The loader: the firmware leaves the IMRs in one of InitRegs and GRUB   *)
(* knows whether the part is secure and where kernel and initrd are        *)
(* (grub_cln_linux_spi, grub_cln_initrd_spi, set by the commands' caller  *)
(* outside these sources); the user gives "kernel" and "initrd" commands   *)
(* in any order.                                                           *)
K == [s |-> S, ld |-> ld, imr |-> imr, sw |-> sw]

SetK(k) == SetS(k.s) /\ ld' = k.ld /\ imr' = k.imr /\ UNCHANGED sw

KernelInit ==
    /\ \E d \in FlashDirs : flash = FlashImage(d)
    /\ fs \in FileSystems
    /\ cln_mfh = [w \in 1..(MfhBytes \div 4) |-> 0]
    /\ cln_mfh_loaded = FALSE
    /\ errnum = ERR_NONE
    /\ cln_flash_item_addr = 0
    /\ cln_flash_item_len = 0
    /\ spi_offs_intra_module = 0
    /\ skip_csbh = FALSE
    /\ grub_file = NoFile
    /\ filepos = 0
    /\ filemax = 0
    /\ \E secure \in Secure, linux_spi, initrd_spi \in BOOLEAN, uart \in Uarts :
          sw = [secure |-> secure, linux_spi |-> linux_spi, initrd_spi |-> initrd_spi,
                loaded_from_spi |-> FALSE, uart |-> uart]
    /\ imr \in InitRegs
    /\ cln_err = [cln_err_init EXCEPT !.state_sign_verify =
                                        IF INTEL_CLN_TEST /\ sw.secure THEN 1 ELSE 0]
    /\ ld = LdInit
    /\ cmds = 0

\* The "kernel" command.
LoadLinux(cmd) ==
    /\ cmds < MaxCmds
    /\ SetK(grub_load_linux(K, cmd))
    /\ cmds' = cmds + 1

\* The "initrd" command.
LoadInitrd(cmd) ==
    /\ cmds < MaxCmds
    /\ SetK(grub_load_initrd(K, cmd))
    /\ cmds' = cmds + 1

\* The words of a buffer a DMA agent may aim at: the first and the last word
\* of the image copied into it.
Targets(b) ==
    IF b.base = 0 \/ b.body.len <= 0 THEN {}
    ELSE {b.base + b.body.at, b.base + b.body.at + b.body.len - 1}

(* A bus agent other than the host core writes to a buffer the loader     *)
(* placed, where the memory controller lets it.                            *)
DmaWrite(buf) ==
    /\ ~ld[buf].tampered
    /\ \E a \in Targets(ld[buf]) : CanWrite(imr, ANY_AGENT, a)
    /\ ld' = [ld EXCEPT ![buf].tampered = TRUE]
    /\ UNCHANGED <<asset_vars, sw, imr, cmds>>

KernelNext ==
    \/ \E cmd \in Commands : cmd.cmd = "kernel" /\ LoadLinux(cmd)
    \/ \E cmd \in Commands : cmd.cmd = "initrd" /\ LoadInitrd(cmd)
    \/ \E buf \in {"kbuf", "ramdisk"} : DmaWrite(buf)

KernelSpec == KernelInit /\ [][KernelNext]_vars
-----------------------------------------------------------------------------
\* The errors the two commands can leave in errnum.
LoaderErrors ==
    {ERR_NONE, ERR_BAD_FILENAME, ERR_FILE_NOT_FOUND, ERR_SGN_FILE_NOT_FOUND, ERR_EXEC_FORMAT,
     ERR_FILELENGTH, ERR_READ, ERR_WONT_FIT, ERR_BAD_ARGUMENT, ERR_CLN_VERIFICATION,
     ERR_UNRECOGNIZED, ERR_DEV_VALUES}

\* The page counts of 32-bit sizes and the allocations are page addresses.
KernelTypeOK ==
    /\ sw.secure \in BOOLEAN /\ sw.linux_spi \in BOOLEAN /\ sw.initrd_spi \in BOOLEAN
    /\ sw.uart \in Uarts
    /\ cmds \in 0..MaxCmds
    /\ errnum \in LoaderErrors
    /\ ld.loaded \in BOOLEAN /\ ld.kernel_ok \in BOOLEAN /\ ld.last \in LoaderErrors
    /\ ld.held \subseteq ConvPages
    /\ \A m \in {ld.real_mode_mem, ld.prot_mode_mem, ld.initrd_mem} :
          m \in Nat /\ m % PAGE_SIZE = 0
    /\ \A p \in {ld.real_mode_pages, ld.prot_mode_pages, ld.initrd_pages} :
          p \in 0..(U32 \div PAGE_SIZE)

(* Every memcpy and read of a "kernel" or "initrd" command (the CSBH, the  *)
(* boot parameters, the command line and the image) lands in pages the     *)
(* loader allocated and still holds: the page counts allocate_pages and   *)
(* grub_load_initrd derive from img_size, sbh_len and the initrd's size,  *)
(* and the offsets the copies use, agree.                                  *)
CopiesInAllocation == \A c \in ld.copies : c.held

(* A loaded kernel is the image the ROM accepted in secure mode, and no   *)
(* bus agent has written to it since it was copied: IMR7, set up with     *)
(* prot_size before the copy, covers all of it.                           *)
KernelIntact ==
    ld.loaded => /\ ~ld.kbuf.tampered
                 /\ sw.secure => ld.kbuf.verified

(* In secure mode the initrd the boot parameters hand to the kernel        *)
(* (ramdisk_image, ramdisk_size) is exactly the image the ROM verified    *)
(* behind its CSBH: the address moved past the CSBH page and the size less *)
(* that page.                                                              *)
RamdiskIsVerifiedInitrd ==
    sw.secure /\ ld.lh.ramdisk_image # 0 =>
        /\ ld.ramdisk.verified
        /\ ld.lh.ramdisk_image = ld.ramdisk.base + ld.ramdisk.body.at
        /\ ld.lh.ramdisk_size = ld.ramdisk.body.len

(* In a test build, every signature check the harness fails is the check  *)
(* of the asset its directive names: the kernel's only with               *)
(* "kernel-sig-verification" set, the initrd's only with                  *)
(* "ramdisk-sig-verification".  __cln_test_signature tells the checks      *)
(* apart by their number alone (test_module.h:69): this holds only while   *)
(* the configuration's check (in cmain), the kernel's and the initrd's      *)
(* come in that order, whatever commands fail or are repeated.             *)
InjectedFailureNamesAsset ==
    /\ KERNEL \in ld.injected => cln_err.kernel_sig_fail
    /\ INITRD \in ld.injected => cln_err.ramdisk_sig_fail

(* In a test build, no kernel is loaded once a "kernel" command has asked  *)
(* for "no-kernel" (as a mode or inside a longer one): the hook in         *)
(* grub_cln_asset_open fails every later open of the kernel, and the       *)
(* failed command forgets the kernel an earlier one loaded.                *)
NoKernelDirectiveHonoured == (INTEL_CLN_TEST /\ cln_err.no_kernel) => ~ld.loaded

(* The initrd handed to the kernel is no more writable by other bus agents *)
(* than the kernel: "before copying untrusted payload into memory, it     *)
(* calls the Memory-Protection-Region Manager" (spec section 2).           *)
InitrdIntact == ld.lh.ramdisk_image # 0 => ~ld.ramdisk.tampered

(* A "kernel" command never fails for want of memory when the memory map  *)
(* holds that kernel: a failed or repeated load leaves the allocator      *)
(* "clean for a retry" (spec section 7).                                   *)
KernelReloadable == ld.last # ERR_WONT_FIT
====
