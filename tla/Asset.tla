------------------------------- MODULE Asset -------------------------------
(***************************************************************************)
(* The Clanton asset access layer: efi/clanton/asset.c.                    *)
(*                                                                         *)
(* An asset (kernel, initrd, configuration; each with a "_CSBH" variant    *)
(* that reads the Clanton Secure Boot Header in front of it) is read       *)
(* either from a file through the grub file primitives or from a flash     *)
(* item found in the MFH (module Mfh).  The flash path keeps the item's    *)
(* extent and a cursor in static variables and skips a hardcoded 1 kB      *)
(* header region when the item is signed.                                  *)
(*                                                                         *)
(* Sizes and addresses are counted in 4-byte words, so that the 32-bit     *)
(* address space is 2^30 words and the wrap-around the code guards        *)
(* against stays within TLC's integers; every constant of the code is a    *)
(* multiple of 4 bytes.                                                    *)
(*                                                                         *)
(* Each operation of asset.c is an operator from the layer's state S (a    *)
(* record of the variables below) and the boot switches sw to the new      *)
(* state and the return value, so that a caller's action can make several *)
(* calls in the order its code does.                                       *)
(***************************************************************************)
EXTENDS MfhLayout, FiniteSets, TestModule

CONSTANTS
    FlashDirs,      \* the MFH directories the flash may hold (see MfhLayout)
    FlashContent,   \* [item address -> its CSBH: [magic, hlen, msize, genuine]]
    FileSystems,    \* the file systems the device may hold: [path -> file]
    KernelHeaderBytes, \* sizeof (struct linux_kernel_header), from grub/cpu/linux.h
    LongPaths,      \* the file bases whose ".csbh" path reaches GRUB_CLN_SBH_FILE_PATHMAX
    INTEL_CLN_TEST  \* whether the build defines INTEL_CLN_TEST (the test hooks are live)

VARIABLES
    flash, cln_mfh, cln_mfh_loaded, errnum,   \* shared with Mfh
    cln_flash_item_addr,      \* static grub_uint8_t *cln_flash_item_addr
    cln_flash_item_len,       \* static grub_uint32_t cln_flash_item_len
    spi_offs_intra_module,    \* static unsigned int spi_offs_intra_module
    skip_csbh,                \* static grub_uint8_t skip_csbh
    fs,                       \* the mounted file system: [path -> [len, magic,
                              \*   hlen, msize, genuine]] (a ".csbh" file holds a CSBH)
    grub_file,                \* the file grub_open opened, or NoFile
    filepos, filemax,         \* the grub file cursor and size
    cln_err                   \* struct __cln_error_trigger_struct __cln_err (TestModule)

asset_vars == <<flash, fs, cln_mfh, cln_mfh_loaded, errnum, cln_flash_item_addr,
                cln_flash_item_len, spi_offs_intra_module, skip_csbh,
                grub_file, filepos, filemax, cln_err>>

SPI_CSBH_OFFS_HARDCODED == W(1024)         \* asset.h
SizeofSbh               == W(588)         \* sizeof (struct grub_cln_sbh), sbh.h
GRUB_CLN_SBH_MAGIC_NUMBER == 1598247752     \* "_CSH"

\* grub_cln_asset_type; the plain types read past the header, the _CSBH ones read it.
KERNEL == "KERNEL"
INITRD == "INITRD"
CONFIG == "CONFIG"
KERNEL_CSBH == "KERNEL_CSBH"
INITRD_CSBH == "INITRD_CSBH"
CONFIG_CSBH == "CONFIG_CSBH"
AssetTypes == {KERNEL, INITRD, CONFIG, KERNEL_CSBH, INITRD_CSBH, CONFIG_CSBH}
KindOf == [t \in AssetTypes |->
             IF t \in {KERNEL, KERNEL_CSBH} THEN KERNEL
             ELSE IF t \in {INITRD, INITRD_CSBH} THEN INITRD ELSE CONFIG]
IsCsbh(t) == t \in {KERNEL_CSBH, INITRD_CSBH, CONFIG_CSBH}

\* The MFH tags spi_open looks up per kind, and the minimum size it checks.
UnsignedTag == [k \in {KERNEL, INITRD, CONFIG} |->
                  CASE k = KERNEL -> CLN_MFH_ITEM_TYPE_KERNEL
                    [] k = INITRD -> CLN_MFH_ITEM_TYPE_RAMDISK
                    [] k = CONFIG -> CLN_MFH_ITEM_TYPE_BOOTLOADER_CONFIG]
SignedTag   == [k \in {KERNEL, INITRD, CONFIG} |->
                  CASE k = KERNEL -> CLN_MFH_ITEM_TYPE_KERNEL_SIGNED
                    [] k = INITRD -> CLN_MFH_ITEM_TYPE_RAMDISK_SIGNED
                    [] k = CONFIG -> CLN_MFH_ITEM_TYPE_BOOTLOADER_CONFIG_SIGNED]
MinSize     == [k \in {KERNEL, INITRD, CONFIG} |->
                  IF k = KERNEL THEN W(KernelHeaderBytes) ELSE 0]

\* A path on the file-system device; csbh marks the ".csbh" companion.
NoFile == [base |-> "none", csbh |-> FALSE]

\* The content of a CSBH: magic number right, header_len, and whether it is
\* the OEM signature of the asset src names.  NoCsbh: nothing read yet.
NoCsbh == [magic |-> FALSE, hlen |-> 0, msize |-> 0, genuine |-> FALSE,
           src |-> [store |-> "none", id |-> 0]]

(* The boot switches: grub_cln_secure, and whether each kind comes from    *)
(* flash (grub_cln_linux_spi, grub_cln_initrd_spi, grub_cln_loaded_from_spi). *)
FromSpi(sw, t) ==
    CASE KindOf[t] = KERNEL -> sw.linux_spi
      [] KindOf[t] = INITRD -> sw.initrd_spi
      [] KindOf[t] = CONFIG -> sw.loaded_from_spi

\* The state of the layer as a record, and the step that installs one.
S == [errnum |-> errnum, cln_mfh |-> cln_mfh, loaded |-> cln_mfh_loaded,
      addr |-> cln_flash_item_addr, len |-> cln_flash_item_len,
      offs |-> spi_offs_intra_module, skip |-> skip_csbh,
      file |-> grub_file, pos |-> filepos, max |-> filemax, err |-> cln_err]

SetS(s) ==
    /\ errnum' = s.errnum
    /\ cln_mfh' = s.cln_mfh
    /\ cln_mfh_loaded' = s.loaded
    /\ cln_flash_item_addr' = s.addr
    /\ cln_flash_item_len' = s.len
    /\ spi_offs_intra_module' = s.offs
    /\ skip_csbh' = s.skip
    /\ grub_file' = s.file
    /\ filepos' = s.pos
    /\ filemax' = s.max
    /\ cln_err' = s.err
    /\ UNCHANGED <<flash, fs>>

-----------------------------------------------------------------------------
(* grub_cln_mfh_entry_lookup on the layer's copy of the MFH cache: the    *)
(* outcome r stored back, the out-parameters only when the item was found. *)
StoreLookup(s, r) ==
    [s EXCEPT !.cln_mfh = r.cln_mfh, !.loaded = r.loaded, !.errnum = r.errnum,
              !.addr = IF r.found THEN r.addr ELSE @,
              !.len = IF r.found THEN r.len ELSE @]
MfhLookup(s, t) ==
    StoreLookup(s, grub_cln_mfh_entry_lookup(s.cln_mfh, s.loaded, s.errnum, flash, t))

\* Mutant: the wrap-around test of the extent is dropped.
cln_flash_item_is_sane_nowrap(s, sw, min_size) ==
    LET m == min_size + (IF sw.secure THEN SizeofSbh ELSE 0)
    IN  IF s.len < m THEN [s EXCEPT !.errnum = ERR_FILELENGTH] ELSE s

(* cln_flash_item_is_sane: the item is at least min_size long, plus the   *)
(* SBH in secure mode, and its extent does not wrap the address space.     *)
cln_flash_item_is_sane(s, sw, min_size) ==
    LET m == min_size + (IF sw.secure THEN SizeofSbh ELSE 0)
    IN  IF s.len < m \/ (s.addr + s.len) % U32 < s.addr
        THEN [s EXCEPT !.errnum = ERR_FILELENGTH]
        ELSE s

(* The steps of spi_open.  The lookup of the unsigned tag (the signed one *)
(* in secure mode) is s1; in non-secure mode a miss falls back to the      *)
(* signed tag and marks the header to be skipped.                          *)
spi_lookup_fallback(s1, sw, k) ==
    IF ~sw.secure /\ s1.errnum = ERR_FILE_NOT_FOUND
    THEN LET r == MfhLookup([s1 EXCEPT !.errnum = ERR_NONE], SignedTag[k])
         IN  [r EXCEPT !.skip = (r.errnum = ERR_NONE)]
    ELSE s1

\* The extent of a found item is checked.
spi_check_item(s2, sw, k) ==
    IF s2.errnum = ERR_NONE THEN cln_flash_item_is_sane(s2, sw, MinSize[k]) ELSE s2

\* Mutant: the header is skipped in secure mode only, not for the fallback.
spi_skip_header_secure(s3, sw) ==
    IF sw.secure THEN [s3 EXCEPT !.offs = @ + SPI_CSBH_OFFS_HARDCODED] ELSE s3

\* The cursor moves past the header region of a signed item.
spi_skip_header(s3, sw) ==
    IF sw.secure \/ s3.skip
    THEN [s3 EXCEPT !.offs = @ + SPI_CSBH_OFFS_HARDCODED] ELSE s3

OpenResult(s4) == [st |-> s4, ret |-> s4.errnum = ERR_NONE]

\* spi_open: reset the cursor and the skip flag, then the steps above.
spi_open(s, sw, k) ==
    OpenResult(
      spi_skip_header(
        spi_check_item(
          spi_lookup_fallback(
            MfhLookup([s EXCEPT !.skip = FALSE, !.offs = 0],
                      IF sw.secure THEN SignedTag[k] ELSE UnsignedTag[k]),
            sw, k),
          sw, k),
        sw))

\* The grub file primitives (stage2 disk_io), as far as this layer uses them.
grub_open(s, path) ==
    IF path \in DOMAIN fs
    THEN [st |-> [s EXCEPT !.file = path, !.pos = 0, !.max = fs[path].len],
          ret |-> TRUE]
    ELSE [st |-> [s EXCEPT !.file = NoFile, !.errnum = ERR_FILE_NOT_FOUND],
          ret |-> FALSE]

\* grub_read clamps a negative length, or one past the end, to the rest of
\* the file.
grub_read(s, n) ==
    LET k == IF s.file = NoFile \/ s.pos >= s.max THEN 0
             ELSE IF n < 0 \/ n > s.max - s.pos THEN s.max - s.pos ELSE n
    IN  [st |-> [s EXCEPT !.pos = @ + k], ret |-> k, from |-> s.pos]

grub_seek(s, offset) ==
    IF offset > s.max \/ offset < 0 THEN s ELSE [s EXCEPT !.pos = offset]

grub_close(s) == [s EXCEPT !.file = NoFile]

\* cln_get_sbh_fs_path: the path with ".csbh" appended, or "" if too long.
cln_get_sbh_fs_path(path) ==
    IF path.base \in LongPaths THEN NoFile ELSE [path EXCEPT !.csbh = TRUE]

\* Mutant: the "no-kernel" test is left out of the hook.
cln_test_asset_nokernel(err, t) ==
    /\ INTEL_CLN_TEST
    /\ \/ t = INITRD /\ err.no_ramdisk
       \/ t = KERNEL_CSBH /\ err.no_kernel_sig
       \/ t = INITRD_CSBH /\ err.no_ramdisk_sig

(* __cln_test_asset: in a test build, the open of an asset whose "no-"    *)
(* directive is set returns 0 with errnum ERR_FILE_NOT_FOUND, before      *)
(* anything else.                                                          *)
cln_test_asset(err, t) ==
    /\ INTEL_CLN_TEST
    /\ \/ t = KERNEL /\ err.no_kernel
       \/ t = INITRD /\ err.no_ramdisk
       \/ t = KERNEL_CSBH /\ err.no_kernel_sig
       \/ t = INITRD_CSBH /\ err.no_ramdisk_sig

(* grub_cln_asset_open: the test hook, then dispatch on the per-kind flash *)
(* switch; a _CSBH type on the file system opens the ".csbh" companion.    *)
grub_cln_asset_open(s, sw, t, filename) ==
    IF cln_test_asset(s.err, t)
    THEN [st |-> [s EXCEPT !.errnum = ERR_FILE_NOT_FOUND], ret |-> FALSE]
    ELSE IF FromSpi(sw, t) THEN spi_open(s, sw, KindOf[t])
    ELSE grub_open(s, IF IsCsbh(t) THEN cln_get_sbh_fs_path(filename) ELSE filename)

\* Mutant: the flash cursor is not moved on by a read.
grub_cln_asset_read_stuck(s, sw, t, len) ==
    IF FromSpi(sw, t)
    THEN [st |-> s, ret |-> len, from |-> IF IsCsbh(t) THEN 0 ELSE s.offs]
    ELSE grub_read(s, len)

(* grub_cln_asset_read: on flash, a memcpy of len words from the cursor    *)
(* (from the item base for a _CSBH type, without moving the cursor) that   *)
(* always reports len; on a file, grub_read.  "from" is the offset in the  *)
(* item or file the copy starts at.                                        *)
grub_cln_asset_read(s, sw, t, len) ==
    IF FromSpi(sw, t)
    THEN IF IsCsbh(t)
         THEN [st |-> s, ret |-> len, from |-> 0]
         ELSE [st |-> [s EXCEPT !.offs = @ + len], ret |-> len, from |-> s.offs]
    ELSE grub_read(s, len)

\* Mutants: the seek forgets the header region; subtracts it.
grub_cln_asset_seek_raw(s, sw, offset) ==
    IF sw.linux_spi THEN [s EXCEPT !.offs = offset] ELSE grub_seek(s, offset)
grub_cln_asset_seek_minus(s, sw, offset) ==
    IF sw.linux_spi
    THEN [s EXCEPT !.offs = offset - (IF sw.secure \/ s.skip
                                      THEN SPI_CSBH_OFFS_HARDCODED ELSE 0)]
    ELSE grub_seek(s, offset)

(* grub_cln_asset_seek: decides on grub_cln_linux_spi whatever the asset;  *)
(* the offset is logical, past the header when one is skipped.             *)
grub_cln_asset_seek(s, sw, offset) ==
    IF sw.linux_spi
    THEN [s EXCEPT !.offs = offset + (IF sw.secure \/ s.skip
                                      THEN SPI_CSBH_OFFS_HARDCODED ELSE 0)]
    ELSE grub_seek(s, offset)

\* (int) of a 32-bit unsigned word count.
ToInt32(x) == IF x >= U32 \div 2 THEN x - U32 ELSE x

\* Mutant: the size is computed as an unsigned 32-bit value.
grub_cln_asset_size_unsigned(s, sw, t) ==
    IF (CASE t = KERNEL -> sw.linux_spi
          [] t = INITRD -> sw.initrd_spi
          [] OTHER      -> sw.loaded_from_spi)
    THEN (s.len - (IF sw.secure \/ s.skip THEN SPI_CSBH_OFFS_HARDCODED ELSE 0)) % U32
    ELSE s.max

(* grub_cln_asset_size: the switch has cases KERNEL, INITRD and a default, *)
(* so any other type takes the configuration's switch.                     *)
grub_cln_asset_size(s, sw, t) ==
    IF (CASE t = KERNEL -> sw.linux_spi
          [] t = INITRD -> sw.initrd_spi
          [] OTHER      -> sw.loaded_from_spi)
    THEN ToInt32(s.len) - (IF sw.secure \/ s.skip THEN SPI_CSBH_OFFS_HARDCODED ELSE 0)
    ELSE s.max

grub_cln_asset_close(s) == grub_close(s)

(* The asset an open handle reads: the flash item at its base address, or *)
(* the file by its base name.                                              *)
SrcOf(s, sw, t) ==
    IF FromSpi(sw, t) THEN [store |-> "spi", id |-> s.addr]
    ELSE [store |-> "fs", id |-> s.file.base]

(* The CSBH a _CSBH read copies: the words at the flash item's base, or    *)
(* the ".csbh" file; src names the asset it claims to sign.                *)
CsbhAt(s, sw, t) ==
    LET c == IF FromSpi(sw, t) THEN FlashContent[s.addr] ELSE fs[s.file]
    IN  [magic |-> c.magic, hlen |-> c.hlen, msize |-> c.msize,
         genuine |-> c.genuine, src |-> SrcOf(s, sw, t)]

(* The end of grub_cln_fetch_sbh, from the state s1 after the read (and  *)
(* the close after a short read), whether sizeof the CSBH was read, and    *)
(* the header copied: close, then check the magic number.                  *)
fetch_sbh_result(s1, readOk, hdr) ==
    [st   |-> IF readOk /\ ~hdr.magic
              THEN [grub_close(s1) EXCEPT !.errnum = ERR_EXEC_FORMAT]
              ELSE grub_close(s1),
     ret  |-> readOk /\ hdr.magic,
     csbh |-> hdr]

\* The read of sizeof the CSBH after the open o; r is that read.
fetch_sbh_read(o, r, sw, t) ==
    LET readOk == o.ret /\ r.ret = SizeofSbh
    IN  fetch_sbh_result(
          IF ~o.ret THEN o.st
          ELSE IF readOk THEN r.st
          ELSE grub_close([r.st EXCEPT !.errnum = ERR_READ]),
          readOk,
          IF readOk THEN CsbhAt(o.st, sw, t) ELSE NoCsbh)

\* The read follows a successful open o.
fetch_sbh_open(o, sw, t) ==
    fetch_sbh_read(o, grub_cln_asset_read(o.st, sw, t, SizeofSbh), sw, t)

(* grub_cln_fetch_sbh: open the _CSBH variant, read sizeof the CSBH, close   *)
(* (twice after a short read), then check the magic number.                *)
grub_cln_fetch_sbh(s, sw, t, path) ==
    fetch_sbh_open(grub_cln_asset_open(s, sw, t, path), sw, t)
-----------------------------------------------------------------------------
(* The signature check (efi/clanton/iarom.c) is an oracle on a buffer c    *)
(* abstracted to the CSBH at its start (c.hdr) and the copy of an asset    *)
(* behind it (c.body: its source, the offset it was read from, its length *)
(* and the buffer offset it was copied to).                                *)

\* Where, in the asset src, its payload begins: past the 1 kB header region
\* of a flash item that carries a CSBH, at the start of a file.
PayloadStart(src) ==
    IF src.store = "spi" /\ FlashContent[src.id].magic THEN SPI_CSBH_OFFS_HARDCODED ELSE 0

\* The offset at which the bytes a CSBH signs begin in the asset it names.
SignedStart(hdr) == IF hdr.src.store = "spi" THEN hdr.hlen ELSE 0

(* grub_cln_verify_asset_signature: the IAROM callback sees the header at *)
(* the buffer and accepts it iff it is a genuine OEM header and the       *)
(* module_size bytes header_len further on are the asset it signs.        *)
grub_cln_verify_asset_signature(c) ==
    /\ c.hdr.magic /\ c.hdr.genuine
    /\ c.body.at = c.hdr.hlen
    /\ c.body.src = c.hdr.src
    /\ c.body.from = SignedStart(c.hdr)
    /\ c.body.len >= c.hdr.msize

(* The call grub_cln_verify_asset_signature on the state s: in a test     *)
(* build __cln_test_signature counts the check first and may make it       *)
(* return 0 without calling the ROM.                                       *)
cln_verify(s, c) ==
    IF INTEL_CLN_TEST
    THEN LET t == cln_test_signature(s.err)
         IN  [st |-> [s EXCEPT !.err = t.err], forced |-> t.fail,
              ret |-> ~t.fail /\ grub_cln_verify_asset_signature(c)]
    ELSE [st |-> s, forced |-> FALSE, ret |-> grub_cln_verify_asset_signature(c)]

(* grub_cln_dump_layout: a lookup of layout.conf in the MFH, whose address *)
(* and length go to locals and are only printed; it clears errnum before   *)
(* and after, so its one lasting effect is on the MFH cache.               *)
grub_cln_dump_layout(s) ==
    LET r == grub_cln_mfh_entry_lookup(s.cln_mfh, s.loaded, ERR_NONE, flash,
                                       CLN_MFH_ITEM_TYPE_BUILD_INFO)
    IN  [s EXCEPT !.cln_mfh = r.cln_mfh, !.loaded = r.loaded, !.errnum = ERR_NONE]
====
