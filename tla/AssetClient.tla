---------------------------- MODULE AssetClient ----------------------------
(* The layer on its own, driven by a client that follows the usage of its  *)
(* callers (linux.c, boot_settings.c): a _CSBH fetch or an open, reads,    *)
(* size queries, seeks (only on the kernel: "only used by the linux loader *)
(* routine"), then a close.  Every command starts with errnum = ERR_NONE.  *)
EXTENDS Asset


CONSTANTS
    BaseOf,         \* [kind -> the file path the client passes]
    ReadLens,       \* the lengths a client reads, in words
    SeekOffsets,    \* the logical offsets a client seeks to, in words
    MaxReads        \* bound on the reads of one open handle

VARIABLES
    sw,             \* the boot switches (see FromSpi)
    handle,         \* the asset type the client has open, or "none"
    reads,          \* number of reads on the open handle
    last_read       \* the last read: type, flash or file, start, and whether signed

client_vars == <<sw, handle, reads, last_read>>
vars == <<asset_vars, client_vars>>

Switches == [secure: BOOLEAN, linux_spi: BOOLEAN, initrd_spi: BOOLEAN,
             loaded_from_spi: BOOLEAN]
PlainTypes == {KERNEL, INITRD, CONFIG}
NoRead == [t |-> "none", spi |-> FALSE, from |-> 0, len |-> 0, signed |-> FALSE]
PathOf(t) == [base |-> BaseOf[KindOf[t]], csbh |-> FALSE]

AssetInit ==
    /\ \E d \in FlashDirs : flash = FlashImage(d)
    /\ fs \in FileSystems
    /\ cln_mfh = [w \in 1..(MfhBytes \div 4) |-> 0]
    /\ cln_mfh_loaded = FALSE
    /\ errnum = ERR_NONE
    /\ cln_flash_item_addr = 0
    /\ cln_flash_item_len = 0
    /\ spi_offs_intra_module = 0
    /\ skip_csbh = FALSE
    /\ grub_file = NoFile
    /\ filepos = 0
    /\ filemax = 0
    /\ cln_err = cln_err_init
    /\ sw \in Switches
    /\ handle = "none"
    /\ reads = 0
    /\ last_read = NoRead

Open(t) ==
    /\ handle = "none"
    /\ LET o == grub_cln_asset_open([S EXCEPT !.errnum = ERR_NONE], sw, t, PathOf(t))
       IN  /\ SetS(o.st)
           /\ handle' = IF o.ret THEN t ELSE "none"
    /\ reads' = 0
    /\ UNCHANGED <<sw, last_read>>

FetchSbh(t) ==
    /\ handle = "none"
    /\ SetS(grub_cln_fetch_sbh([S EXCEPT !.errnum = ERR_NONE], sw, t, PathOf(t)).st)
    /\ UNCHANGED client_vars

Read(n) ==
    /\ handle # "none"
    /\ reads < MaxReads
    /\ LET r == grub_cln_asset_read(S, sw, handle, n)
       IN  /\ SetS(r.st)
           /\ last_read' = [t |-> handle, spi |-> FromSpi(sw, handle), from |-> r.from,
                            len |-> r.ret, signed |-> sw.secure \/ skip_csbh]
    /\ reads' = reads + 1
    /\ UNCHANGED <<sw, handle>>

Seek(offset) ==
    /\ handle = KERNEL
    /\ SetS(grub_cln_asset_seek(S, sw, offset))
    /\ UNCHANGED client_vars

Close ==
    /\ handle # "none"
    /\ SetS(grub_cln_asset_close(S))
    /\ handle' = "none"
    /\ UNCHANGED <<sw, reads, last_read>>

AssetNext ==
    \/ \E t \in PlainTypes : Open(t)
    \/ \E t \in AssetTypes \ PlainTypes : FetchSbh(t)
    \/ \E n \in ReadLens : Read(n)
    \/ \E offset \in SeekOffsets : Seek(offset)
    \/ Close

AssetSpec == AssetInit /\ [][AssetNext]_vars

-----------------------------------------------------------------------------
AssetTypeOK ==
    /\ sw \in Switches
    /\ handle \in AssetTypes \cup {"none"}
    /\ skip_csbh \in BOOLEAN
    /\ spi_offs_intra_module \in 0..(U32 - 1)       \* unsigned int
    /\ errnum \in {ERR_NONE, ERR_FILE_NOT_FOUND, ERR_EXEC_FORMAT, ERR_FILELENGTH, ERR_READ}
    /\ reads \in 0..MaxReads

(* Every payload read from flash comes from an item whose extent ends at  *)
(* or below 4 GB.  grub_cln_asset_read copies from the flash base plus the *)
(* cursor with no bounds check, so only the wrap test of                   *)
(* cln_flash_item_is_sane at open (asset.c:76), in every mode and on the   *)
(* fallback lookup too, keeps a read from wrapping to low memory.  (That   *)
(* the read stays inside the item does not hold: the size test allows for *)
(* sizeof the SBH, the cursor skips 1 kB; see kernel_copy_overrun.)        *)
ReadWithinItem ==
    (last_read.spi /\ last_read.t \in PlainTypes)
        => cln_flash_item_addr + cln_flash_item_len <= U32

-----------------------------------------------------------------------------
(* The refinement mapping to AssetStream: the payload offset of the open  *)
(* handle is its cursor less the header region spi_open skipped (the      *)
(* flash cursor spi_offs_intra_module, when grub_cln_secure or skip_csbh), *)
(* or the file position; a read's payload offset is its start less the     *)
(* same region, as it was when the read ran.                               *)
HeaderSkip(spi, signed) == IF spi /\ signed THEN SPI_CSBH_OFFS_HARDCODED ELSE 0
StreamPos ==
    IF handle = "none" THEN 0
    ELSE IF FromSpi(sw, handle)
         THEN spi_offs_intra_module - HeaderSkip(TRUE, sw.secure \/ skip_csbh)
         ELSE filepos
StreamLast ==
    [t |-> last_read.t, from |-> last_read.from - HeaderSkip(last_read.spi, last_read.signed),
     len |-> last_read.len]

Stream == INSTANCE AssetStream
              WITH Assets <- PlainTypes, Lens <- ReadLens, Offsets <- SeekOffsets,
                   ahandle <- handle, apos <- StreamPos, alast <- StreamLast

(* The client's opens, reads, seeks and closes, on flash or on a file, in *)
(* secure mode or on the non-secure fallback to a signed item, and the     *)
(* _CSBH fetches between them, are steps of the payload stream: reads      *)
(* follow one another from payload offset 0, a seek repositions the       *)
(* stream exactly, and a fetch leaves it alone.  This spans spi_open's     *)
(* header skip, the cursor arithmetic of grub_cln_asset_read and           *)
(* grub_cln_asset_seek, and grub_read and grub_seek on the device.         *)
AssetStreamRefined == Stream!StreamSpec
====
