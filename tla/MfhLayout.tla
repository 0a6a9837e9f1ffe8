------------------------------ MODULE MfhLayout ------------------------------
(***************************************************************************)
(* The layout of the Master Flash Header (efi/clanton/mfh.h) and the pure *)
(* part of the reader (efi/clanton/mfh.c): the copy into the cache and    *)
(* the scan of the item table, as operators over the 32-bit words of the  *)
(* region.  Mfh gives them state; the asset layer calls them.             *)
(***************************************************************************)
EXTENDS GrubBase, Sequences, SequencesExt

GRUB_CLN_MFH_IDENTIFIER == 1598899784     \* 0x5F4D4648, "_MFH"
MfhBytes       == 512                     \* sizeof (struct grub_cln_mfh)
CountOffset    == 16                      \* offsetof (flash_item_count), 0x010
PrioOffset     == 20                      \* offsetof (boot_prio_list_count), 0x014
PaddingOffset  == 24                      \* offsetof (struct grub_cln_mfh, padding)
ItemBytes      == 16                      \* sizeof (struct grub_cln_mfh_item)

CLN_MFH_ITEM_TYPE_BOOTLOADER_CONFIG        == 13   \* 0x0D
CLN_MFH_ITEM_TYPE_BOOTLOADER_CONFIG_SIGNED == 14   \* 0x0E
CLN_MFH_ITEM_TYPE_KERNEL                   == 16   \* 0x10
CLN_MFH_ITEM_TYPE_KERNEL_SIGNED            == 17   \* 0x11
CLN_MFH_ITEM_TYPE_RAMDISK                  == 18   \* 0x12
CLN_MFH_ITEM_TYPE_RAMDISK_SIGNED           == 19   \* 0x13
CLN_MFH_ITEM_TYPE_BUILD_INFO               == 24   \* 0x18, layout.conf

NoType             == -1

(* A directory d is [identifier, prio, items]: the identifier word, the    *)
(* boot-priority list length and the sequence of [type, addr, len] items.  *)
(* Its image is the header words, the priority list, then 4 words per item *)
(* (type, flash_item_addr, flash_item_len, reserved), as laid out in mfh.h. *)
FlashImage(d) ==
    <<d.identifier, 0, 0, 0, Len(d.items), d.prio>>
    \o [i \in 1..d.prio |-> 0]
    \o FlattenSeq([i \in 1..Len(d.items) |->
                     <<d.items[i].type, d.items[i].addr, d.items[i].len, 0>>])

\* The 32-bit word at a byte offset of a word sequence.
ReadWord(mem, offset) == mem[offset \div 4 + 1]

\* Mutant: the copy counts the struct in the wrong unit and fills half the cache.
grub_cln_mfh_load_half(img) ==
    [w \in 1..(MfhBytes \div 8) |-> IF w <= Len(img) THEN img[w] ELSE 0]

\* grub_cln_mfh_load: memcpy of sizeof (cln_mfh) bytes from the flash.
grub_cln_mfh_load(img) ==
    [w \in 1..(MfhBytes \div 4) |-> IF w <= Len(img) THEN img[w] ELSE 0]

(* The loop of grub_cln_mfh_entry_lookup: items i, i+1, ... at offset,    *)
(* offset + ItemBytes, ...; the first whose type matches wins.             *)
RECURSIVE ScanItems(_, _, _, _)
ScanItems(mfh, entry_type, i, offset) ==
    IF i >= ReadWord(mfh, CountOffset)
    THEN [found |-> FALSE]
    ELSE IF ReadWord(mfh, offset) = entry_type
         THEN [found |-> TRUE,
               addr  |-> ReadWord(mfh, offset + 4),
               len   |-> ReadWord(mfh, offset + 8)]
         ELSE ScanItems(mfh, entry_type, i + 1, offset + ItemBytes)

\* The identifier check of the cached copy, and where its item table begins.
IdentifierOK(c) == ReadWord(c, 0) = GRUB_CLN_MFH_IDENTIFIER
ItemTableOffset(c) == PaddingOffset + 4 * ReadWord(c, PrioOffset)

(* What a lookup leaves behind, from the cache c, the identifier check ok *)
(* and the result hit of the scan: the cache, the loaded flag, errnum (on *)
(* success as it was on entry) and the out-parameters when written.       *)
LookupOutcome(c, ok, hit, err) ==
    [cln_mfh |-> c,
     loaded  |-> ok,
     errnum  |-> IF ~ok THEN ERR_EXEC_FORMAT
                 ELSE IF hit.found THEN err ELSE ERR_FILE_NOT_FOUND,
     found   |-> ok /\ hit.found,
     addr    |-> IF ok /\ hit.found THEN hit.addr ELSE 0,
     len     |-> IF ok /\ hit.found THEN hit.len ELSE 0]

NotFound == [found |-> FALSE]

\* Mutant: the item table is taken to start right after the header, as if
\* the boot-priority list were empty.
grub_cln_mfh_entry_lookup_noprio(mfh, loaded, err, img, entry_type) ==
    LET c == IF loaded THEN mfh ELSE grub_cln_mfh_load(img)
    IN  LookupOutcome(c, IdentifierOK(c),
                      IF IdentifierOK(c) THEN ScanItems(c, entry_type, 0, PaddingOffset)
                      ELSE NotFound, err)

(* grub_cln_mfh_entry_lookup as a function of the cache, the error number  *)
(* on entry and the flash: copy the MFH on first use, check the           *)
(* identifier, scan the items that follow the boot-priority list.          *)
grub_cln_mfh_entry_lookup(mfh, loaded, err, img, entry_type) ==
    LET c == IF loaded THEN mfh ELSE grub_cln_mfh_load(img)
    IN  LookupOutcome(c, IdentifierOK(c),
                      IF IdentifierOK(c) THEN ScanItems(c, entry_type, 0, ItemTableOffset(c))
                      ELSE NotFound, err)

====================================================================
