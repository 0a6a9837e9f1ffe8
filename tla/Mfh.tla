-------------------------------- MODULE Mfh --------------------------------
(***************************************************************************)
(* The Clanton flash directory reader: efi/clanton/mfh.c and mfh.h.        *)
(*                                                                         *)
(* The Master Flash Header (MFH) is a 512-byte record in memory-mapped SPI *)
(* flash.  grub_cln_mfh_entry_lookup copies it once into the process-wide  *)
(* cache cln_mfh, checks its identifier, and scans the item table that     *)
(* follows the header prefix and the boot-priority list for the first item *)
(* of the requested type.  The flash is modelled as the sequence of 32-bit *)
(* words it holds, so the byte offsets computed by the code are kept.      *)
(***************************************************************************)
EXTENDS MfhLayout

CONSTANTS
    Dirs,           \* the directories the MFH region may hold (records, see FlashImage)
    LookupTypes     \* the item types callers look up

VARIABLES
    flash,          \* the words of the memory-mapped MFH region (never written)
    cln_mfh,        \* static struct grub_cln_mfh cln_mfh: the cached copy
    cln_mfh_loaded, \* static int cln_mfh_loaded
    errnum,         \* the global grub error number
    item_addr,      \* *addr out-parameter of the last lookup
    item_len,       \* *len out-parameter of the last lookup
    looked_up       \* the type of the last lookup (history, for the properties)

mfh_vars == <<flash, cln_mfh, cln_mfh_loaded, errnum, item_addr, item_len, looked_up>>

-----------------------------------------------------------------------------
(* The reader on its own: a caller looks up any type.  Every caller in the *)
(* code (spi_open, grub_cln_dump_layout) enters with errnum = ERR_NONE.    *)

MfhInit ==
    /\ \E d \in Dirs : flash = FlashImage(d)
    /\ cln_mfh = [w \in 1..(MfhBytes \div 4) |-> 0]
    /\ cln_mfh_loaded = FALSE
    /\ errnum = ERR_NONE
    /\ item_addr = 0
    /\ item_len = 0
    /\ looked_up = NoType

Lookup(t) ==
    LET r == grub_cln_mfh_entry_lookup(cln_mfh, cln_mfh_loaded, ERR_NONE, flash, t)
    IN  /\ cln_mfh' = r.cln_mfh
        /\ cln_mfh_loaded' = r.loaded
        /\ errnum' = r.errnum
        /\ item_addr' = IF r.found THEN r.addr ELSE item_addr
        /\ item_len' = IF r.found THEN r.len ELSE item_len
        /\ looked_up' = t
        /\ UNCHANGED flash

MfhNext == \E t \in LookupTypes : Lookup(t)

MfhSpec == MfhInit /\ [][MfhNext]_mfh_vars

-----------------------------------------------------------------------------
(* Reference: the directory decoded by the struct layout of mfh.h, and the *)
(* least index whose type tag matches.                                     *)
RefCount == ReadWord(flash, CountOffset)
RefPrio  == ReadWord(flash, PrioOffset)
RefItem(i) ==
    LET base == (6 + RefPrio + 4 * (i - 1)) + 1
    IN  [type |-> flash[base], addr |-> flash[base + 1], len |-> flash[base + 2]]
RefMatches(t) == {i \in 1..RefCount : RefItem(i).type = t}

MfhTypeOK ==
    /\ cln_mfh \in [1..(MfhBytes \div 4) -> Int]
    /\ cln_mfh_loaded \in BOOLEAN
    /\ errnum \in {ERR_NONE, ERR_FILE_NOT_FOUND, ERR_EXEC_FORMAT}
    /\ item_addr \in Nat /\ item_len \in Nat
    /\ looked_up \in LookupTypes \cup {NoType}

(* The lookup returns the first item of the requested type, and NotFound  *)
(* only when the directory has none, FormatError when the identifier is    *)
(* wrong (grub_cln_mfh_entry_lookup, mfh.c): the byte offsets the scan     *)
(* computes from boot_prio_list_count and the item size, its loop bound   *)
(* and its first-match exit agree with the layout of mfh.h.                *)
LookupReturnsFirstMatch ==
    looked_up # NoType =>
      IF flash[1] # GRUB_CLN_MFH_IDENTIFIER
      THEN errnum = ERR_EXEC_FORMAT /\ ~cln_mfh_loaded
      ELSE IF RefMatches(looked_up) = {}
           THEN errnum = ERR_FILE_NOT_FOUND
           ELSE LET i == CHOOSE j \in RefMatches(looked_up) :
                           \A k \in RefMatches(looked_up) : j <= k
                IN  /\ errnum = ERR_NONE
                    /\ item_addr = RefItem(i).addr
                    /\ item_len = RefItem(i).len
=============================================================================
