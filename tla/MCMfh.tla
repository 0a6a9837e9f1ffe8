------------------------------- MODULE MCMfh -------------------------------
(* Model-checking instance of Mfh: every directory of at most three items  *)
(* over the kernel and configuration tags, with duplicates, priority lists *)
(* of length 0..2 and a good or bad identifier.  Item i sits at address i  *)
(* with length 10 * i, so a wrong match is visible in the out-parameters.  *)
EXTENDS Mfh

MCTypes == {CLN_MFH_ITEM_TYPE_KERNEL, CLN_MFH_ITEM_TYPE_KERNEL_SIGNED,
            CLN_MFH_ITEM_TYPE_BOOTLOADER_CONFIG}

MCLookupTypes == MCTypes \cup {CLN_MFH_ITEM_TYPE_RAMDISK}

MCDirs ==
    { [identifier |-> id, prio |-> p,
       items |-> [i \in 1..Len(ts) |-> [type |-> ts[i], addr |-> i, len |-> 10 * i]]] :
        id \in {GRUB_CLN_MFH_IDENTIFIER, 0},
        p \in 0..2,
        ts \in BoundedSeq(MCTypes, 3) }
=============================================================================
