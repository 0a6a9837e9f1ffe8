------------------------------ MODULE MCAsset ------------------------------
(* Model-checking instance of Asset.  Addresses and lengths are in words.  *)
(* The flash holds one of four directories: a signed kernel and signed     *)
(* configuration (the secure layout), unsigned kernel with only a signed   *)
(* initrd (the non-secure fallback), a signed kernel shorter than the 1 kB *)
(* header region, and an item whose extent wraps the address space.  The   *)
(* device holds a kernel and a configuration with their ".csbh" files.     *)
EXTENDS AssetClient

A1 == 1073545216   \* flash item addresses in words: 0xFFF40000, 0xFFF80000,
                   \* 0xFFF48000, 0xFFF60000 and 0xFFFFF000 bytes
A2 == 1073610752
A3 == 1073553408
A4 == 1073577984
A5 == 1073740800

Item(t, a, l) == [type |-> t, addr |-> a, len |-> l]
Dir(items) == [identifier |-> GRUB_CLN_MFH_IDENTIFIER, prio |-> 1, items |-> items]

MCFlashDirs ==
    { Dir(<<Item(CLN_MFH_ITEM_TYPE_KERNEL_SIGNED, A1, W(20480)),
            Item(CLN_MFH_ITEM_TYPE_BOOTLOADER_CONFIG_SIGNED, A2, W(4096))>>),
      Dir(<<Item(CLN_MFH_ITEM_TYPE_KERNEL, A3, W(20480)),
            Item(CLN_MFH_ITEM_TYPE_RAMDISK_SIGNED, A4, W(8192))>>),
      Dir(<<Item(CLN_MFH_ITEM_TYPE_KERNEL_SIGNED, A1, W(768))>>),
      Dir(<<Item(CLN_MFH_ITEM_TYPE_RAMDISK_SIGNED, A5, W(8192))>>) }

Genuine == [magic |-> TRUE, hlen |-> W(1024), msize |-> W(4096), genuine |-> TRUE]
MCFlashContent == [a \in {A1, A2, A3, A4, A5} |-> Genuine]

MCFileSystems == {
    [p \in {[base |-> "vmlinuz", csbh |-> FALSE], [base |-> "vmlinuz", csbh |-> TRUE],
            [base |-> "grub.conf", csbh |-> FALSE], [base |-> "grub.conf", csbh |-> TRUE]} |->
       IF p.csbh THEN [len |-> W(1024), magic |-> TRUE, hlen |-> W(1024), msize |-> W(12288), genuine |-> TRUE]
       ELSE [len |-> W(12288), magic |-> FALSE, hlen |-> 0, msize |-> 0, genuine |-> FALSE]] }

MCBaseOf == [k \in {KERNEL, INITRD, CONFIG} |->
               CASE k = KERNEL -> "vmlinuz" [] k = INITRD -> "initrd" [] k = CONFIG -> "grub.conf"]

MCKernelHeaderBytes == 128
=============================================================================
