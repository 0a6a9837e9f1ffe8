---------------------------- MODULE MCConfigLoad ----------------------------
(* Model-checking instance of ConfigLoad.  Addresses and lengths in words. *)
(* The flash holds a signed configuration (with an unsigned one), or a    *)
(* signed one whose 8 kB body fills the buffer, or a signed one whose item *)
(* is longer than the module its header signs, or one shorter than the   *)
(* 1 kB header region, or none.  The device holds *)
(* grub.conf with a genuine ".csbh", grub.conf alone, grub.conf longer     *)
(* than its genuine header covers, grub.conf with a forged header, or      *)
(* nothing.                                                                *)
EXTENDS ConfigLoad

C1 == 1073545216   \* item addresses in words: 0xFFF40000, 0xFFF48000,
C2 == 1073553408   \* 0xFFF50000, 0xFFF58000 bytes
C3 == 1073561600
C4 == 1073569792
C5 == 1073577984   \* 0xFFF60000 bytes

Item(t, a, l) == [type |-> t, addr |-> a, len |-> l]
Dir(items) == [identifier |-> GRUB_CLN_MFH_IDENTIFIER, prio |-> 0, items |-> items]
SIGNED == CLN_MFH_ITEM_TYPE_BOOTLOADER_CONFIG_SIGNED
PLAIN  == CLN_MFH_ITEM_TYPE_BOOTLOADER_CONFIG

MCFlashDirs ==
    { Dir(<<Item(PLAIN, C4, W(2048)), Item(SIGNED, C1, W(5120))>>),
      Dir(<<Item(SIGNED, C2, W(9216))>>),
      Dir(<<Item(SIGNED, C3, W(6144))>>),
      Dir(<<Item(SIGNED, C5, W(768))>>),
      Dir(<<>>) }

Hdr(m, g) == [magic |-> TRUE, hlen |-> W(1024), msize |-> m, genuine |-> g]
MCFlashContent ==
    [a \in {C1, C2, C3, C4, C5} |->
       CASE a = C1 -> Hdr(W(4096), TRUE)
         [] a = C2 -> Hdr(W(8192), TRUE)
         [] a \in {C3, C5} -> Hdr(W(4096), TRUE)
         [] a = C4 -> [magic |-> FALSE, hlen |-> 0, msize |-> 0, genuine |-> FALSE]]

Conf == [base |-> "grub.conf", csbh |-> FALSE]
Csbh == [base |-> "grub.conf", csbh |-> TRUE]
Plain(l) == [len |-> l, magic |-> FALSE, hlen |-> 0, msize |-> 0, genuine |-> FALSE]
SbhFile(m, g) == [len |-> W(1024), magic |-> TRUE, hlen |-> W(1024), msize |-> m, genuine |-> g]

MCFileSystems ==
    { (Conf :> Plain(W(2048))) @@ (Csbh :> SbhFile(W(2048), TRUE)),
      Conf :> Plain(W(2048)),
      (Conf :> Plain(W(3072))) @@ (Csbh :> SbhFile(W(2048), TRUE)),
      (Conf :> Plain(W(2048))) @@ (Csbh :> SbhFile(W(2048), FALSE)),
      [p \in {} |-> Plain(0)] }

MCKernelHeaderBytes == 128

(* A builtin_table[] with the loading commands, some debug ones and help, *)
(* and "default" (run before the first title) and "title".                *)
Builtin(name) == [name |-> name, func |-> name, flags |-> {BUILTIN_CMDLINE, BUILTIN_HELP_LIST}]
MCBuiltinTable ==
    <<[name |-> "default", func |-> "default", flags |-> {BUILTIN_MENU}]>>
    \o [i \in 1..6 |-> Builtin(<<"boot", "cat", "halt", "initrd", "kernel", "reboot">>[i])]
    \o <<[name |-> "title", func |-> "title", flags |-> {BUILTIN_TITLE}]>>

(* grub.conf: a global default, a comment, a title indented by a tab and *)
(* ended by CR-LF, a command continued by a backslash, an entry with an    *)
(* unknown command; a command before any title, a title that gets none;    *)
(* an empty file; and one whose last line has no newline.                  *)
MCConfigTexts ==
    { <<"default", SP, "x", NL, HASH, "kernel", NL, TAB, "title", SP, "x", CR, NL,
        "kernel", SP, "x", BSL, NL, "x", NL, "title", NL, "x", NL, "cat", NL>>,
      <<"kernel", NL, "default", EQ, "x", NL, "title", SP, "x", NL, NL, "title", NL,
        SP, "boot", NL, "title", NL>>,
      <<>>,
      <<"title", NL, "boot">> }
\* The violation runs are about the buffer, not its text.
MCEmptyText == {<<>>}
====
