---------------------------- MODULE RecoveryShell ----------------------------
(***************************************************************************)
(* The Clanton recovery shell, efi/clanton/recovery.c, as operators over  *)
(* the table of built-in commands.                                         *)
(*                                                                         *)
(* builtin_table[] (stage2/builtins.c, not part of these sources) is a    *)
(* sequence of pointers to struct builtin; an entry is abstracted to its  *)
(* name, its routine (NULL when dropped) and its flags.  In secure mode    *)
(* grub_cln_recovery_shell drops every command that is not on the debug    *)
(* or the (empty) release list, then puts the Clanton recovery command for *)
(* the medium of the failing asset (firmware recovery from flash, or the  *)
(* SDIO program) into the first free entry, and enters the command line,  *)
(* which never returns.                                                    *)
(***************************************************************************)
EXTENDS SequencesExt

NULL == "NULL"
BUILTIN_CMDLINE   == "BUILTIN_CMDLINE"
BUILTIN_HELP_LIST == "BUILTIN_HELP_LIST"

\* debug_recovery_cmds[] and release_recovery_cmds[], without the 0 ending them.
debug_recovery_cmds ==
    <<"cat", "clear", "displaymem", "find", "geometry", "halt", "help", "read", "reboot">>
release_recovery_cmds == << >>

builtin_cln_sdio_program ==
    [name |-> "cln_sdio_program", func |-> "grub_cln_sdio_program",
     flags |-> {BUILTIN_CMDLINE, BUILTIN_HELP_LIST}]
builtin_cln_spi_program ==
    [name |-> "cln_fw_recovery", func |-> "grub_cln_spi_program",
     flags |-> {BUILTIN_CMDLINE, BUILTIN_HELP_LIST}]
ClnRecoveryCmds == {builtin_cln_sdio_program.name, builtin_cln_spi_program.name}

\* Mutant: a dropped command is only hidden (its flags cleared).
restrict_builtin_commands_hide(table, cmd_table) ==
    [i \in DOMAIN table |->
        IF \E j \in 1..Len(cmd_table) : cmd_table[j] = table[i].name THEN table[i]
        ELSE [table[i] EXCEPT !.flags = {}]]

(* restrict_builtin_commands: an entry whose name is not in cmd_table      *)
(* loses its routine and its flags.                                        *)
restrict_builtin_commands(table, cmd_table) ==
    [i \in DOMAIN table |->
        IF \E j \in 1..Len(cmd_table) : cmd_table[j] = table[i].name THEN table[i]
        ELSE [table[i] EXCEPT !.func = NULL, !.flags = {}]]

(* add_cln_recovery_command: the first entry without a routine is replaced *)
(* by the command for flash (is_spi_asset) or for SDIO; none: failure.     *)
add_cln_recovery_command(table, is_spi_asset) ==
    LET free == SelectInSeq(table, LAMBDA b : b.func = NULL)
    IN  IF free = 0 THEN [table |-> table, success |-> FALSE]
        ELSE [table |-> [table EXCEPT ![free] = IF is_spi_asset THEN builtin_cln_spi_program
                                                 ELSE builtin_cln_sdio_program],
              success |-> TRUE]

(* grub_cln_recovery_shell: restrict the table in secure mode (to the     *)
(* debug list in a debug build), add the Clanton command, restore errnum  *)
(* and enter the command line for good.  Returns the table the shell uses. *)
grub_cln_recovery_shell(table, secure, debug, is_spi_asset) ==
    LET t1 == IF ~secure THEN table
              ELSE restrict_builtin_commands(table, IF debug # 0 THEN debug_recovery_cmds
                                                    ELSE release_recovery_cmds)
    IN  add_cln_recovery_command(t1, is_spi_asset).table

\* The commands the command line runs: a routine and the BUILTIN_CMDLINE flag.
Available(table) ==
    {table[i].name : i \in {j \in DOMAIN table : table[j].func # NULL
                                                  /\ BUILTIN_CMDLINE \in table[j].flags}}
====
