----------------------------- MODULE ConfigLoad -----------------------------
(***************************************************************************)
(* Loading grub.conf: efi/clanton/boot_settings.c and its caller, the     *)
(* configuration loop of cmain in stage2/stage2.c.                        *)
(*                                                                         *)
(* grub_cln_load_config_file clears the 8 kB cfg_buffer, tries the        *)
(* configuration on the first partition of the boot device and, when the  *)
(* device could not be opened or the attempt reports failure, again from   *)
(* the medium GRUB was loaded from.  Each attempt (do_load_config_file)   *)
(* fetches the CSBH into the start of the buffer in secure mode, reads the *)
(* configuration behind it (header_len bytes in), and has the IAROM verify *)
(* the buffer.  cmain opens the menu when errnum is ERR_NONE afterwards   *)
(* and enters the recovery shell, which never returns, otherwise.         *)
(*                                                                         *)
(* The buffer is abstracted to what was copied into it: the CSBH at its    *)
(* start, and the extent of the configuration copied behind it.  The       *)
(* signature check of the boot ROM is an oracle: it accepts the buffer     *)
(* iff its CSBH is a genuine OEM header and the module_size bytes at       *)
(* header_len are the asset that header signs, from its first byte.        *)
(***************************************************************************)
EXTENDS Asset, RecoveryShell, ConfigParse, TLC

CONSTANTS
    MaxLoads,       \* bound on the passes of the cmain configuration loop
    BuiltinTable,   \* builtin_table[]: <<[name, func, flags]>>
    DebugBuilds,    \* the values GRUB_CLN_DEBUG (grub_cln_debug) may have
    ConfigTexts,    \* the texts grub.conf may hold (its payload, as ConfigParse reads it)
    NEW_HEAPSIZE,   \* the maxlen cmain passes to get_line_from_config
    MaxLines        \* bound on the calls of get_line_from_config in one pass

VARIABLES
    sw,             \* the boot switches; only grub_cln_loaded_from_spi changes here
    image_on_spi,   \* GRUB's image is on flash (its device has no drive/partition)
    mount,          \* what open_device on (hd0,0) finds: "ok", "nofs" or "nodisk"
    cfg,            \* cfg_buffer and the out-parameters (see NoCfg)
    phase,          \* "boot", "menu" (configuration accepted) or "recovery"
    loads,          \* passes of the cmain loop so far
    builtins,       \* the table of built-in commands
    conf_text,      \* the text of grub.conf (the same on every medium)
    cln_index,      \* the static index of get_line_from_config
    parse,          \* the locals of the configuration loop of cmain (ParseInit)
    lines           \* calls of get_line_from_config in this pass

cfg_vars == <<sw, image_on_spi, mount, cfg, phase, loads, builtins, conf_text, cln_index,
             parse, lines>>
vars == <<asset_vars, cfg_vars>>

CfgBufferSize == W(8192)                  \* sizeof (cfg_buffer), 0x2000
ConfigPath == [base |-> "grub.conf", csbh |-> FALSE]   \* config_file

(* cfg_buffer holds hdr at its start and the copied configuration body:   *)
(* its source, the offset it was read from, its length and the offset of   *)
(* the buffer it was copied to.  written is the end of the last copy into  *)
(* the buffer, fbuf and fsize are *cfg_file_buffer (an offset into         *)
(* cfg_buffer) and *cfg_file_size, verified the last verdict of the ROM.   *)
NoBody == [src |-> [store |-> "none", id |-> 0], from |-> 0, len |-> 0, at |-> 0]
NoCfg  == [hdr |-> NoCsbh, body |-> NoBody, written |-> 0, fbuf |-> 0, fsize |-> 0,
           verified |-> FALSE]

\* (size_t) of an int word count, as the comparison with sizeof converts it.
ToUnsigned(x) == IF x < 0 THEN x + U32 ELSE x

(* The steps of do_load_config_file, one attempt from the state s,       *)
(* switches sw0 and buffer c; each returns the new state, the buffer and  *)
(* the function's result (TRUE: "failed", so that the caller may fall      *)
(* back).  After the read r of size words and the close (state s2), the   *)
(* buffer c2 holds the copy; a short read fails, in secure mode the ROM    *)
(* checks the buffer and the parser's pointer moves past the CSBH.         *)
do_load_verify(s2, r, size, sw0, c2, sbh_len) ==
    CASE r.ret # size ->
           [st |-> [s2 EXCEPT !.errnum = ERR_READ], c |-> c2, ret |-> TRUE]
      [] sw0.secure ->
           LET v == cln_verify(s2, c2)
           IN  [st |-> IF v.ret THEN v.st ELSE [v.st EXCEPT !.errnum = ERR_CLN_VERIFICATION],
                c  |-> [c2 EXCEPT !.fbuf = sbh_len, !.verified = v.ret],
                ret |-> FALSE]
      [] OTHER -> [st |-> s2, c |-> c2, ret |-> FALSE]

\* The read r of the configuration, size words to cfg_buffer + sbh_len.
do_load_read(o, r, size, sw0, c1, sbh_len) ==
    do_load_verify(grub_cln_asset_close(r.st), r, size, sw0,
                   [c1 EXCEPT !.fsize = size,
                              !.body = [src |-> SrcOf(o.st, sw0, CONFIG), from |-> r.from,
                                        len |-> r.ret, at |-> sbh_len],
                              !.written = IF sbh_len + r.ret > @ THEN sbh_len + r.ret ELSE @],
                   sbh_len)

\* The size check: "Signed/unsigned configuration must fit into the buffer".
do_load_size(o, size, sw0, c1, sbh_len) ==
    IF ToUnsigned(size) > CfgBufferSize
    THEN [st |-> [o.st EXCEPT !.errnum = ERR_FILELENGTH],
          c |-> [c1 EXCEPT !.fsize = size], ret |-> TRUE]
    ELSE do_load_read(o, grub_cln_asset_read(o.st, sw0, CONFIG, size), size, sw0, c1, sbh_len)

\* The open o of the configuration.
do_load_open(o, sw0, c1, sbh_len) ==
    IF ~o.ret
    THEN [st |-> [o.st EXCEPT !.errnum = ERR_FILE_NOT_FOUND], c |-> c1, ret |-> TRUE]
    ELSE do_load_size(o, grub_cln_asset_size(o.st, sw0, CONFIG), sw0, c1, sbh_len)

\* Open the configuration after the CSBH (sbh_len its header_len) is in c1.
do_load_config_body(s1, sw0, c1, sbh_len) ==
    do_load_open(grub_cln_asset_open(s1, sw0, CONFIG, ConfigPath), sw0, c1, sbh_len)

\* The fetch f of the CSBH into the start of cfg_buffer, in secure mode.
do_load_fetched(f, sw0, c) ==
    IF ~f.ret
    THEN [st |-> [f.st EXCEPT !.errnum = ERR_SGN_FILE_NOT_FOUND],
          c |-> [c EXCEPT !.fbuf = 0, !.hdr = f.csbh], ret |-> FALSE]
    ELSE do_load_config_body(f.st, sw0, [c EXCEPT !.fbuf = 0, !.hdr = f.csbh], f.csbh.hlen)

do_load_config_file(s, sw0, c) ==
    IF sw0.secure
    THEN do_load_fetched(grub_cln_fetch_sbh(s, sw0, CONFIG_CSBH, ConfigPath), sw0, c)
    ELSE do_load_config_body(s, sw0, [c EXCEPT !.fbuf = 0], 0)

\* cmain: an errnum of ERR_NONE has the buffered configuration read, any other
\* enters the recovery shell, which never returns.
cmain_config_outcome(err) == IF err = ERR_NONE THEN "parse" ELSE "recovery"

(* The second attempt, on the medium GRUB was loaded from, after the first *)
(* attempt a1 on (hd0,0) failed or the device could not be opened.         *)
load_config_fallback(a1, sw2) ==
    do_load_config_file([a1.st EXCEPT !.errnum = ERR_NONE], sw2, a1.c)

(* The end of the pass: the attempt a that counts, with switches sw1; a  *)
(* failure enters grub_cln_recovery_shell (grub_cln_loaded_from_spi).      *)
config_loaded(a, sw1) ==
    /\ SetS(a.st)
    /\ cfg' = a.c
    /\ sw' = sw1
    /\ phase' = cmain_config_outcome(a.st.errnum)
    /\ builtins' = IF a.st.errnum = ERR_NONE THEN builtins
                   ELSE grub_cln_recovery_shell(builtins, sw1.secure, sw1.debug,
                                                sw1.loaded_from_spi)
    /\ parse' = ParseInit
    /\ lines' = 0

\* After the first attempt a1: fall back when the mount or the attempt failed.
config_first_attempt(a1) ==
    IF mount = "nodisk" \/ a1.ret
    THEN config_loaded(load_config_fallback(a1, [sw EXCEPT !.loaded_from_spi = image_on_spi]),
                       [sw EXCEPT !.loaded_from_spi = image_on_spi])
    ELSE config_loaded(a1, sw)

(* grub_cln_load_config_file followed by the errnum test of cmain: clear  *)
(* the buffer; try (hd0,0); on a mount failure or a failed attempt, clear  *)
(* errnum, record whether GRUB came from flash and try again; then open    *)
(* the menu or enter the recovery shell.  One pass of the cmain loop,     *)
(* which comes round again when the menu or command line returns.         *)
LoadConfigFile ==
    /\ phase \in {"boot", "menu"}
    /\ loads < MaxLoads
    /\ config_first_attempt(do_load_config_file([S EXCEPT !.errnum = ERR_NONE], sw, NoCfg))
    /\ loads' = loads + 1
    /\ UNCHANGED <<image_on_spi, mount, conf_text, cln_index>>

(* One turn of the configuration loop of cmain: get_line_from_config     *)
(* reads the next command line from cln_index; an empty one ends the loop *)
(* (the last title without a command is dropped and the file closed, and  *)
(* the menu runs), any other is sorted by the builtin find_command names.  *)
ReadConfigLine ==
    /\ phase = "parse"
    /\ lines < MaxLines
    /\ LET r == get_line_from_config(conf_text, cln_index, NEW_HEAPSIZE)
       IN  /\ cln_index' = r.idx
           /\ IF r.line = <<>>
              THEN /\ phase' = "menu"
                   /\ parse' = cmain_config_end(parse)
                   /\ SetS(grub_close(S))
              ELSE /\ parse' = cmain_config_line(parse, find_command(builtins, r.line), r.line)
                   /\ UNCHANGED <<phase, asset_vars>>
    /\ lines' = lines + 1
    /\ UNCHANGED <<sw, image_on_spi, mount, cfg, loads, builtins, conf_text>>

(* grub_cln_detect_secure_sku fixes grub_cln_secure from the fuse before  *)
(* the loop; grub_cln_loaded_from_spi starts at 0; the device either has a *)
(* file system, a partition without one, or is not there.                  *)
ConfigInit ==
    /\ \E d \in FlashDirs : flash = FlashImage(d)
    /\ mount \in {"ok", "nofs", "nodisk"}
    /\ IF mount = "ok" THEN fs \in FileSystems ELSE fs = [p \in {} |-> 0]
    /\ cln_mfh = [w \in 1..(MfhBytes \div 4) |-> 0]
    /\ cln_mfh_loaded = FALSE
    /\ errnum = ERR_NONE
    /\ cln_flash_item_addr = 0
    /\ cln_flash_item_len = 0
    /\ spi_offs_intra_module = 0
    /\ skip_csbh = FALSE
    /\ grub_file = NoFile
    /\ filepos = 0
    /\ filemax = 0
    /\ cln_err = cln_err_init
    /\ \E secure \in BOOLEAN, debug \in DebugBuilds :
          sw = [secure |-> secure, linux_spi |-> FALSE, initrd_spi |-> FALSE,
                loaded_from_spi |-> FALSE, debug |-> debug]
    /\ image_on_spi \in BOOLEAN
    /\ cfg = NoCfg
    /\ phase = "boot"
    /\ loads = 0
    /\ builtins = BuiltinTable
    /\ conf_text \in ConfigTexts
    /\ cln_index = 0
    /\ parse = ParseInit
    /\ lines = 0

ConfigNext == LoadConfigFile \/ ReadConfigLine

ConfigSpec == ConfigInit /\ [][ConfigNext]_vars

(* The configuration loop is straight-line code of cmain that nothing     *)
(* else interrupts: once the configuration is accepted, the next line is   *)
(* read.  This is WF_vars(ReadConfigLine) with ENABLED ReadConfigLine      *)
(* written as its guard (every step of it changes lines), which spares TLC *)
(* from evaluating get_line_from_config for ENABLED.                       *)
ReadConfigLineEnabled == phase = "parse" /\ lines < MaxLines
FairConfigSpec ==
    ConfigSpec /\ ([]<>~ReadConfigLineEnabled \/ []<><<ReadConfigLine>>_vars)

-----------------------------------------------------------------------------
ConfigTypeOK ==
    /\ phase \in {"boot", "parse", "menu", "recovery"}
    /\ cln_index \in 0..Len(conf_text) /\ lines \in 0..MaxLines
    /\ loads \in 0..MaxLoads
    /\ cfg.fbuf \in Nat /\ cfg.written \in Nat /\ cfg.verified \in BOOLEAN
    /\ cfg.fsize \in -(U32 \div 2)..(U32 \div 2 - 1)          \* int *cfg_file_size
    /\ errnum \in {ERR_NONE, ERR_FILE_NOT_FOUND, ERR_EXEC_FORMAT, ERR_FILELENGTH, ERR_READ,
                   ERR_SGN_FILE_NOT_FOUND, ERR_CLN_VERIFICATION}

(* When cmain accepts the configuration, the bytes its parser reads       *)
(* (cfg_file_size bytes at *cfg_file_buffer) begin where the copy of the   *)
(* configuration payload landed, that copy began at the payload's first   *)
(* byte (past the header region of a signed flash item, also in non-secure *)
(* mode), and in secure mode the ROM accepted exactly this buffer: header  *)
(* and body from the same asset.  This spans both attempts of              *)
(* grub_cln_load_config_file, the skip logic of spi_open and the pointer   *)
(* arithmetic of do_load_config_file.                                      *)
ParsedConfigIsPayload ==
    phase \in {"parse", "menu"} =>
        /\ cfg.fbuf = cfg.body.at
        /\ cfg.body.from = PayloadStart(cfg.body.src)
        /\ sw.secure => cfg.verified /\ grub_cln_verify_asset_signature(cfg)

(* In secure mode the parser reads only bytes the ROM verified: no more    *)
(* than the module_size the signed header covers ("Validate configuration *)
(* file", do_load_config_file).                                            *)
ParsedWithinVerified ==
    phase \in {"parse", "menu"} /\ sw.secure => cfg.fsize <= cfg.hdr.msize

(* "Signed/unsigned configuration must fit into the buffer": no copy into *)
(* cfg_buffer (the CSBH at its start, the configuration header_len bytes  *)
(* further) ends past its 8 kB.                                            *)
CfgBufferNotOverrun == cfg.written <= CfgBufferSize

(* "In case we can't load it from (hd0,0) load from SPI/Flash if          *)
(* possible": when the device holds no configuration at all and GRUB was  *)
(* loaded from flash that holds one that loads, the boot does not end in  *)
(* the recovery shell.                                                     *)
FlashConfigLoads ==
    LET fresh == [S EXCEPT !.errnum = ERR_NONE, !.loaded = FALSE]
    IN  do_load_config_file(fresh, [sw EXCEPT !.loaded_from_spi = TRUE], NoCfg).st.errnum
          = ERR_NONE
NoDeviceConfig ==
    ConfigPath \notin DOMAIN fs /\ [ConfigPath EXCEPT !.csbh = TRUE] \notin DOMAIN fs
FallsBackToFlash ==
    phase = "recovery" /\ image_on_spi /\ NoDeviceConfig => ~FlashConfigLoads

\* The built-in commands that load or boot an image.
BootCmds == {"boot", "chainloader", "configfile", "initrd", "kernel"}

(* In secure mode the recovery shell cmain enters when the configuration  *)
(* does not load runs no command that loads or boots an image, and offers *)
(* exactly one Clanton recovery command: firmware recovery when the        *)
(* configuration that failed came from flash (grub_cln_loaded_from_spi as  *)
(* the fallback of grub_cln_load_config_file left it), the SDIO program    *)
(* otherwise.                                                              *)
RecoveryShellLocked ==
    phase = "recovery" /\ sw.secure =>
        /\ Available(builtins) \cap BootCmds = {}
        /\ Available(builtins) \cap ClnRecoveryCmds =
              {IF sw.loaded_from_spi THEN builtin_cln_spi_program.name
               ELSE builtin_cln_sdio_program.name}

(* The menu cmain builds from the configuration is the one the text       *)
(* describes (RefMenu): every titled entry with its known commands, the   *)
(* BUILTIN_MENU commands before the first title, and nothing from a       *)
(* comment, a blank line or a title without commands.  This holds on      *)
(* every pass of the loop, the second (after the menu returns) reading    *)
(* the buffer from where the static cln_index of get_line_from_config was *)
(* left by the first.                                                     *)
MenuMatchesConfig ==
    phase = "menu" =>
        [entries |-> parse.entries, globals |-> parse.globals] = RefMenu(builtins, conf_text)

(* The configuration loop of cmain ends: get_line_from_config returns an   *)
(* empty line after finitely many calls, for every text whose last line is *)
(* ended by a newline (a text ending inside a command line makes it start  *)
(* over from cln_index 0, see OpenLastLine).                              *)
ParseEnds ==
    (phase = "parse" /\ ~OpenLastLine(conf_text)) ~> phase = "menu"
====
