# TLA+ models of the Clanton secure-boot path of GRUB-legacy EFI

This directory holds TLA+ models of the Clanton (Intel Quark) secure-boot core
in `src/grub_legacy_efi/efi/clanton/`, and of the parts of stage 2 and the IA32
Linux loader that call it. The models are checked with TLC.

## The system

These parts, lowest first, make up the secure-boot path:

1. **Flash directory reader** (`mfh.c`). This is the Master Flash Header (MFH), a
   512-byte table in memory-mapped SPI flash. `grub_cln_mfh_entry_lookup`
   caches the table in `cln_mfh` on first use. It checks the `_MFH`
   identifier, then returns the address and length of the first item of the
   requested type.
2. **Asset layer** (`asset.c`). This gives one open/read/seek/size/close
   interface for the kernel, the initrd and the configuration. Each is read
   either from a file on the boot device or, when GRUB was loaded from flash
   (`grub_cln_*_spi`), from its flash item.
   - In secure mode only the signed item types are looked up.
   - A signed item is sanity-checked, and its first 0x400 bytes
     (`SPI_CSBH_OFFS_HARDCODED`) are skipped: that region holds the Clanton
     secure boot header (CSBH, `sbh.h`).
   - `grub_cln_fetch_sbh` reads the CSBH of an asset: the item itself on
     flash, or `<file>.csbh` on the device.
3. **Signature verifier** (`iarom.c`). It hands a buffer that starts with a
   CSBH to the boot ROM's verification callback.
4. **Configuration loading** (`boot_settings.c`, called from the `cmain` loop
   of `stage2/stage2.c`). The CSBH and then `grub.conf` are placed in the
   8 kB `cfg_buffer`, and the buffer is verified.
   - The first attempt is on `(hd0,0)`.
   - If that fails, the second attempt is on the medium GRUB came from.
   - An error left in `errnum` sends `cmain` to the recovery shell, which
     never returns.
5. **Linux loader** (`ia32/loader/linux.c`). It loads the kernel to a fixed
   address and protects it with IMR7. It places the initrd at the top of
   memory. In secure mode each image sits behind its CSBH, and the pair is
   verified.
6. **IMR manager** (`imr.c`). It programs the isolated memory regions of the
   SoC through the side-band bus (`intel_cln_sb.c`).
7. **Fault injection** (`test_module.c`). In a test build, directives on the
   kernel command line make the open of an asset fail, or make the n-th
   signature check fail.

## Modules

| Module | Models | State | Actions |
|---|---|---|---|
| `Mfh` | `mfh.c`, `mfh.h` | `flash` as the 32-bit words of the MFH region; `cln_mfh`, `cln_mfh_loaded`, `errnum`, and the out-parameters | `Lookup(t)`: the whole of `grub_cln_mfh_entry_lookup` (load, identifier check, scan). The scan is the RECURSIVE operator `ScanItems`, which uses the byte offsets the code computes. |
| `Asset` | `asset.c`, `asset.h`, `sbh.h` | the statics of `asset.c` and the open file (`grub_file`, `filepos`, `filemax`) | no actions: each function is an operator from a state record and the boot switches to a new record and a return value. Callers compose these operators the way the C calls them. `Mfh` is instanced for the lookups. |
| `AssetClient` | a client of the asset layer | the switches and the open handle | `Open`, `FetchSbh`, `Read`, `Seek`, `Close`, on any asset, in any order the API allows |
| `AssetStream` | what `asset.h` promises a caller | `ahandle`, `apos` (the payload offset of the next read), `alast` (the last read's asset, payload offset and length) | `StreamOpen`, `StreamRead`, `StreamSeek`, `StreamClose`: an opened asset is a stream of its payload from offset 0, a read returns at most what was asked from the current offset and moves on by what it returned, a seek lands on the offset (or, where the medium refuses it, stays). No code is mapped to it: it is the abstract specification `AssetClient` is checked against. |
| `ConfigLoad` | `boot_settings.c`, the configuration step of `cmain` | the switches, mount result, `cfg_buffer` abstracted (see below), phase (`boot`, `parse`, `menu`, `recovery`), the text of `grub.conf` (`conf_text`), the static `cln_index` of `get_line_from_config`, the loop's locals (`parse`) and a count of lines read | `LoadConfigFile`: both attempts of `grub_cln_load_config_file`, followed by `cmain`'s `errnum` test. `ReadConfigLine`: one turn of cmain's `while (get_line_from_config (...))` loop; the empty line ends it, drops a last title without commands and closes the file. |
| `ConfigParse` | `get_line_from_config` and the body of the configuration loop in `stage2.c` | no variables: operators | `get_line_char` is one turn of the character loop (CR skipped, tab as space, backslash-newline, comments, leading blanks, `maxlen`); the RECURSIVE `get_line_loop` runs it from `cln_index` and resets the index to 0 at the end of the buffer. `cmain_config_line` sorts one line: unknown commands skipped, `title`, `BUILTIN_MENU` commands before the first title, entry commands. Text is a sequence of tokens: a word token stands for a run of letters, the others are the characters the parser treats specially. `skip_to` and `find_command` (in `cmdline.c`, not under `src/`) are modelled from their documented behaviour. `RefMenu` is a reference: the menu the GRUB manual's description of the file gives. |
| `GrubBase` | `stage2/shared.h` error numbers | | the error codes and the word unit `W`, shared by every module |
| `ImrRegs` | `imr.c`, `imr.h` | no variables: operators over the registers of IMR1, IMR3 and IMR7 (low field, lock, high field, read mask, write mask) | `intel_cln_imr_setup` is the chain `imr_dispatch` → `intel_cln_imr_write` → `imr_open`, `imr_program`, `imr_restrict`, `imr_lock`, in the order of the side-band writes. `CanRead`/`CanWrite` are the memory controller's check for a bus agent. |
| `Imr` | the IMR manager on its own | `imr`, `errnum`, `granted` (the last request reported protected per IMR), `setups` | `Setup(req)`: one call of `intel_cln_imr_setup` |
| `ImrSideband` | `imr.c` over `intel_cln_sb.c`: the side-band transactions of one `intel_cln_imr_setup` call | the registers `imr`, the side-band data register `mdr`, `errnum`, `granted`, `setups`, the call in progress `call` (request, bank, fields, and a snapshot `snap`/`err0` of the state at its start) and `port`, the port writes and reads still to come | `Setup(req)` checks the arguments and queues the read of the low register; `WriteData` (a write to MDR), `WriteCmd` (a write to MCR: a write command commits MDR to the register unless the bank is locked, a read command loads the register into MDR), `ReadData` (a read of MDR, after which `imr_write_rest` queues the remaining writes of `intel_cln_imr_write` from the value read), `SetupReturn`. Each port access is one step. |
| `RecoveryShell` | `recovery.c` | no variables: operators over `builtin_table[]`, whose entries are a name, a routine (`NULL` when dropped) and flags | `restrict_builtin_commands`, `add_cln_recovery_command`, `grub_cln_recovery_shell`; `ConfigLoad` applies the last to its `builtins` variable when a load fails |
| `TestModule` | `test_module.c`, `test_module.h` | no variables: the flags and signature counter of `__cln_err` (the variable `cln_err`, declared in `Asset`) | `cln_test_setup` parses the kernel command line: text is a sequence of words, with `-`, `,` and space as words of their own, so `grub_strstr` is a search for a contiguous run of words and finds `no-kernel` inside `no-kernel-signature` as the C code does. `cln_test_signature` is the `switch (state_sign_verify++)`. `Asset` adds the open hook (`cln_test_asset`) and wraps the verifier (`cln_verify`). `KernelLoad` calls `cln_test_setup` at the start of every `kernel` command. A constant `INTEL_CLN_TEST` stands for the build switch. |
| `KernelLoad` | `ia32/loader/linux.c`: `grub_load_linux`, `grub_load_initrd`, `allocate_pages`, `free_pages` | the boot switches `sw` (with what the PCI scan finds of UART1), the IMRs, the asset layer's variables, and `ld`: the statics of `linux.c`, the pages held from the EFI allocator, the boot parameters the initrd step reads and writes, the copies of the last command, and the kernel and initrd buffers as the verifier sees them | `LoadLinux(cmd)`, `LoadInitrd(cmd)`: a whole command, written as a chain of step operators (`linux_fetched` → `linux_open` → `linux_header` → `linux_sizes` → `allocate_pages` → `linux_imr_boot` → `linux_imr_bzimage` → `linux_params` (with `grub_cln_dump_layout` and `cln_detect_early_uart`) → `linux_copy` → `linux_read` → `linux_verify` → `linux_fail`/`linux_fail1`, and the same for the initrd), each step taking the state left by the one before it. `DmaWrite(buf)`: a bus agent other than the host core writes the kernel or initrd image where the IMRs let it. |
| `MCMfh`, `MCAsset`, `MCConfigLoad`, `MCImr`, `MCImrSideband`, `MCKernelLoad` | model values and small flash and file-system contents, register states, memory maps and commands | | |

**Data abstraction.**
- Sizes and addresses are in 4-byte words. Every size in the code is a
  multiple of 4, and flash addresses stay below 2^30 words.
- A CSBH is abstracted to four fields:
  - its magic;
  - `header_len`;
  - `module_size`;
  - whether it is the genuine OEM header of the asset that it is stored with.
- `cfg_buffer` is abstracted to what was copied into it:
  - the header at offset 0;
  - the source, start, length and buffer offset of the configuration copy;
  - the highest offset written.
- The boot ROM's check is an oracle. It accepts a buffer iff all of these hold:
  - the header is genuine;
  - the bytes `header_len` further on are that asset's signed bytes, from
    their first byte;
  - those bytes are at least `module_size` long.

- The IMR registers keep their bit fields. An address is in words, and a
  register field is `(addr >> 8) & IMR_REG_MASK` computed on words. A mask is
  the set of agent bits: bit 0 (non-SMM core), bit 29 (PUnit), bit 30 (core
  snoops), and bit 31, which stands for every other bus agent ("DMA").
- Loader memory is abstracted to pages. `ld.held` is the set of pages the
  loader got from the EFI allocator and has not given back. A copy is a word
  interval `[lo, hi)` with a flag saying whether all its pages were held when
  it was written. The length is taken as a 32-bit unsigned count, as `memcpy`
  takes it.
- The EFI boot services (`grub_efi_allocate_pages`, `grub_efi_free_pages`,
  `grub_efi_get_memory_map`) are not under `src/`. They are modelled from
  their documented behaviour and marked `spec_modelled`:
  - an allocation at a fixed address succeeds iff its pages are
    conventional and free;
  - the memory map lists the maximal runs of free conventional pages in
    ascending order.

The code under `src/` does not contain the file-system functions (`grub_open`,
`grub_read`, `grub_seek`, `grub_close`). They are modelled from their
documented behaviour and marked `spec_modelled` in `PROJECT.json`.

## Runs

| Run | Expect | Shows |
|---|---|---|
| `mfh_lookup` | pass | The scan returns the first item of a type, and reports "not found" and "format error" exactly when it should. Tried on directories with 0–2 boot-priority entries, several items of one type, and a bad identifier. |
| `asset_reads` | pass | The client's opens, reads, seeks, closes and `_CSBH` fetches are steps of `AssetStream` (`AssetStreamRefined`). Reads of an open asset follow one another from payload offset 0, and a seek lands on the payload offset asked for. The header region of a signed flash item is never returned, across the secure path and the non-secure fallback to a signed item. Every flash read comes from an item whose extent ends below 4 GB (`ReadWithinItem`): the wrap test at open is the only bound the read path has. Reads are not checked to stay inside the item, because they do not: the size test allows for the 0x24C-byte SBH while the cursor skips 1 kB (the finding of `kernel_copy_overrun`). |
| `config_load` | pass | When the menu opens, the buffer the parser reads holds the configuration's payload at the offset the parser uses. In secure mode the buffer is also the one the ROM accepted. When a load fails in secure mode, the recovery shell offers no command that loads or boots, and offers exactly the recovery command of the medium the configuration came from (`RecoveryShellLocked`), in debug and release builds. The accepted buffer is then read line by line: on every pass of the `cmain` loop the menu built equals `RefMenu` of the text (`MenuMatchesConfig`). Under the fairness below the reading ends for every text whose last line is terminated (`ParseEnds`). |
| `config_unverified_tail` | violation | The parser reads the file length, not the `module_size` the header signs. |
| `config_buffer_overrun` | violation | The size check ignores `header_len`, so an 8 kB signed configuration is written past `cfg_buffer`. |
| `config_no_fallback` | violation | In secure mode a missing `.csbh` on the device prevents the flash fallback the comments promise. |
| `imr_setup` | pass | `intel_cln_imr_setup` runs as its individual side-band port accesses. Every region reported as protected stays inside its IMR's window and closed to the PUnit, except the one whose IMR is being reprogrammed at that moment (`GrantedOutsideUpdate`): while `imr.c:117` has opened an IMR in use to all agents, its earlier grant is not protected. Taken as one step at its return, each call is a step of `Imr` (`ImrRefinement`): the port-level code implements the register-level model. This holds across reprogramming, regions the firmware left in use, locked IMR3, and the `IMR_RANGE_KERN_TEXT` id that has no case. |
| `imr_locked_region` | violation | On an IMR the firmware locked, setup returns `ERR_NONE` and changes nothing. |
| `kernel_load` | pass | Kernel and initrd commands run in any order, from file or flash, in secure and non-secure mode, over three firmware IMR states, with a DMA agent writing wherever it may. Three things hold: every copy lands in held pages; a loaded kernel is the verified image and no agent wrote to it; in secure mode the ramdisk in the boot parameters is exactly the verified initrd. The run uses a test build (`INTEL_CLN_TEST = TRUE`) and adds three kernel commands with fault-injection directives. Two harness properties hold. First, every signature check the harness fails belongs to the asset the directive names (`InjectedFailureNamesAsset`), although the harness tells checks apart only by their number. Second, once a command has asked for `no-kernel`, no kernel stays loaded (`NoKernelDirectiveHonoured`). A fourth directive-free command asks for the early UART (`$EARLY_CON_ADDR_REPLACE`), on a board where the PCI scan finds UART1 behind a 32-bit memory BAR, behind a BAR `cln_uart_early_setup` refuses, or not at all. The three outcomes of the scan are reached; no property is checked of them (see the hazard at `early_uart.c:134`). |
| `kernel_copy_overrun` | violation | A 0x300-byte flash kernel behind a forged CSBH that claims a 0x800-byte header is copied as a `memcpy` of about 4 GB to `GRUB_LINUX_BZIMAGE_ADDR`, before verification. |
| `initrd_unprotected` | violation | No IMR covers the initrd, so a DMA agent can rewrite it after it was verified and handed to the kernel. |
| `kernel_reload` | violation | A second `kernel` command fails with `ERR_WONT_FIT`. `allocate_pages` drops its pointers without freeing them and asks for the fixed bzImage pages again. |

The `mutants` in `PROJECT.json` replace a mapped definition with a plausible
bug and show that each property of a passing run catches it.

**Bounds.**
- `MCAsset` and the `MCConfig*` configurations are production builds
  (`INTEL_CLN_TEST = FALSE`). The hooks there are never reached, because only
  a `kernel` command sets directives.
- Directories have up to three items and up to two boot-priority entries.
  This is enough to place an item of the right type behind one of the wrong
  type, and to misplace the table if the priority list is ignored.
- Two read lengths and two seek offsets, one of them inside the header region.
- At most two reads per open, and two passes of the `cmain` loop. The second
  pass reads `grub_cln_loaded_from_spi` as set by the first.
- The flash contents include the cases that each check tells apart:
  - short items;
  - a wrapping item;
  - unsigned items;
  - headers without magic;
  - forged headers.

- IMRs: three firmware states: all free; IMR1 in use over a region of the
  firmware's own; IMR3 or IMR7 locked. Requests are those the loader makes:
  two real-mode placements, the bzImage with a signed or unsigned size, one
  below `IMR_MIN_SIZE`, and the id with no case.
- Loader:
  - at most 4 commands in the passing run (3 in the violation runs), drawn
    from two kernel commands (with a path and no
    `mem=`; with no path and `mem=1M`) and two initrd commands;
  - a 12 kB kernel with 4 setup sectors and an 8 kB initrd, each signed
    behind a 1 kB header, on flash and on the device;
  - 20 pages of memory below 640 kB and 48 pages from 1 MB up, enough for
    one kernel and initrd (so a second kernel fails only through the leak).

  - three more `kernel` commands carry the directives
    `ramdisk-sig-verification`, `kernel-sig-verification`, and
    `no-kernel-signature,kernel-sig-verification`. The last sets `no_kernel`
    through the substring match. Commands without a directive behave as in a
    production build: the hooks only act on flags that a directive set.
  - The signature counter starts at 1 in secure mode: `cmain` verified the
    configuration once before any command ran. A second `cmain` pass (a
    `configfile` command) would verify it again and shift the count. That
    case is not reached.

  This reaches:
  - every error exit of both commands but the memory-map failure (which
    the model's allocator cannot produce);
  - the `mem=` limit that leaves no place for the initrd;
  - a DMA write to the unprotected initrd;
  - the three outcomes of the early-UART scan, for a command line that
    carries the token.

  The 39339 states of the passing run are checked in a few seconds. The
  violation runs of `KernelLoad` fix the scan to a memory BAR.

**Refinement.** `AssetClient` instantiates `AssetStream` with the mapping
`apos <- StreamPos`, `alast <- StreamLast`. `StreamPos` is the payload
offset of the open handle: on flash, `spi_offs_intra_module` less the 1 kB
that `spi_open` skipped when `grub_cln_secure || skip_csbh`; on a file,
`filepos`. `StreamLast` shifts the last read's start by the header
region in force when the read ran. `_CSBH` fetches (open, read, close of
the header) are stuttering steps: they must leave the stream alone. A
read that does not move the flash cursor on, or a seek that subtracts the
header region instead of adding it, breaks the refinement (the mutants).

`ImrSideband` instantiates `Imr` with the refinement
mapping `imr <- IF Busy THEN call.snap ELSE imr` (and the same for `errnum`
and `setups`): while a call is in progress the abstract state is the one
before the call, and the call's return is the abstract `Setup` step. The
abstract `ImrSpec` is checked as a `PROPERTY`.

**Fairness.** `ImrSideband` assumes weak fairness of the side-band steps
(`WF_sb_vars(SbStep)`): a started call is straight-line code with no loop or
wait, so once it has begun the CPU keeps executing it. No fairness is
assumed on new calls. Every property checked so far is a safety property
(`ImrSpec` has no fairness of its own), so the fairness does not yet
change any result.

`ConfigLoad` assumes weak fairness of `ReadConfigLine` (written out as
`[]<>~ReadConfigLineEnabled \/ []<><<ReadConfigLine>>_vars`, the
definition of `WF` with `ENABLED` replaced by the action's guard, which is
exact because every step of it changes `lines`). The loop is CPU code with
no wait, and nothing else runs while `cmain` is in it. No fairness is
assumed on `LoadConfigFile`: the next pass needs the user to leave the menu.

`ParseEnds` is the one liveness property, because the configuration loop
is the one loop here whose end depends on the data: its exit is an empty
line, not a bound. Every other operation is straight-line, or a loop over
a bounded table: the side-band sequence, the loader commands, the MFH scan
and the recovery-shell table walks. For those, "every call eventually
returns" holds by the model's shape and would show nothing. The one
unbounded wait in these sources is the poll of `spi_dma_read`
(`test_module.c:90`). Whether it ends depends on how the PUnit reports a
transfer that an IMR blocked, and the sources do not say.

**Configuration texts.** Four texts of `grub.conf`:
- a global `default`, a comment line, a title indented by a tab and ended
  by CR-LF, a command continued by backslash-newline, a title with an
  unknown command and a known one;
- a command before any title (ignored), a `default=x`, a title with no
  command followed by a blank line and a title, a leading blank, a last
  title with no command;
- an empty file;
- `title\nboot`, whose last line has no newline.

The first three cover every branch of `get_line_char` but the `maxlen`
truncation: a token is a run of letters, so no line reaches `maxlen`. At
most 10 calls of `get_line_from_config` per pass (`MaxLines`), more than the
7 the longest text needs. With two `cmain` passes the second pass reads
from the `cln_index` the first one left. The passing run reaches 8432 states.

**Finding: `cmain` loops on an unterminated last line.** At the end of the
buffer `get_line_from_config` (`stage2.c:949`) sets `cln_index = 0` and
still returns the line in progress. The `while` loop takes that line and
calls again, now from offset 0. So a `grub.conf` whose last line has no
newline, or ends in a backslash-newline, is read again and again, and the
menu never appears. A `grub.conf` written by an editor that omits the final
newline hangs the boot. `ParseEnds` is checked with the precondition
`~OpenLastLine(conf_text)`. Without it TLC reports a counterexample on
`title\nboot`: the lines read go title, boot, title, boot ... and the
phase is still `parse` when `MaxLines` stops the loop. The run limit of this project leaves no room for a separate
violation run, so the hazard list records it.

**Finding: no UART1 means no boot.** When the PCI scan finds no UART1,
`cln_early_uart_init` sets `errnum = ERR_DEV_VALUES` (`early_uart.c:134`).
`cln_detect_early_uart` prints "couldn't find device. Skipping.."
(`linux.c:440`) and leaves the token in place. The stale `errnum` then
reaches the test at `linux.c:967`, after the kernel has been copied and
verified, and `grub_load_linux` drops it. `kernel_load` reaches this case,
but no run checks a property of it: it would need its own violation run.

**Recovery shell bounds.** A `builtin_table[]` of six commands: three that
load or boot (`boot`, `initrd`, `kernel`) and three on the debug list
(`cat`, `halt`, `reboot`). Debug and release builds, secure and non-secure,
and the failing configuration on flash and on the device are all reached.

## Not modelled, and why

- **Performance metrics.** `grub_cln_event_append` runs once, just before
  the jump to the kernel, and appends a timestamp string to the command
  line; no property tells its contents apart.
- **The early console itself.** `KernelLoad` models the scan and the
  token's expansion, not the serial output. The scan's call in
  `grub_load_multiboot` is outside the modelled commands.
- **The side-band PCI probe** (`intel_cln_sb_probe`) and the byte and word
  config accessors. The IMR code uses only the dword path, which is modelled.
- **`enter_cmdline`.** The recovery shell's command line is abstracted to
  the set of commands it would run (a routine and `BUILTIN_CMDLINE`).
- **The menu and command line of stage 2.** The model stops when the menu
  is built (`phase = "menu"`). The preset menu, the fallback/default
  entry fix-up, `run_menu` and `enter_cmdline` are terminal I/O. Commands
  run before the first title (`default`) are recorded, not executed.
- **The boot ROM's cryptography.** The verifier is an oracle, as above.
- **The output of `grub_cln_dump_layout`.** Its lookup is part of
  `linux_params` (the MFH cache it may load, the `errnum` it clears); the
  printing of `layout.conf` is left out.
- **Booting** (`big_linux_boot`, `multi_boot`). These are mode switches in
  assembly. The models stop at the state a `boot` command would hand over.
- **`grub_load_multiboot`.** Nothing under `src/` calls it (its command
  table is not among the sources) and the spec says nothing of multiboot.
  As read, it opens the image with `grub_open`, not through the asset
  layer, so nothing is verified in secure mode; its IMR setup is under
  `#if 0`; it clears `prot_size` bytes in `prot_size >> 12` pages; and a
  short segment read ends the load with success. Each property it would be
  checked by is violated, and the violation runs are spent on the Linux
  path, so these are hazards with notes (linux.c:462, 520, 621).
- **The other boot-parameter fields.** `linux_params` keeps only the fields
  the initrd step reads or writes: `initrd_addr_max`, `ramdisk_image` and
  `ramdisk_size`. The rest are constants or EFI tables.
- **`__cln_test_imr` and `spi_dma_read`.** Its effect is one of two
  things. Either a PUnit DMA writes to the bzImage pages, which the kernel
  copy overwrites later, or the platform responds to an IMR violation,
  which the sources do not state. Its polling loop has no timeout (a hazard
  with a note).
- **Several `cmain` passes before a `kernel` command.** See the bounds.
- **A failing `grub_efi_get_memory_map`.** The modelled firmware always
  returns a map.

## Plan

Done so far: `Mfh`, `Asset`, `AssetClient` (refining `AssetStream`), `ConfigLoad`, `ConfigParse`, `Imr`,
`ImrSideband`, `RecoveryShell`, `TestModule`, `KernelLoad`.
Left:

1. **Fault injection across `cmain` passes.** Compose `ConfigLoad` and
   `KernelLoad`, so that a `configfile` command re-verifies the
   configuration and shifts the signature counter.
2. **Compose `ImrSideband` with `KernelLoad`.** Let `DmaWrite` interleave
   with the side-band steps of the loader's own IMR calls.
3. **A forged `header_len` on the initrd.** Add one to the loader's constants,
   so that a run reaches the CSBH copy below `initrd_mem` (`linux.c:1124`).
