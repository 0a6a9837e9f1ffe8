------------------------------- MODULE GrubBase -------------------------------
(***************************************************************************)
(* What every module of the Clanton boot path shares: the grub error       *)
(* numbers it sets in the global errnum (grub_error_t of stage2/shared.h,  *)
(* which is not part of the sources modelled), and the unit in which the   *)
(* models count sizes and addresses.                                       *)
(*                                                                         *)
(* Sizes and addresses are counted in 4-byte words, so that the 32-bit     *)
(* address space is 2^30 words and the wrap-around of 32-bit arithmetic    *)
(* stays within TLC's integers; every constant of the code is a multiple   *)
(* of 4 bytes.                                                             *)
(***************************************************************************)
EXTENDS Integers

ERR_NONE               == "ERR_NONE"
ERR_FILE_NOT_FOUND     == "ERR_FILE_NOT_FOUND"
ERR_EXEC_FORMAT        == "ERR_EXEC_FORMAT"
ERR_FILELENGTH         == "ERR_FILELENGTH"
ERR_READ               == "ERR_READ"
ERR_BAD_FILENAME       == "ERR_BAD_FILENAME"
ERR_BAD_ARGUMENT       == "ERR_BAD_ARGUMENT"
ERR_SGN_FILE_NOT_FOUND == "ERR_SGN_FILE_NOT_FOUND"
ERR_CLN_VERIFICATION   == "ERR_CLN_VERIFICATION"
ERR_WONT_FIT           == "ERR_WONT_FIT"
ERR_BOOT_FAILURE       == "ERR_BOOT_FAILURE"
ERR_UNRECOGNIZED       == "ERR_UNRECOGNIZED"
ERR_DEV_VALUES         == "ERR_DEV_VALUES"

Word == 4
W(bytes) == bytes \div Word                 \* a byte count in words
U32  == 2^30                                \* 2^32 bytes, in words
====
