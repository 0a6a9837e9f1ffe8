----------------------------- MODULE TestModule -----------------------------
(***************************************************************************)
(* The fault-injection harness of efi/clanton/test_module.c and           *)
(* test_module.h, as operators over its state __cln_err (here cln_err).    *)
(*                                                                         *)
(* __cln_test_setup reads the kernel command line.  Text is a sequence of *)
(* words in which "-", "," and " " are words of their own, so that         *)
(* grub_strstr, the search for the first occurrence of one text in        *)
(* another, is the search for a contiguous run of words: "no-kernel" is   *)
(* found inside "no-kernel-signature" as it is in the C string.  The       *)
(* directive flags are set, never cleared; the signature counter grows by *)
(* one on every signature check of a test build.  The hooks the asset     *)
(* layer and the verifier call are in module Asset.                        *)
(***************************************************************************)
EXTENDS SequencesExt, Integers

\* The key of the directive and the modes, as texts.
TEST_PARAM_ID              == <<"__cln_drive_failure=">>
TEST_PARAM_NO_KERNEL       == <<"no", "-", "kernel">>
TEST_PARAM_NO_RAMDISK      == <<"no", "-", "ramdisk">>
TEST_PARAM_NO_KERNEL_SIG   == <<"no", "-", "kernel", "-", "signature">>
TEST_PARAM_NO_RAMDISK_SIG  == <<"no", "-", "ramdisk", "-", "signature">>
TEST_PARAM_BAD_KERNEL_SIG  == <<"kernel", "-", "sig", "-", "verification">>
TEST_PARAM_BAD_RAMDISK_SIG == <<"ramdisk", "-", "sig", "-", "verification">>
TEST_PARAM_BAD_IMR         == <<"bad", "-", "imr">>

\* The flag of __cln_err each mode sets.
TestParam ==
    [no_kernel        |-> TEST_PARAM_NO_KERNEL,
     no_ramdisk       |-> TEST_PARAM_NO_RAMDISK,
     no_kernel_sig    |-> TEST_PARAM_NO_KERNEL_SIG,
     no_ramdisk_sig   |-> TEST_PARAM_NO_RAMDISK_SIG,
     kernel_sig_fail  |-> TEST_PARAM_BAD_KERNEL_SIG,
     ramdisk_sig_fail |-> TEST_PARAM_BAD_RAMDISK_SIG,
     bad_imr          |-> TEST_PARAM_BAD_IMR]

\* The initializer of __cln_err: no directive, no signature checked.
cln_err_init == [f \in DOMAIN TestParam \cup {"state_sign_verify"} |->
                    IF f = "state_sign_verify" THEN 0 ELSE FALSE]

\* grub_strstr: the position of the first occurrence of p in s, 0 if none.
grub_strstr(s, p) ==
    LET at == {i \in 1..(Len(s) - Len(p) + 1) : SubSeq(s, i, i + Len(p) - 1) = p}
    IN  IF at = {} THEN 0 ELSE Min(at)

(* __cln_test_setup: after the first occurrence of the key, every mode     *)
(* whose text occurs anywhere in the rest of the line sets its flag.       *)
cln_test_setup(err, arg) ==
    LET at         == grub_strstr(arg, TEST_PARAM_ID)
        test_param == SubSeq(arg, at + Len(TEST_PARAM_ID), Len(arg))
    IN  IF at = 0 THEN err
        ELSE [f \in DOMAIN err |->
                IF f \in DOMAIN TestParam /\ grub_strstr(test_param, TestParam[f]) # 0
                THEN TRUE ELSE err[f]]

\* Mutant: the counter is incremented before the switch reads it.
cln_test_signature_preinc(err) ==
    LET n == err.state_sign_verify + 1
    IN  [err  |-> [err EXCEPT !.state_sign_verify = n],
         fail |-> \/ n = 1 /\ err.kernel_sig_fail
                  \/ n = 2 /\ err.ramdisk_sig_fail]

(* __cln_test_signature: switch (state_sign_verify++): the check numbered  *)
(* 0 (the configuration) is never failed, 1 (the kernel) when              *)
(* kernel_sig_fail is set, 2 (the ramdisk) when ramdisk_sig_fail is set,   *)
(* and later ones never.  fail: the verifier returns 0 at once.            *)
cln_test_signature(err) ==
    LET n == err.state_sign_verify
    IN  [err  |-> [err EXCEPT !.state_sign_verify = n + 1],
         fail |-> \/ n = 1 /\ err.kernel_sig_fail
                  \/ n = 2 /\ err.ramdisk_sig_fail]
====
