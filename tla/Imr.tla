-------------------------------- MODULE Imr --------------------------------
(***************************************************************************)
(* The IMR manager on its own (efi/clanton/imr.c, operators in ImrRegs):   *)
(* GRUB calls intel_cln_imr_setup on registers the firmware left behind.  *)
(***************************************************************************)
EXTENDS ImrRegs, FiniteSets, TLC

CONSTANTS
    InitRegs,       \* the register states the firmware may leave behind
    Requests,       \* the (id, addr, size) calls made of intel_cln_imr_setup
    MaxSetups       \* bound on the calls

VARIABLES
    imr,            \* [bank -> [lo, lock, hi, rm, wm]]: the IMR registers
    errnum,         \* the global grub error number
    granted,        \* [id -> the last request setup reported ERR_NONE for, or NoRequest]
    setups          \* calls so far

imr_vars == <<imr, errnum, granted, setups>>

NoRequest == [id |-> 0, addr |-> 0, size |-> 0]

-----------------------------------------------------------------------------
(* The manager on its own: the firmware leaves the registers in one of     *)
(* InitRegs, and GRUB calls intel_cln_imr_setup with any of Requests.      *)
ImrInit ==
    /\ imr \in InitRegs
    /\ errnum = ERR_NONE
    /\ granted = [id \in DOMAIN ImrBank |-> NoRequest]
    /\ setups = 0

Setup(req) ==
    /\ setups < MaxSetups
    /\ LET r == intel_cln_imr_setup(imr, req.id, req.addr, req.size)
       IN  /\ imr' = r.regs
           /\ errnum' = r.err
           /\ granted' = IF r.err = ERR_NONE THEN [granted EXCEPT ![req.id] = req]
                         ELSE granted
    /\ setups' = setups + 1

ImrNext == \E req \in Requests : Setup(req)

ImrSpec == ImrInit /\ [][ImrNext]_imr_vars

-----------------------------------------------------------------------------
\* A low or high register field: 22 address bits in bits [23:2].
IsRegField(f) == f \in 0..16777215 /\ f % 4 = 0
IsReg(r) ==
    /\ DOMAIN r = {"lo", "lock", "hi", "rm", "wm"}
    /\ IsRegField(r.lo) /\ IsRegField(r.hi) /\ r.lock \in BOOLEAN
    /\ r.rm \subseteq AllBits /\ r.wm \subseteq AllBits

ImrTypeOK ==
    /\ DOMAIN imr = Banks /\ \A b \in Banks : IsReg(imr[b])
    /\ errnum \in {ERR_NONE, ERR_BAD_ARGUMENT}
    /\ granted \in [DOMAIN ImrBank -> Requests \cup {NoRequest}]
    /\ setups \in 0..MaxSetups

(* Every region intel_cln_imr_setup last reported protected (ERR_NONE) for *)
(* an IMR is, from then on, wholly inside that IMR's window and closed to  *)
(* the PUnit for reads and writes: "the protected window is never smaller  *)
(* than requested", and a locked or later reprogrammed bank, or a region  *)
(* that was in use before, does not leave the range open.                  *)
ProtectedBy(r, req) ==
    /\ Covers(r, req.addr) /\ Covers(r, req.addr + req.size - 1)
    /\ PUNIT \notin r.rm /\ PUNIT \notin r.wm
GrantedRegionsProtected ==
    \A id \in DOMAIN ImrBank :
        granted[id] # NoRequest => ProtectedBy(imr[ImrBank[id]], granted[id])
====
