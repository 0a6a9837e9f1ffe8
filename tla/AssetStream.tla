---------------------------- MODULE AssetStream ----------------------------
(* What the asset layer promises its callers (asset.h): an asset opened by *)
(* type is a stream of its payload.  The stream starts at payload offset 0 *)
(* whatever the medium and whatever header precedes the payload; each read *)
(* returns the next bytes, no more than asked for, and moves the position  *)
(* on by what it returned; a seek moves it to a payload offset, or leaves  *)
(* it where it was when the medium refuses the offset.  Offsets and        *)
(* lengths are in words.  Sizes are not part of the promise: see          *)
(* ReadWithinItem and kernel_copy_overrun.                                 *)
EXTENDS Integers

CONSTANTS
    Assets,         \* the asset types a caller opens as a stream
    Lens,           \* the lengths a caller asks for
    Offsets         \* the payload offsets a caller seeks to

VARIABLES
    ahandle,        \* the asset open, or "none"
    apos,           \* the payload offset of the next read (0 when closed)
    alast           \* the last read: asset, payload offset, length returned

avars == <<ahandle, apos, alast>>

NoStreamRead == [t |-> "none", from |-> 0, len |-> 0]

StreamInit ==
    /\ ahandle = "none"
    /\ apos = 0
    /\ alast = NoStreamRead

\* An open succeeds or fails; a stream starts at the payload's first byte.
StreamOpen(t) ==
    /\ ahandle = "none"
    /\ ahandle' \in {t, "none"}
    /\ apos' = 0
    /\ UNCHANGED alast

\* A read of n returns k <= n words from the current payload offset.
StreamRead(n) ==
    /\ ahandle # "none"
    /\ \E k \in 0..n :
          /\ alast' = [t |-> ahandle, from |-> apos, len |-> k]
          /\ apos' = apos + k
    /\ UNCHANGED ahandle

StreamSeek(o) ==
    /\ ahandle # "none"
    /\ apos' \in {o, apos}
    /\ UNCHANGED <<ahandle, alast>>

StreamClose ==
    /\ ahandle # "none"
    /\ ahandle' = "none"
    /\ apos' = 0
    /\ UNCHANGED alast

StreamNext ==
    \/ \E t \in Assets : StreamOpen(t)
    \/ \E n \in Lens : StreamRead(n)
    \/ \E o \in Offsets : StreamSeek(o)
    \/ StreamClose

StreamSpec == StreamInit /\ [][StreamNext]_avars
====
