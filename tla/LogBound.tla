------------------------------ MODULE LogBound ------------------------------
(***************************************************************************)
(* The bound on the log of a screen (src/screen_framework.c): the oldest   *)
(* messages make room for a new one, and no more of them than needed.      *)
(***************************************************************************)
EXTENDS Integers, Sequences, FiniteSets

CONSTANTS
  Msgs,      (* the messages a log can hold                                *)
  MsgBytes,  (* MsgBytes[m]: the bytes of m, its NUL included              *)
  MaxBytes   (* SCREENLOG_DEFAULT_MAX_BYTES                                *)

(* Every message is made in a buffer of SCREENMSG_BUF_SIZE bytes, which is *)
(* less than the bound.                                                    *)
ASSUME AnyMessageFits ==
  /\ MaxBytes \in Nat
  /\ MsgBytes \in [Msgs -> 1 .. MaxBytes]

(* The bytes of the messages of s. *)
Total(s) ==
  LET bytes[k \in 0 .. Len(s)] ==
        IF k = 0 THEN 0 ELSE bytes[k - 1] + MsgBytes[s[k]]
  IN  bytes[Len(s)]

(* The messages of s from the k-th on. *)
From(s, k) == SubSeq(s, k, Len(s))

(* The suffixes of s that are over the bound are the longest ones: what     *)
(* stays is the longest that is not.                                        *)
Newest(s) ==
  From(s, 1 + Cardinality({k \in 1 .. Len(s) : Total(From(s, k)) > MaxBytes}))
=============================================================================
