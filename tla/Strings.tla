------------------------------- MODULE Strings -------------------------------
(***************************************************************************)
(* The string functions of kernel/src/string.h that write, on buffers.     *)
(*                                                                         *)
(* A buffer is a sequence of characters; its element i + 1 is byte i.  A   *)
(* function that writes behind the end of a buffer makes it longer, so     *)
(* that the caller can be asked whether it fits.  A string is a sequence   *)
(* without "nul".                                                          *)
(*                                                                         *)
(* The operators on sequences are those of SequencesExt, stated here so    *)
(* that the proofs about Vfs do not carry all of that module along, and so *)
(* that a fold goes once over the indices and not over their subsets.      *)
(***************************************************************************)
EXTENDS Integers, Sequences, Functions

NUL == "nul"

Last(s) == s[Len(s)]

Front(s) == SubSeq(s, 1, Len(s) - 1)

IsPrefix(s, t) == Len(s) <= Len(t) /\ SubSeq(t, 1, Len(s)) = s

RemoveAt(s, i) == SubSeq(s, 1, i - 1) \o SubSeq(s, i + 1, Len(s))

FoldLeft(op(_, _), base, s) ==
  LET f[i \in 0 .. Len(s)] == IF i = 0 THEN base ELSE op(f[i - 1], s[i])
  IN  f[Len(s)]

\* strchr: the place of c in s, 0 if it is not there.
strchr(s, c) ==
  LET at == {i \in DOMAIN s : s[i] = c}
  IN  IF at = {} THEN 0 ELSE CHOOSE i \in at : \A j \in at : i <= j

\* A buffer that nobody has written to.
Uninitialized(size) == [i \in 1 .. size |-> "junk"]

\* What strlen, strcmp and strncmp see of a buffer: up to the first NUL.
Str(buf) == SubSeq(buf, 1, strchr(buf, NUL) - 1)

\* The bytes of s are stored from byte "at" on.
Stored(buf, at, s) ==
  [i \in 1 .. (IF at + Len(s) > Len(buf) THEN at + Len(s) ELSE Len(buf)) |->
     IF i \in at + 1 .. at + Len(s) THEN s[i - at]
     ELSE IF i \in DOMAIN buf THEN buf[i] ELSE "junk"]

strcpy(buf, s) == Stored(buf, 0, Append(s, NUL))

strcat(buf, s) == Stored(buf, Len(Str(buf)), Append(s, NUL))

\* To byte "at" of the buffer.  The NUL of a short string is not counted, so that
\* one byte more than n is written.
strncpy(buf, at, s, n) ==
  Stored(buf, at, IF Len(s) >= n THEN SubSeq(s, 1, n)
                  ELSE s \o [i \in 1 .. 1 + (n - Len(s)) |-> NUL])

\* The last byte of the buffer becomes NUL.
Terminated(buf, size) == Stored(buf, size - 1, <<NUL>>)

=============================================================================
