----------------------------- MODULE Fat32Names -----------------------------
(***************************************************************************)
(* How the FAT32 driver takes a path apart and turns its components into   *)
(* names as directories hold them: to_8_3 and fat32_resolve of             *)
(* kernel/src/fat32.c, and fat32_name_to_string of kernel/src/fat32_ls.c,  *)
(* which shows such a name.                                                *)
(*                                                                         *)
(* A path is a sequence of characters: the slash, the dot, the blank,      *)
(* "mnt" for the three letters of /mnt, "ctl" for a character that cannot  *)
(* be printed, and letters.                                                *)
(***************************************************************************)
EXTENDS Strings

CONSTANTS NAME, EXT         \* 8 and 3

ASSUME Fat32NamesAssumption == NAME \in Nat \ {0} /\ EXT \in Nat \ {0}

Upper(c) == CASE c = "x" -> "X" [] c = "mnt" -> "MNT" [] c = " " -> "_" [] OTHER -> c

\* At most n characters, padded to n.
Padded(s, n) == [i \in 1 .. n |-> IF i <= Len(s) THEN Upper(s[i]) ELSE " "]

\* Wrong on purpose: the dot is kept.
to_8_3_keeps_dot(src) ==
  LET dot == strchr(src, ".")
  IN  IF dot > 1 THEN Padded(SubSeq(src, 1, dot - 1), NAME)
                        \o Padded(SubSeq(src, dot, Len(src)), EXT)
      ELSE Padded(src, NAME) \o Padded(<<>>, EXT)

\* The first dot separates the extension, unless the name begins with it.
to_8_3(src) ==
  LET dot == strchr(src, ".")
  IN  IF dot > 1 THEN Padded(SubSeq(src, 1, dot - 1), NAME)
                        \o Padded(SubSeq(src, dot + 1, Len(src)), EXT)
      ELSE Padded(src, NAME) \o Padded(<<>>, EXT)

\* Up to the first blank.
Trimmed(s) ==
  LET blank == strchr(s, " ") IN IF blank = 0 THEN s ELSE SubSeq(s, 1, blank - 1)

fat32_name_to_string(entry) ==
  LET ext == Trimmed(SubSeq(entry, NAME + 1, NAME + EXT))
  IN  Trimmed(SubSeq(entry, 1, NAME)) \o (IF ext = <<>> THEN <<>> ELSE <<".">> \o ext)

\* The names fat32_resolve looks up on the way and the one it returns last, if
\* the path does not end with a slash: one after the other.
Lookups(path) ==
  LET split(ws, c) == IF c = "/" THEN Append(ws, <<>>)
                      ELSE Append(Front(ws), Append(Last(ws), c))
      components == SelectSeq(FoldLeft(split, <<<<>>>>, path), LAMBDA w : w # <<>>)
  IN  [i \in DOMAIN components |-> to_8_3(components[i])]

=============================================================================
