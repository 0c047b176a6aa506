------------------------------ MODULE PmmScan --------------------------------
(***************************************************************************)
(* The loops of find_free_run in kernel/src/pmm.c, one step per iteration. *)
(*                                                                         *)
(* The bitmap is read in words of WordBits bits (64 in the kernel).  Its   *)
(* last word can hold bits that belong to no page; what they are depends   *)
(* on the bytes that follow the bitmap, so they are arbitrary.             *)
(***************************************************************************)
EXTENDS PageRuns

CONSTANTS WordBits,     \* bits of a bitmap word
          Requests,     \* values of the argument `pages`
          NOT_FOUND     \* UINT64_MAX

ASSUME ScanAssumption ==
  /\ WordBits \in Nat \ {0}
  /\ Requests \subseteq Nat
  /\ NOT_FOUND \notin Pages

total_words == (TotalPages + WordBits - 1) \div WordBits

VARIABLES bitmap,       \* the 1 bits
          pages,
          w, bit_index, \* the word, and the number of its first bit
          b,            \* the bit within the word
          run,          \* free bits seen from the candidate on
          pc, result

vars == <<bitmap, pages, w, bit_index, b, run, pc, result>>

Bits == 0 .. total_words * WordBits - 1

UsedBits == bitmap \cap Pages

idx == bit_index + b

word_full == \A i \in 0 .. WordBits - 1 : bit_index + i \in bitmap

Init ==
  /\ bitmap \in SUBSET Bits
  /\ pages \in Requests
  /\ w = 0 /\ bit_index = 0 /\ b = 0 /\ run = 0
  /\ pc = "word"
  /\ result = NOT_FOUND

Return(r) ==
  /\ result' = r
  /\ pc' = "done"
  /\ UNCHANGED <<bitmap, pages, w, bit_index, b, run>>

\* No page asked for, or no word left.
GiveUp ==
  /\ pc = "word"
  /\ pages = 0 \/ w = total_words
  /\ Return(NOT_FOUND)

NextWord ==
  /\ w' = w + 1
  /\ bit_index' = bit_index + WordBits
  /\ UNCHANGED <<bitmap, pages, b, run, result>>

SkipFullWord ==
  /\ pc = "word" /\ pages # 0 /\ w < total_words
  /\ word_full
  /\ NextWord
  /\ UNCHANGED pc

EnterWord ==
  /\ pc = "word" /\ pages # 0 /\ w < total_words
  /\ ~ word_full
  /\ b' = 0
  /\ pc' = "bit"
  /\ UNCHANGED <<bitmap, pages, w, bit_index, run, result>>

LeaveWord ==
  /\ pc = "bit" /\ b >= WordBits
  /\ NextWord
  /\ pc' = "word"

PastTheEnd ==
  /\ pc = "bit" /\ b < WordBits /\ idx >= TotalPages
  /\ Return(NOT_FOUND)

\* Wrong on purpose: stays on the bit.
UsedBitStays ==
  /\ pc = "bit" /\ b < WordBits /\ idx < TotalPages
  /\ idx \in bitmap
  /\ UNCHANGED vars

UsedBit ==
  /\ pc = "bit" /\ b < WordBits /\ idx < TotalPages
  /\ idx \in bitmap
  /\ b' = b + 1
  /\ UNCHANGED <<bitmap, pages, w, bit_index, run, pc, result>>

Candidate ==
  /\ pc = "bit" /\ b < WordBits /\ idx < TotalPages
  /\ idx \notin bitmap
  /\ run' = 1
  /\ pc' = "run"
  /\ UNCHANGED <<bitmap, pages, w, bit_index, b, result>>

\* The inner while goes on: check_idx is idx + run.
RunGoesOn == run < pages /\ idx + run < TotalPages /\ idx + run \notin bitmap

ExtendRun ==
  /\ pc = "run" /\ RunGoesOn
  /\ run' = run + 1
  /\ UNCHANGED <<bitmap, pages, w, bit_index, b, pc, result>>

RunFound ==
  /\ pc = "run" /\ ~ RunGoesOn /\ run = pages
  /\ Return(idx)

\* Wrong on purpose: skips one bit more.
SkipRunTwice ==
  /\ pc = "run" /\ ~ RunGoesOn /\ run # pages
  /\ b' = b + run + 2
  /\ pc' = "bit"
  /\ UNCHANGED <<bitmap, pages, w, bit_index, run, result>>

\* Too short: b skips the run and, by the b++ of the loop, the bit after it.
SkipRun ==
  /\ pc = "run" /\ ~ RunGoesOn /\ run # pages
  /\ b' = b + run + 1
  /\ pc' = "bit"
  /\ UNCHANGED <<bitmap, pages, w, bit_index, run, result>>

Step == \/ GiveUp \/ SkipFullWord \/ EnterWord \/ LeaveWord \/ PastTheEnd
        \/ UsedBit \/ Candidate \/ ExtendRun \/ RunFound \/ SkipRun

\* The call has returned.
Done == pc = "done" /\ UNCHANGED vars

Next == Step \/ Done

Spec == Init /\ [][Next]_vars /\ WF_vars(Step)

-----------------------------------------------------------------------------

\* The loop variables stay in the range of the C types that hold them; the
\* bits that are read exist.
TypeOK ==
  /\ bitmap \in SUBSET Bits
  /\ pages \in Requests
  /\ w \in 0 .. total_words
  /\ bit_index = w * WordBits
  /\ b \in Nat /\ run \in Nat
  /\ pc \in {"word", "bit", "run", "done"}
  /\ result \in Pages \cup {NOT_FOUND}

\* find_free_run returns the lowest start of a free run of the size asked for
\* and UINT64_MAX only if there is none: skipping full words, and skipping the
\* page that ends a run that is too short, loses no run, not even one that
\* crosses words, and the stray bits of the last word do not matter.
ReturnsFirstFit ==
  pc = "done" =>
    IF result = NOT_FOUND
    THEN pages = 0 \/ FreeStarts(UsedBits, pages) = {}
    ELSE FirstFit(UsedBits, pages, result)

=============================================================================
