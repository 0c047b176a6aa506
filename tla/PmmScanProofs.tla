---------------------------- MODULE PmmScanProofs ----------------------------
(***************************************************************************)
(* find_free_run is first fit, and pmalloc_aligned finds the first aligned *)
(* run, for every number of pages, word size and alignment.                *)
(***************************************************************************)
EXTENDS PmmAlignedScan, TLAPS

\* The words cover the pages.
LEMMA WordsCoverPages ==
  /\ total_words \in Nat
  /\ total_words * WordBits >= TotalPages
  BY TotalPagesAssumption, ScanAssumption DEF total_words

\* No free run of the size asked for starts below k.
NoneBelow(k) == \A s \in Pages : s < k => s \notin FreeStarts(UsedBits, pages)

\* What the loops know at each point.
ScanInv ==
  /\ TypeOK
  /\ pc \in {"bit", "run"} => pages # 0 /\ w < total_words
  /\ pc = "word" /\ pages # 0 => NoneBelow(bit_index)
  /\ pc = "bit" => NoneBelow(idx)
  /\ pc = "run" => /\ NoneBelow(idx)
                   /\ run \in 1 .. pages
                   /\ idx + run <= TotalPages
                   /\ Run(idx, run) \cap bitmap = {}
  /\ ReturnsFirstFit

LEMMA ScanInit == Init => ScanInv
<1> SUFFICES ASSUME Init
             PROVE  ScanInv
  OBVIOUS
<1>1. TypeOK
  BY WordsCoverPages, ScanAssumption DEF Init, TypeOK
<1>2. NoneBelow(bit_index)
  BY TotalPagesAssumption DEF Init, NoneBelow, Pages
<1>3. QED
  BY <1>1, <1>2 DEF Init, ScanInv, ReturnsFirstFit

\* What the variables are, in the form the steps use.
LEMMA ScanTypes ==
  ASSUME TypeOK
  PROVE  /\ bitmap \subseteq Bits /\ pages \in Nat /\ pages \in Requests
         /\ w \in Nat /\ w <= total_words /\ total_words \in Nat
         /\ bit_index \in Nat /\ bit_index = w * WordBits
         /\ WordBits \in Nat \ {0} /\ TotalPages \in Nat
         /\ b \in Nat /\ run \in Nat /\ idx \in Nat
         /\ result \in Pages \cup {NOT_FOUND}
  BY WordsCoverPages, ScanAssumption, TotalPagesAssumption DEF TypeOK, idx

\* A bit that is 1 starts no free run.
LEMMA UsedStartsNothing ==
  ASSUME TypeOK, NEW s \in Pages, s \in bitmap, pages # 0
  PROVE  s \notin FreeStarts(UsedBits, pages)
<1>1. s \in Run(s, pages)
  BY ScanTypes DEF Run, Pages
<1>2. QED
  BY <1>1 DEF FreeStarts, UsedBits

\* Moving to the next word keeps the invariant when no run starts in this one.
LEMMA NextWordKeeps ==
  ASSUME ScanInv, NextWord, pc' = "word", w < total_words,
         pages # 0, NoneBelow(bit_index + WordBits)
  PROVE  ScanInv'
<1>1. /\ bitmap' = bitmap /\ pages' = pages /\ b' = b /\ run' = run /\ result' = result
      /\ w' = w + 1 /\ bit_index' = bit_index + WordBits
  BY DEF NextWord
<1>2. bit_index' = w' * WordBits
  BY <1>1, ScanTypes DEF ScanInv
<1>3. TypeOK'
  BY <1>1, <1>2, ScanTypes DEF ScanInv, TypeOK
<1>4. NoneBelow(bit_index)'
  BY <1>1 DEF NoneBelow, UsedBits
<1>5. QED
  BY <1>3, <1>4 DEF ScanInv, ReturnsFirstFit

\* Returning a result that is right keeps the invariant.
LEMMA ReturnKeeps ==
  ASSUME ScanInv, NEW r \in Pages \cup {NOT_FOUND}, Return(r),
         IF r = NOT_FOUND
         THEN pages = 0 \/ FreeStarts(UsedBits, pages) = {}
         ELSE FirstFit(UsedBits, pages, r)
  PROVE  ScanInv'
<1>1. TypeOK'
  BY DEF Return, ScanInv, TypeOK
<1>2. UsedBits' = UsedBits /\ pages' = pages /\ result' = r /\ pc' = "done"
  BY DEF Return, UsedBits
<1>3. ReturnsFirstFit'
  BY <1>2, ZenonT(60) DEF ReturnsFirstFit
<1>4. QED
  BY <1>1, <1>2, <1>3 DEF ScanInv

LEMMA ScanStep == ScanInv /\ [Next]_vars => ScanInv'
<1> SUFFICES ASSUME ScanInv, [Next]_vars
             PROVE  ScanInv'
  OBVIOUS
<1> USE ScanTypes DEF ScanInv
<1>1. CASE GiveUp
  <2>1. CASE pages = 0
    BY <1>1, <2>1, ReturnKeeps DEF GiveUp
  <2>2. CASE pages # 0
    <3>1. bit_index >= TotalPages
      BY <1>1, <2>2, WordsCoverPages DEF GiveUp
    <3>2. FreeStarts(UsedBits, pages) = {}
      BY <1>1, <2>2, <3>1 DEF GiveUp, NoneBelow, FreeStarts, Pages
    <3>3. QED
      BY <1>1, <3>2, ReturnKeeps DEF GiveUp
  <2>3. QED
    BY <2>1, <2>2
<1>2. CASE SkipFullWord
  <2>1. /\ pc = "word" /\ pages # 0 /\ w < total_words /\ word_full
        /\ NextWord /\ pc' = "word"
    BY <1>2 DEF SkipFullWord
  <2>2. ASSUME NEW s \in Pages, s < bit_index + WordBits
        PROVE  s \notin FreeStarts(UsedBits, pages)
    <3>1. CASE s < bit_index
      BY <2>1, <3>1 DEF NoneBelow
    <3>2. CASE s >= bit_index
      <4>1. s - bit_index \in 0 .. WordBits - 1 /\ bit_index + (s - bit_index) = s
        BY <2>2, <3>2 DEF Pages
      <4>2. s \in bitmap
        BY <2>1, <4>1 DEF word_full
      <4>3. QED
        BY <2>1, <4>2, UsedStartsNothing
    <3>3. QED
      BY <3>1, <3>2 DEF Pages
  <2>3. NoneBelow(bit_index + WordBits)
    BY <2>2 DEF NoneBelow
  <2>4. QED
    BY <2>1, <2>3, NextWordKeeps
<1>3. CASE EnterWord
  <2>1. idx' = bit_index
    BY <1>3 DEF EnterWord, idx
  <2>2. TypeOK'
    BY <1>3 DEF EnterWord, TypeOK
  <2>3. NoneBelow(idx)'
    BY <1>3, <2>1, ZenonT(60) DEF EnterWord, NoneBelow, UsedBits
  <2>4. QED
    BY <1>3, <2>2, <2>3 DEF EnterWord, ReturnsFirstFit
<1>4. CASE LeaveWord
  <2>1. NoneBelow(bit_index + WordBits)
    BY <1>4 DEF LeaveWord, NoneBelow, idx, Pages
  <2>2. QED
    BY <1>4, <2>1, NextWordKeeps DEF LeaveWord
<1>5. CASE PastTheEnd
  <2>1. FreeStarts(UsedBits, pages) = {}
    BY <1>5 DEF PastTheEnd, NoneBelow, FreeStarts, Pages
  <2>2. QED
    BY <1>5, <2>1, ReturnKeeps DEF PastTheEnd
<1>6. CASE UsedBit
  <2>1. idx' = idx + 1 /\ UsedBits' = UsedBits
    BY <1>6 DEF UsedBit, idx, UsedBits
  <2>2. TypeOK'
    BY <1>6 DEF UsedBit, TypeOK
  <2>3. idx \in Pages /\ idx \notin FreeStarts(UsedBits, pages)
    BY <1>6, UsedStartsNothing DEF UsedBit, Pages
  <2>4. NoneBelow(idx)'
    BY <1>6, <2>1, <2>3 DEF UsedBit, NoneBelow, Pages
  <2>5. QED
    BY <1>6, <2>2, <2>4 DEF UsedBit, ReturnsFirstFit
<1>7. CASE Candidate
  <2>1. idx' = idx /\ UsedBits' = UsedBits
    BY <1>7 DEF Candidate, idx, UsedBits
  <2>2. TypeOK'
    BY <1>7 DEF Candidate, TypeOK
  <2>3. NoneBelow(idx)'
    BY <1>7, <2>1 DEF Candidate, NoneBelow
  <2>4. Run(idx, 1) = {idx}
    BY DEF Run
  <2>5. (Run(idx, run) \cap bitmap = {})'
    BY <1>7, <2>1, <2>4 DEF Candidate
  <2>6. QED
    BY <1>7, <2>1, <2>2, <2>3, <2>5 DEF Candidate, ReturnsFirstFit
<1>8. CASE ExtendRun
  <2>1. idx' = idx /\ UsedBits' = UsedBits
    BY <1>8 DEF ExtendRun, idx, UsedBits
  <2>2. TypeOK'
    BY <1>8 DEF ExtendRun, TypeOK
  <2>3. NoneBelow(idx)'
    BY <1>8, <2>1 DEF ExtendRun, NoneBelow
  <2>4. Run(idx, run + 1) = Run(idx, run) \cup {idx + run}
    BY DEF Run
  <2>5. (Run(idx, run) \cap bitmap = {})'
    BY <1>8, <2>1, <2>4 DEF ExtendRun, RunGoesOn
  <2>6. QED
    BY <1>8, <2>1, <2>2, <2>3, <2>5 DEF ExtendRun, RunGoesOn, ReturnsFirstFit
<1>9. CASE RunFound
  <2>1. idx \in FreeStarts(UsedBits, pages)
    BY <1>9 DEF RunFound, FreeStarts, UsedBits, Pages
  <2>2. FirstFit(UsedBits, pages, idx)
    BY <1>9, <2>1 DEF RunFound, FirstFit, NoneBelow, FreeStarts, Pages
  <2>3. idx \in Pages /\ idx # NOT_FOUND
    BY <2>1, ScanAssumption DEF FreeStarts
  <2>4. QED
    BY <1>9, <2>2, <2>3, ReturnKeeps DEF RunFound
<1>10. CASE SkipRun
  <2>1. idx' = idx + run + 1 /\ UsedBits' = UsedBits
    BY <1>10 DEF SkipRun, idx, UsedBits
  <2>2. TypeOK'
    BY <1>10 DEF SkipRun, TypeOK
  <2>3. /\ pc = "run" /\ run \in 1 .. pages /\ run < pages /\ idx + run <= TotalPages
        /\ idx + run = TotalPages \/ (idx + run \in Pages /\ idx + run \in bitmap)
    <3>1. pc = "run" /\ run # pages /\ ~ RunGoesOn
      BY <1>10 DEF SkipRun
    <3>2. run \in 1 .. pages /\ run < pages /\ idx + run <= TotalPages
      BY <3>1
    <3>3. idx + run = TotalPages \/ (idx + run \in Pages /\ idx + run \in bitmap)
      BY <3>1, <3>2 DEF RunGoesOn, Pages
    <3>4. QED
      BY <3>1, <3>2, <3>3
  <2>4. ASSUME NEW s \in Pages, s < idx + run + 1
        PROVE  s \notin FreeStarts(UsedBits, pages)
    <3>1. CASE s < idx
      BY <2>3, <3>1 DEF NoneBelow
    <3>2. CASE s \in idx .. idx + run
      <4>1. idx + run \in Run(s, pages)
        BY <2>3, <3>2 DEF Run, Pages
      <4>2. idx + run = TotalPages => s + pages > TotalPages
        BY <2>3, <3>2 DEF Pages
      <4>3. QED
        BY <2>3, <4>1, <4>2 DEF FreeStarts, UsedBits, Pages
    <3>3. QED
      BY <2>4, <3>1, <3>2 DEF Pages
  <2>5. NoneBelow(idx)'
    BY <1>10, <2>1, <2>4 DEF SkipRun, NoneBelow
  <2>6. QED
    BY <1>10, <2>2, <2>5 DEF SkipRun, ReturnsFirstFit
<1>11. CASE UNCHANGED vars
  BY <1>11, ZenonT(60) DEF vars, TypeOK, NoneBelow, UsedBits, idx, ReturnsFirstFit, Bits
<1>12. QED
  BY <1>1, <1>2, <1>3, <1>4, <1>5, <1>6, <1>7, <1>8, <1>9, <1>10, <1>11
  DEF Next, Step, Done

\* find_free_run returns the first fitting run and gives up only when there is
\* none, for every bitmap, word size and request.
THEOREM FindFreeRunIsFirstFit == Spec => []ReturnsFirstFit
<1>1. ScanInv => ReturnsFirstFit
  BY DEF ScanInv
<1>2. QED
  BY <1>1, ScanInit, ScanStep, PTL DEF Spec

-----------------------------------------------------------------------------
(* pmalloc_aligned *)

\* x * a below y * a orders x and y.
LEMMA MultiplesOrdered ==
  ASSUME NEW a \in Nat \ {0}, NEW x \in Int, NEW y \in Int, x < y
  PROVE  a * x + a <= a * y
<1>1. PICK d \in Nat : y = x + 1 + d
  <2>1. y - x - 1 \in Nat /\ y = x + 1 + (y - x - 1)
    OBVIOUS
  <2>2. QED
    BY <2>1
<1>2. a * y = a * x + a + a * d
  BY <1>1
<1>3. a * d \in Nat /\ a * x \in Int
  BY <1>1
<1>4. QED
  BY <1>2, <1>3

LEMMA Quotients ==
  ASSUME NEW a \in Nat \ {0}, NEW n \in Nat
  PROVE  /\ n \div a \in Int /\ a * (n \div a) \in Int /\ n % a \in 0 .. a - 1
         /\ n = a * (n \div a) + (n % a)
<1>1. n \div a \in Int
  OBVIOUS
<1>2. n % a \in 0 .. a - 1
  OBVIOUS
<1>3. n = a * (n \div a) + (n % a)
  OBVIOUS
<1>4. a * (n \div a) \in Int
  BY <1>1
<1>5. QED
  BY <1>1, <1>2, <1>3, <1>4

\* From a multiple of a the scan moves on by a, to the next multiple.
LEMMA NextMultiple ==
  ASSUME NEW a \in Nat \ {0}, NEW n \in Nat, n % a = 0
  PROVE  LET m == ((n \div a) + 1) * a
         IN  m \in Nat /\ m = n + a /\ m % a = 0
<1> DEFINE q == n \div a
           m == (q + 1) * a
           t == m \div a
<1>1. q \in Int /\ n = a * q
  BY Quotients
<1> HIDE DEF q
<1>2. m = a * q + a /\ m = a * (q + 1)
  BY <1>1
<1>3. m = n + a /\ m \in Nat
  BY <1>1, <1>2
<1>4. m % a = 0
  <2> HIDE DEF m
  <2>1. t \in Int /\ a * t \in Int /\ m % a \in 0 .. a - 1 /\ m = a * t + (m % a)
    BY <1>3, Quotients, ZenonT(60)
  <2> HIDE DEF t
  <2>2. CASE t < q + 1
    <3>1. a * t + a <= a * (q + 1)
      BY <1>1, <2>1, <2>2, MultiplesOrdered
    <3>2. QED
      BY <1>2, <2>1, <3>1
  <2>3. CASE q + 1 < t
    <3>1. a * (q + 1) + a <= a * t
      BY <1>1, <2>1, <2>3, MultiplesOrdered
    <3>2. QED
      BY <1>2, <1>3, <2>1, <3>1
  <2>4. CASE t = q + 1
    <3>1. a * t = m
      BY <1>2, <2>4
    <3>2. QED
      BY <1>3, <2>1, <3>1
  <2>5. QED
    BY <1>1, <2>1, <2>2, <2>3, <2>4
<1>5. QED
  BY <1>3, <1>4 DEF q

\* Between a multiple of a and the next there is none.
LEMMA MultiplesApart ==
  ASSUME NEW a \in Nat \ {0}, NEW n \in Nat, NEW s \in Nat, n % a = 0, s % a = 0,
         n <= s, s < n + a
  PROVE  s = n
<1> DEFINE p == s \div a
           q == n \div a
<1>1. p \in Int /\ q \in Int /\ s = a * p /\ n = a * q
  BY Quotients
<1> HIDE DEF p, q
<1>2. CASE p < q
  BY <1>1, <1>2, MultiplesOrdered
<1>3. CASE q < p
  BY <1>1, <1>3, MultiplesOrdered
<1>4. QED
  BY <1>1, <1>2, <1>3

\* The points of find_free_run.
FindPcs == {"word", "bit", "run", "done"}

\* No aligned run of the size asked for starts below k.
NoneAlignedBelow(k) ==
  \A s \in Pages : s < k => s \notin AlignedStarts(UsedBits, pages, align_pages)

\* What the loops of pmalloc_aligned know at each point.
AlignedInv ==
  /\ pc \in {"scan", "check", "returned", "halted"}
  /\ pages \in Nat /\ align_pages \in Nat /\ i \in Nat /\ j \in Nat
  /\ align_pages # 0 => i % align_pages = 0
  /\ pc \in {"scan", "check"} /\ align_pages # 0 => NoneAlignedBelow(i)
  /\ pc = "check" => /\ pages # 0 /\ i + pages <= TotalPages /\ j <= pages
                     /\ Run(i, j) \cap bitmap = {}
  /\ ReturnsFirstAligned

\* Either scan keeps its invariant.
BothInv == IF pc \in FindPcs THEN ScanInv ELSE AlignedInv

LEMMA BothInit == AllInit => BothInv
<1> SUFFICES ASSUME AllInit
             PROVE  BothInv
  OBVIOUS
<1>1. CASE Init
  BY <1>1, ScanInit DEF BothInv, Init, FindPcs
<1>2. CASE AlignedInit
  <2>1. /\ pc = "scan" /\ i = 0 /\ j = 0 /\ pages \in Nat /\ align_pages \in Nat
    BY <1>2, ScanAssumption, AlignedScanAssumption DEF AllInit, AlignedInit
  <2>2. align_pages # 0 => 0 % align_pages = 0
    BY <2>1
  <2>3. NoneAlignedBelow(i)
    BY <2>1, TotalPagesAssumption DEF NoneAlignedBelow, Pages
  <2>4. QED
    BY <2>1, <2>2, <2>3 DEF BothInv, FindPcs, AlignedInv, ReturnsFirstAligned
<1>3. QED
  BY <1>1, <1>2 DEF AllInit

LEMMA AlignedStepKeeps ==
  ASSUME AlignedInv, AlignedStep
  PROVE  AlignedInv'
<1> USE TotalPagesAssumption
<1>1. CASE NoRoom
  <2>1. /\ pc = "scan" /\ pc' = "returned" /\ result' = NOT_FOUND
        /\ UNCHANGED <<bitmap, pages, align_pages, i, j>>
    BY <1>1 DEF NoRoom, AlignedReturn
  <2>2. pages # 0 /\ align_pages # 0 => AlignedStarts(UsedBits, pages, align_pages) = {}
    <3> SUFFICES ASSUME pages # 0, align_pages # 0,
                        NEW s \in AlignedStarts(UsedBits, pages, align_pages)
                 PROVE  FALSE
      OBVIOUS
    <3>1. s \in Pages /\ s + pages <= TotalPages
      BY DEF AlignedStarts, FreeStarts
    <3>2. s >= i
      BY <2>1, <3>1 DEF AlignedInv, NoneAlignedBelow, Pages
    <3>3. i + pages > TotalPages
      BY <1>1 DEF NoRoom
    <3>4. QED
      BY <3>1, <3>2, <3>3 DEF AlignedInv, Pages
  <2>3. QED
    BY <2>1, <2>2 DEF AlignedInv, ReturnsFirstAligned, UsedBits
<1>2. CASE TryStart
  <2>1. /\ pc = "scan" /\ pc' = "check" /\ pages # 0 /\ i + pages <= TotalPages /\ j' = 0
        /\ UNCHANGED <<bitmap, pages, align_pages, i>>
    BY <1>2 DEF TryStart
  <2>2. (Run(i, j) \cap bitmap = {})'
    BY <2>1 DEF Run, AlignedInv
  <2>3. QED
    BY <2>1, <2>2 DEF AlignedInv, NoneAlignedBelow, UsedBits, ReturnsFirstAligned
<1>3. CASE PageFree
  <2>1. /\ pc = "check" /\ pc' = "check" /\ j < pages /\ j' = j + 1 /\ i + j \notin bitmap
        /\ UNCHANGED <<bitmap, pages, align_pages, i>>
    BY <1>3 DEF PageFree
  <2>2. Run(i, j + 1) = Run(i, j) \cup {i + j}
    BY DEF Run, AlignedInv
  <2>3. (Run(i, j) \cap bitmap = {})'
    BY <2>1, <2>2 DEF AlignedInv
  <2>4. QED
    BY <2>1, <2>3 DEF AlignedInv, NoneAlignedBelow, UsedBits, ReturnsFirstAligned
<1>4. CASE PageUsed
  <2>1. /\ pc = "check" /\ pc' = "scan" /\ j < pages /\ i + j \in bitmap /\ align_pages # 0
        /\ i' = ((i \div align_pages) + 1) * align_pages
        /\ UNCHANGED <<bitmap, pages, align_pages, j>>
    BY <1>4 DEF PageUsed
  <2>2. i \in Nat /\ align_pages \in Nat \ {0} /\ i % align_pages = 0
    BY <2>1 DEF AlignedInv
  <2>3. i' \in Nat /\ i' = i + align_pages /\ i' % align_pages = 0
    BY <2>1, <2>2, NextMultiple, ZenonT(60)
  <2>4. ASSUME NEW s \in Pages, s < i + align_pages,
               s \in AlignedStarts(UsedBits, pages, align_pages)
        PROVE  FALSE
    <3>1. s % align_pages = 0 /\ Run(s, pages) \cap UsedBits = {} /\ s \in Nat
      BY <2>4 DEF AlignedStarts, FreeStarts, Pages
    <3>2. s >= i
      BY <2>1, <2>2, <2>4, <3>1 DEF AlignedInv, NoneAlignedBelow
    <3>3. s = i
      BY <2>2, <2>4, <3>1, <3>2, MultiplesApart, ZenonT(60)
    <3>4. i + j \in Run(i, pages) /\ i + j \in Pages
      BY <2>1, <2>2 DEF AlignedInv, Run, Pages
    <3>5. QED
      BY <2>1, <3>1, <3>3, <3>4 DEF UsedBits
  <2>5. NoneAlignedBelow(i)'
    BY <2>1, <2>3, <2>4, ZenonT(60) DEF NoneAlignedBelow, UsedBits
  <2>6. QED
    BY <2>1, <2>3, <2>5 DEF AlignedInv, ReturnsFirstAligned
<1>5. CASE DivideError
  BY <1>5 DEF DivideError, AlignedInv, ReturnsFirstAligned
<1>6. CASE AllFree
  <2>1. /\ pc = "check" /\ pc' = "returned" /\ j = pages /\ result' = i
        /\ UNCHANGED <<bitmap, pages, align_pages, i, j>>
    BY <1>6 DEF AllFree, AlignedReturn
  <2>2. i \in Pages /\ i + pages <= TotalPages /\ Run(i, pages) \cap UsedBits = {}
    BY <2>1 DEF AlignedInv, Pages, UsedBits
  <2>3. i # NOT_FOUND
    BY <2>2, ScanAssumption
  <2>4. align_pages # 0 => FirstAligned(UsedBits, pages, align_pages, i)
    <3> SUFFICES ASSUME align_pages # 0
                 PROVE  FirstAligned(UsedBits, pages, align_pages, i)
      OBVIOUS
    <3>1. i \in AlignedStarts(UsedBits, pages, align_pages)
      BY <2>2 DEF AlignedStarts, FreeStarts, AlignedInv
    <3>2. ASSUME NEW s \in AlignedStarts(UsedBits, pages, align_pages)
          PROVE  i <= s
      BY <2>1, <3>2 DEF AlignedInv, NoneAlignedBelow, AlignedStarts, FreeStarts, Pages
    <3>3. QED
      BY <3>1, <3>2 DEF FirstAligned
  <2>5. QED
    BY <2>1, <2>3, <2>4 DEF AlignedInv, ReturnsFirstAligned, UsedBits
<1>7. QED
  BY <1>1, <1>2, <1>3, <1>4, <1>5, <1>6 DEF AlignedStep

LEMMA BothStep == BothInv /\ [AllNext]_all_vars => BothInv'
<1> SUFFICES ASSUME BothInv, [AllNext]_all_vars
             PROVE  BothInv'
  OBVIOUS
<1>1. CASE Next
  <2>1. pc \in FindPcs /\ pc' \in FindPcs
    BY <1>1 DEF Next, Step, Done, GiveUp, SkipFullWord, EnterWord, LeaveWord, PastTheEnd,
                UsedBit, Candidate, ExtendRun, RunFound, SkipRun, Return, vars, FindPcs
  <2>2. QED
    BY <1>1, <2>1, ScanStep DEF BothInv
<1>2. CASE AlignedStep
  <2>1. pc \notin FindPcs /\ pc' \notin FindPcs
    BY <1>2 DEF AlignedStep, NoRoom, TryStart, PageFree, PageUsed, DivideError, AllFree,
                AlignedReturn, FindPcs
  <2>2. QED
    BY <1>2, <2>1, AlignedStepKeeps DEF BothInv
<1>3. CASE UNCHANGED all_vars
  <2>1. UNCHANGED vars /\ UNCHANGED <<align_pages, i, j>>
    BY <1>3 DEF all_vars, aligned_vars
  <2>2. CASE pc \in FindPcs
    <3>1. ScanInv'
      BY <2>1, <2>2, ScanStep DEF BothInv
    <3>2. QED
      BY <2>1, <2>2, <3>1 DEF BothInv, vars
  <2>3. CASE pc \notin FindPcs
    <3>1. AlignedInv'
      BY <2>1, <2>3, ZenonT(60) DEF BothInv, AlignedInv, vars, NoneAlignedBelow, UsedBits,
                        ReturnsFirstAligned
    <3>2. QED
      BY <2>1, <2>3, <3>1 DEF BothInv, vars
  <2>4. QED
    BY <2>2, <2>3
<1>4. QED
  BY <1>1, <1>2, <1>3 DEF AllNext, AlignedDone

\* pmalloc_aligned returns the lowest aligned start of a free run and gives up only
\* when there is none, for every bitmap, request and alignment that is not 0.
THEOREM AlignedRunIsFirst == AllSpec => []ReturnsFirstAligned
<1>1. BothInv => ReturnsFirstAligned
  BY DEF BothInv, AlignedInv, ReturnsFirstAligned, FindPcs
<1>2. QED
  BY <1>1, BothInit, BothStep, PTL DEF AllSpec

=============================================================================
