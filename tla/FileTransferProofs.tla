------------------------ MODULE FileTransferProofs ------------------------
(***************************************************************************)
(* A file of any size, cut into packages of any length and sent with any   *)
(* window, whatever numbers are received: the window is sound, a sender    *)
(* always has something to send, and what was handed to mipd is the file   *)
(* but for the bytes that are always cut off.                              *)
(***************************************************************************)
EXTENDS FileTransfer, TLAPS

(***************************************************************************)
(* The invariant.  What was handed to mipd are packages of the job, with   *)
(* an index of their own where numbers can be told apart; without foreign  *)
(* numbers they are all packages up to some number, which is not below the *)
(* base; and the base of a sender is still within its file.                *)
(***************************************************************************)
OfTheJob ==
    \A p \in sent :
        /\ p = Serialized(PackageOf(size, p.psn))
        /\ HasPackage(size, p.psn)
        /\ Indexable(size) /\ size # 0 => Index(p.psn) = p.psn * Batch

NoneSkipped ==
    ~ foreign =>
        /\ \A p \in sent : \A nr \in 0 .. p.psn : Handed(nr)
        /\ window.base = 0 \/ Handed(window.base)

SenderWithin ==
    status = "sender" /\ size # 0 => window.base = 0 \/ window.base < PackageCount(size) - 1

CompleteAt ==
    status = "complete" => IsComplete(size, window) /\ (~ foreign => Handed(window.base))

IInv ==
    /\ TypeOK
    /\ WindowWidth
    /\ NothingAhead
    /\ OfTheJob
    /\ NoneSkipped
    /\ SenderWithin
    /\ CompleteAt

-----------------------------------------------------------------------------
(* Arithmetic                                                               *)

LEMMA WordFacts ==
    /\ Word \in Nat /\ Batch \in Nat \ {0} /\ WindowSize \in Nat
    /\ Batch < Word /\ WindowSize + 1 < Word
    /\ Word > 1
  BY SendJobAssumption

LEMMA ModRange ==
    ASSUME NEW W \in Nat \ {0}, NEW a \in Int
    PROVE  a % W \in 0 .. W - 1
  OBVIOUS

LEMMA DivInt ==
    ASSUME NEW W \in Nat \ {0}, NEW a \in Int
    PROVE  a = W * (a \div W) + (a % W)
  OBVIOUS

\* A number less than a word from the words below or above 0.
LEMMA ModCases ==
    ASSUME NEW W \in Nat \ {0}, NEW a \in Int, -W <= a, a < 2 * W
    PROVE  a % W = IF a < 0 THEN a + W ELSE IF a < W THEN a ELSE a - W
<1> DEFINE q == a \div W
           r == a % W
<1>1. q \in Int /\ r \in 0 .. W - 1 /\ a = W * q + r
  <2>1. r \in 0 .. W - 1
    BY ModRange
  <2>2. q \in Int
    OBVIOUS
  <2>3. a = W * q + r
    BY DivInt
  <2> QED
    BY <2>1, <2>2, <2>3
<1>2. r = a % W
  OBVIOUS
<1> HIDE DEF q, r
<1>3. q < 2
  <2>1. q >= 2 => W * q >= 2 * W
    BY <1>1
  <2> QED
    BY <1>1, <2>1
<1>4. q > -2
  <2>1. q <= -2 => W * q <= -2 * W
    BY <1>1
  <2> QED
    BY <1>1, <2>1
<1>5. q = -1 \/ q = 0 \/ q = 1
  BY <1>1, <1>3, <1>4
<1>6. W * (-1) = -W /\ W * 0 = 0 /\ W * 1 = W
  OBVIOUS
<1> QED
  BY <1>1, <1>2, <1>5, <1>6

LEMMA ModSmall ==
    ASSUME NEW W \in Nat \ {0}, NEW a \in Nat, a < W
    PROVE  a % W = a
<1>1. -W <= a /\ a < 2 * W
  OBVIOUS
<1> QED
  BY <1>1, ModCases

LEMMA DivMod ==
    ASSUME NEW a \in Nat, NEW b \in Nat \ {0}
    PROVE  a \div b \in Nat /\ a % b \in 0 .. b - 1 /\ a = b * (a \div b) + (a % b)
<1>1. a \div b \in Nat
  OBVIOUS
<1>2. a % b \in 0 .. b - 1
  BY ModRange
<1>3. a = b * (a \div b) + (a % b)
  BY DivInt
<1> QED
  BY <1>1, <1>2, <1>3

LEMMA TimesMonotone ==
    ASSUME NEW a \in Nat, NEW b \in Nat, NEW k \in Nat, a <= b
    PROVE  a * k <= b * k
  OBVIOUS

LEMMA TimesStrict ==
    ASSUME NEW a \in Nat, NEW b \in Nat, NEW k \in Nat, a * k < b * k
    PROVE  a < b
<1>1. b <= a => b * k <= a * k
  BY TimesMonotone
<1>2. a * k \in Nat /\ b * k \in Nat
  OBVIOUS
<1> QED
  BY <1>1, <1>2

-----------------------------------------------------------------------------
(* The send job                                                             *)

LEMMA IndexRange ==
    ASSUME NEW nr \in Nat
    PROVE  Index(nr) \in Numbers
<1>1. nr * Batch \in Int /\ Word \in Nat \ {0}
  BY WordFacts
<1> QED
  BY <1>1, ModRange DEF Index, Numbers

LEMMA PackageType ==
    ASSUME NEW n \in Numbers, NEW nr \in Numbers
    PROVE  PackageOf(n, nr) \in Packages
<1>1. Index(nr) \in Numbers
  BY IndexRange, WordFacts DEF Numbers
<1>2. Limit(n, nr) \in Numbers
  BY <1>1, WordFacts DEF Limit, Numbers
<1> QED
  BY <1>1, <1>2 DEF PackageOf, Packages

\* What is left of a package when it is handed over.
LEMMA SerializedFacts ==
    ASSUME NEW p \in Packages
    PROVE  /\ Serialized(p) \in Packages /\ Serialized(p).psn = p.psn
           /\ Serialized(p).first = p.first
           /\ Serialized(p).last = IF p.last - p.first < SizeField THEN p.first
                                   ELSE p.last - SizeField
<1>1. p.first \in Numbers /\ p.last \in Numbers /\ p.psn \in Numbers
  BY DEF Packages
<1>2. p.last - SizeField \in Numbers \/ p.last - p.first < SizeField
  BY <1>1, WordFacts DEF Numbers, SizeField
<1> QED
  BY <1>1, <1>2 DEF Packages, Serialized

\* A window of the right width.
Right(w) == w \in Windows /\ w.max = (w.base + WindowSize + 1) % Word

LEMMA NewWindowRight == Right(NewWindow)
<1>1. (0 + WindowSize + 1) % Word = WindowSize + 1
  <2> DEFINE a == 0 + WindowSize + 1
  <2>1. a \in Int /\ 0 <= a /\ a < Word /\ Word \in Nat \ {0} /\ a = WindowSize + 1
    BY WordFacts
  <2> HIDE DEF a
  <2>2. -Word <= a /\ a < 2 * Word
    BY <2>1
  <2>3. a % Word = a
    BY <2>1, <2>2, ModCases
  <2>4. a % Word = WindowSize + 1
    BY <2>1, <2>3
  <2> QED
    BY <2>4 DEF a
<1> QED
  BY <1>1, WordFacts DEF NewWindow, Right, Windows, Numbers

\* No number moves a window back or changes its width.
LEMMA SlideFacts ==
    ASSUME NEW w, Right(w), NEW nr \in Numbers
    PROVE  /\ Right(Slide(w, nr))
           /\ Slide(w, nr).base \in {w.base, nr}
           /\ Slide(w, nr).base >= w.base
<1> DEFINE b == w.base
           m == w.max
           d == WindowSize + 1
<1>1. /\ b \in Int /\ 0 <= b /\ b < Word /\ d \in Int /\ 0 <= d /\ d < Word
      /\ nr \in Int /\ 0 <= nr /\ nr < Word /\ m \in Int
      /\ Word \in Nat \ {0} /\ m = (b + d) % Word
  BY WordFacts DEF Right, Windows, Numbers
<1> HIDE DEF d
<1>0. ASSUME NEW a \in Int, -Word <= a, a < 2 * Word
      PROVE  a % Word = IF a < 0 THEN a + Word ELSE IF a < Word THEN a ELSE a - Word
  BY <1>0, <1>1, ModCases
<1>2. m = IF b + d < Word THEN b + d ELSE b + d - Word
  <2>1. b + d \in Int /\ 0 <= b + d /\ b + d < 2 * Word /\ -Word <= b + d
    BY <1>1
  <2> QED
    BY <1>0, <1>1, <2>1
<1> DEFINE e == nr + d
<1>e. e \in Int /\ 0 <= e /\ e < 2 * Word /\ -Word <= e /\ e = nr + d
  BY <1>1
<1> HIDE DEF e
<1>3. (m - b + nr) % Word = e % Word
  <2>1. CASE b + d < Word
    <3>1. m - b + nr = e
      BY <1>1, <1>2, <1>e, <2>1
    <3> QED
      BY <3>1
  <2>2. CASE ~ (b + d < Word)
    <3> DEFINE a == e - Word
    <3>1. a \in Int /\ -Word <= a /\ a < Word /\ a < 2 * Word /\ e = a + Word
      BY <1>1, <1>e
    <3>2. m - b + nr = a
      BY <1>1, <1>2, <1>e, <2>2
    <3> HIDE DEF a
    <3>3. a % Word = IF a < 0 THEN a + Word ELSE IF a < Word THEN a ELSE a - Word
      BY <1>0, <3>1
    <3>4. e % Word = IF e < 0 THEN e + Word ELSE IF e < Word THEN e ELSE e - Word
      BY <1>0, <1>e
    <3> QED
      BY <1>1, <3>1, <3>2, <3>3, <3>4
  <2> QED
    BY <2>1, <2>2
<1>4. e % Word \in Numbers
  BY <1>1, <1>e, ModRange DEF Numbers
<1>5. CASE nr > b
  <2>1. Slide(w, nr) = [base |-> nr, max |-> e % Word]
    BY <1>3, <1>5 DEF Slide
  <2>2. e = nr + WindowSize + 1
    BY <1>1, <1>e, WordFacts DEF d
  <2> QED
    BY <1>1, <1>4, <1>5, <2>1, <2>2 DEF Right, Windows
<1>6. CASE ~ (nr > b)
  BY <1>1, <1>6 DEF Slide
<1> QED
  BY <1>5, <1>6

\* What the window has to send.
LEMMA NextPackagesFacts ==
    ASSUME NEW n \in Numbers, NEW w, Right(w), NEW p \in NextPackages(n, w)
    PROVE  /\ p \in Packages /\ p = PackageOf(n, p.psn)
           /\ p.psn \in w.base .. w.max - 1 /\ p.psn < w.base + WindowSize + 1
           /\ \A k \in w.base .. p.psn : HasPackage(n, k)
<1>1. PICK nr \in w.base .. w.max - 1 :
          p = PackageOf(n, nr) /\ \A k \in w.base .. nr : HasPackage(n, k)
  BY DEF NextPackages
<1>2. /\ w.base \in Int /\ 0 <= w.base /\ w.base < Word
      /\ w.max \in Int /\ w.max < Word /\ w.max = (w.base + WindowSize + 1) % Word
      /\ Word \in Nat \ {0} /\ WindowSize \in Nat /\ WindowSize + 1 < Word
  BY WordFacts DEF Right, Windows, Numbers
<1>3. w.max <= w.base + WindowSize + 1
  <2> DEFINE a == w.base + WindowSize + 1
  <2>1. a \in Int /\ 0 <= a /\ a < 2 * Word /\ w.max = a % Word
    BY <1>2
  <2> HIDE DEF a
  <2>2. -Word <= a
    BY <1>2, <2>1
  <2>3. a % Word = IF a < 0 THEN a + Word ELSE IF a < Word THEN a ELSE a - Word
    BY <1>2, <2>1, <2>2, ModCases
  <2>4. w.max <= a
    BY <1>2, <2>1, <2>3
  <2> QED
    BY <2>4 DEF a
<1>4. nr \in Numbers /\ nr < w.base + WindowSize + 1
  BY <1>1, <1>2, <1>3 DEF Numbers
<1>5. p.psn = nr
  BY <1>1 DEF PackageOf
<1> QED
  BY <1>1, <1>4, <1>5, PackageType

\* How many packages have an index of their own.
Indices == (Word - 1) \div Batch

LEMMA IndicesFacts == Indices \in Nat /\ Indices * Batch \in Nat /\ Indices * Batch <= Word - 1
<1> DEFINE a == Word - 1
           r == a % Batch
<1>1. a \in Nat /\ Indices = a \div Batch /\ Batch \in Nat \ {0}
  BY WordFacts DEF Indices
<1> HIDE DEF a
<1>2. Indices \in Nat /\ r \in 0 .. Batch - 1 /\ a = Batch * Indices + r
  BY <1>1, DivMod
<1> HIDE DEF r
<1>3. Batch * Indices = Indices * Batch /\ Indices * Batch \in Nat
  BY <1>1, <1>2
<1> QED
  BY <1>1, <1>2, <1>3 DEF a

LEMMA IndexExact ==
    ASSUME NEW nr \in Nat, nr * Batch < Word
    PROVE  Index(nr) = nr * Batch
<1> DEFINE a == nr * Batch
<1>1. a \in Nat /\ a < Word /\ Word \in Nat \ {0}
  BY WordFacts
<1> HIDE DEF a
<1>2. a % Word = a
  BY <1>1, ModSmall
<1> QED
  BY <1>2 DEF a, Index

\* A window whose base is within a file of numbers that can be told apart does
\* not come to a number whose index is that of another: there is no package at
\* the first index that is beyond the file.
LEMMA WindowExact ==
    ASSUME NEW n \in Numbers, Indexable(n), NEW b \in Nat, b * Batch <= n,
           NEW nr \in Nat, b <= nr, \A k \in b .. nr : HasPackage(n, k)
    PROVE  Index(nr) = nr * Batch
<1>1. /\ Batch \in Nat \ {0} /\ Word \in Nat \ {0} /\ n \in Nat
      /\ Indices \in Nat /\ Indices * Batch \in Nat /\ Indices * Batch <= Word - 1
      /\ n < Indices * Batch
  BY WordFacts, IndicesFacts DEF Numbers, Indexable, Indices
<1>2. b < Indices
  <2>1. b * Batch < Indices * Batch
    <3> DEFINE x == b * Batch
               y == Indices * Batch
    <3>1. x \in Nat /\ y \in Nat /\ x <= n /\ n < y
      BY <1>1
    <3> HIDE DEF x, y
    <3>2. x < y
      BY <1>1, <3>1
    <3> QED
      BY <3>2 DEF x, y
  <2> QED
    BY <1>1, <2>1, TimesStrict
<1>3. ~ (Indices <= nr)
  <2> SUFFICES ASSUME Indices <= nr PROVE FALSE
    OBVIOUS
  <2>1. Indices \in b .. nr
    BY <1>1, <1>2
  <2>2. Index(Indices) <= n
    BY <2>1 DEF HasPackage
  <2>3. Index(Indices) = Indices * Batch
    <3>1. Indices * Batch < Word
      BY <1>1
    <3> QED
      BY <1>1, <3>1, IndexExact
  <2> QED
    BY <1>1, <2>2, <2>3
<1>4. nr * Batch <= Indices * Batch /\ nr * Batch \in Nat
  BY <1>1, <1>3, TimesMonotone
<1>5. nr * Batch < Word
  BY <1>1, <1>4
<1> QED
  BY <1>5, IndexExact

\* As many packages of a batch each hold the data.
LEMMA PackageCountFacts ==
    ASSUME NEW n \in Nat
    PROVE  /\ PackageCount(n) \in Nat /\ n <= PackageCount(n) * Batch
           /\ n # 0 => PackageCount(n) # 0 /\ (PackageCount(n) - 1) * Batch < n
<1> DEFINE q == n \div Batch
           r == n % Batch
<1>1. q \in Nat /\ r \in 0 .. Batch - 1 /\ n = Batch * q + r /\ Batch \in Nat \ {0}
  BY WordFacts, DivMod
<1>2. PackageCount(n) = q + (IF r # 0 THEN 1 ELSE 0)
  BY DEF PackageCount
<1> HIDE DEF q, r
<1>3. (q + 1) * Batch = Batch * q + Batch /\ q * Batch = Batch * q
  BY <1>1
<1>4. CASE r = 0
  <2>1. PackageCount(n) = q /\ n = Batch * q
    BY <1>1, <1>2, <1>4
  <2>2. (q - 1) * Batch = Batch * q - Batch /\ Batch * q \in Int
    BY <1>1
  <2>3. q = 0 => Batch * q = 0
    BY <1>1
  <2> QED
    BY <1>1, <1>3, <2>1, <2>2, <2>3
<1>5. CASE r # 0
  <2>1. PackageCount(n) = q + 1 /\ (q + 1) - 1 = q /\ Batch * q \in Int
    BY <1>1, <1>2, <1>5
  <2>2. n > Batch * q /\ n <= Batch * q + Batch
    BY <1>1, <1>5, <2>1
  <2> QED
    BY <1>1, <1>3, <2>1, <2>2
<1> QED
  BY <1>4, <1>5

-----------------------------------------------------------------------------
(* The inductive invariant                                                  *)

LEMMA InitIInv == Init => IInv
<1> SUFFICES ASSUME Init PROVE IInv
  OBVIOUS
<1>1. window = NewWindow /\ Right(window) /\ window.base = 0
  BY NewWindowRight DEF Init, NewWindow
<1>2. TypeOK
  BY <1>1 DEF Init, TypeOK, Right
<1>3. WindowWidth /\ NoneSkipped /\ SenderWithin
  BY <1>1 DEF Init, WindowWidth, NoneSkipped, SenderWithin, Right
<1>4. NothingAhead /\ OfTheJob /\ CompleteAt
  BY DEF Init, NothingAhead, OfTheJob, CompleteAt
<1> QED
  BY <1>2, <1>3, <1>4 DEF IInv

\* What the facts of a state say of its window and its size.
LEMMA StateFacts ==
    ASSUME IInv
    PROVE  /\ Right(window) /\ size \in Numbers /\ size \in Nat
           /\ window.base \in Nat /\ window.max \in Nat /\ WindowSize \in Nat
           /\ PackageCount(size) \in Nat /\ PackageCount(size) + WindowSize < Word
<1>1. window \in Windows /\ size \in Sizes /\ size \in Numbers
  BY FileTransferAssumption DEF IInv, TypeOK
<1>2. window.base \in Nat /\ window.max \in Nat /\ WindowSize \in Nat /\ size \in Nat
  BY <1>1, WordFacts DEF Windows, Numbers
<1>3. PackageCount(size) \in Nat /\ PackageCount(size) + WindowSize < Word
  BY <1>1, <1>2, PackageCountFacts, FileTransferAssumption
<1> QED
  BY <1>1, <1>2, <1>3 DEF IInv, WindowWidth, Right

\* The base of a sender is within its file.
LEMMA BaseWithin ==
    ASSUME IInv, status = "sender", size # 0
    PROVE  /\ window.base * Batch <= size
           /\ window.base = 0 \/ window.base < PackageCount(size) - 1
<1> DEFINE n == PackageCount(size)
           b == window.base
<1>1. b \in Nat /\ n \in Nat /\ size \in Nat /\ Batch \in Nat
  BY StateFacts, WordFacts
<1>2. b = 0 \/ b < n - 1
  BY DEF IInv, SenderWithin
<1>3. (n - 1) * Batch < size /\ n # 0
  BY <1>1, PackageCountFacts
<1> HIDE DEF n, b
<1>4. CASE b = 0
  BY <1>1, <1>4 DEF b
<1>5. CASE b < n - 1
  <2> DEFINE m == n - 1
  <2>1. m \in Nat /\ b <= m /\ m * Batch < size
    BY <1>1, <1>3, <1>5
  <2> HIDE DEF m
  <2>2. b * Batch <= m * Batch
    BY <1>1, <2>1, TimesMonotone
  <2> DEFINE x == b * Batch
             y == m * Batch
  <2>3. x \in Nat /\ y \in Nat /\ x <= y /\ y < size
    BY <1>1, <2>1, <2>2
  <2> HIDE DEF x, y
  <2>4. x <= size
    BY <1>1, <2>3
  <2> QED
    BY <1>2, <2>4 DEF x, b, n
<1> QED
  BY <1>2, <1>4, <1>5

LEMMA SendInv == IInv /\ SendWindow => IInv' /\ window' = window
<1> SUFFICES ASSUME IInv, SendWindow PROVE IInv' /\ window' = window
  OBVIOUS
<1> DEFINE packages == NextPackages(size, window)
<1>1. /\ status = "sender"
      /\ sent' = sent \cup {Serialized(p) : p \in packages}
      /\ status' \in {"sender", "killed"}
      /\ size' = size /\ window' = window /\ foreign' = foreign
  BY DEF SendWindow
<1>w. /\ Right(window) /\ size \in Numbers /\ size \in Nat
      /\ window.base \in Nat /\ window.max \in Nat /\ WindowSize \in Nat
  BY StateFacts
<1>2. ASSUME NEW p \in packages
      PROVE  /\ p \in Packages /\ p = PackageOf(size, p.psn)
             /\ p.psn \in Nat /\ window.base <= p.psn /\ p.psn < window.base + WindowSize + 1
             /\ \A k \in window.base .. p.psn : HasPackage(size, k)
             /\ \A k \in window.base .. p.psn : PackageOf(size, k) \in packages
             /\ Serialized(p) \in Packages /\ Serialized(p).psn = p.psn
  <2>1. /\ p \in Packages /\ p = PackageOf(size, p.psn)
        /\ p.psn \in window.base .. window.max - 1 /\ p.psn < window.base + WindowSize + 1
        /\ \A k \in window.base .. p.psn : HasPackage(size, k)
    BY <1>w, NextPackagesFacts
  <2>2. p.psn \in Nat /\ window.base <= p.psn
    BY <1>w, <2>1
  <2>3. ASSUME NEW k \in window.base .. p.psn PROVE PackageOf(size, k) \in packages
    <3>1. k \in window.base .. window.max - 1
      BY <1>w, <2>1
    <3>2. \A j \in window.base .. k : HasPackage(size, j)
      BY <1>w, <2>1
    <3> QED
      BY <3>1, <3>2 DEF NextPackages
  <2> QED
    BY <2>1, <2>2, <2>3, SerializedFacts
<1> HIDE DEF packages
<1>3. ASSUME NEW q \in sent'
      PROVE  q \in sent \/ \E p \in packages : q = Serialized(p)
  BY <1>1
<1>4. TypeOK'
  BY <1>1, <1>2 DEF IInv, TypeOK
<1>5. WindowWidth' /\ SenderWithin' /\ CompleteAt'
  BY <1>1 DEF IInv, WindowWidth, SenderWithin, CompleteAt
<1>6. NothingAhead'
  BY <1>1, <1>2 DEF IInv, NothingAhead
<1>7. OfTheJob'
  <2> SUFFICES ASSUME NEW q \in sent'
               PROVE  /\ q = Serialized(PackageOf(size, q.psn))
                      /\ HasPackage(size, q.psn)
                      /\ Indexable(size) /\ size # 0 => Index(q.psn) = q.psn * Batch
    BY <1>1 DEF OfTheJob
  <2>1. CASE q \in sent
    BY <2>1 DEF IInv, OfTheJob
  <2>2. CASE q \notin sent
    <3>1. PICK p \in packages : q = Serialized(p)
      BY <1>3, <2>2
    <3>2. q = Serialized(PackageOf(size, q.psn)) /\ q.psn = p.psn
      BY <1>2, <3>1
    <3>3. HasPackage(size, p.psn)
      <4>1. p.psn \in window.base .. p.psn
        BY <1>2, <1>w
      <4> QED
        BY <1>2, <4>1
    <3>4. ASSUME Indexable(size), size # 0 PROVE Index(p.psn) = p.psn * Batch
      <4>1. window.base * Batch <= size
        BY <1>1, <3>4, BaseWithin
      <4> QED
        BY <1>2, <1>w, <3>4, <4>1, WindowExact
    <3> QED
      BY <3>2, <3>3, <3>4
  <2> QED
    BY <2>1, <2>2
<1>8. NoneSkipped'
  <2> SUFFICES ASSUME ~ foreign
               PROVE  /\ \A q \in sent' : \A nr \in 0 .. q.psn : Handed(nr)'
                      /\ window.base = 0 \/ Handed(window.base)'
    BY <1>1 DEF NoneSkipped
  <2>1. ASSUME NEW nr, Handed(nr) PROVE Handed(nr)'
    BY <1>1, <2>1 DEF Handed
  <2>2. window.base = 0 \/ Handed(window.base)
    BY DEF IInv, NoneSkipped
  <2>3. ASSUME NEW q \in sent', NEW nr \in 0 .. q.psn PROVE Handed(nr)'
    <3>1. CASE q \in sent
      BY <2>1, <2>3, <3>1 DEF IInv, NoneSkipped
    <3>2. CASE q \notin sent
      <4>1. PICK p \in packages : q = Serialized(p)
        BY <1>3, <3>2
      <4>2. q.psn = p.psn /\ p.psn \in Nat
        BY <1>2, <4>1
      <4>3. CASE nr < window.base
        <5>1. Handed(window.base)
          BY <1>w, <2>2, <4>3, <4>2
        <5>2. PICK x \in sent : x.psn = window.base
          BY <5>1 DEF Handed
        <5>3. nr \in 0 .. x.psn
          BY <1>w, <4>2, <4>3, <5>2
        <5>4. Handed(nr)
          BY <5>3 DEF IInv, NoneSkipped
        <5> QED
          BY <2>1, <5>4
      <4>4. CASE ~ (nr < window.base)
        <5>1. nr \in window.base .. p.psn
          BY <1>w, <4>2, <4>4
        <5> DEFINE x == PackageOf(size, nr)
        <5>2. x \in packages /\ x.psn = nr
          BY <1>2, <5>1 DEF PackageOf
        <5> HIDE DEF x
        <5>3. Serialized(x) \in sent' /\ Serialized(x).psn = nr
          BY <1>1, <1>2, <5>2
        <5> QED
          BY <5>3 DEF Handed
      <4> QED
        BY <4>3, <4>4
    <3> QED
      BY <3>1, <3>2
  <2>4. window.base = 0 \/ Handed(window.base)'
    BY <1>1, <2>2 DEF Handed
  <2> QED
    BY <2>3, <2>4
<1> QED
  BY <1>1, <1>4, <1>5, <1>6, <1>7, <1>8 DEF IInv

LEMMA ReceiveInv ==
    ASSUME IInv, NEW nr \in Numbers, ReceivePackage(nr)
    PROVE  IInv' /\ window'.base >= window.base
<1>1. /\ window' = Slide(window, nr)
      /\ status' = IF IsComplete(size, window') THEN "complete" ELSE "sender"
      /\ foreign' = (foreign \/ ~ Handed(nr))
      /\ size' = size /\ sent' = sent /\ status = "sender"
  BY DEF ReceivePackage
<1>w. /\ Right(window) /\ size \in Nat /\ window.base \in Nat /\ WindowSize \in Nat
      /\ PackageCount(size) \in Nat /\ nr \in Nat
  BY StateFacts, WordFacts DEF Numbers
<1>2. /\ Right(window') /\ window'.base >= window.base
      /\ window'.base \in {window.base, nr} /\ window'.base \in Nat
  BY <1>1, <1>w, SlideFacts
<1>3. TypeOK' /\ WindowWidth' /\ OfTheJob'
  BY <1>1, <1>2 DEF IInv, TypeOK, WindowWidth, Right, OfTheJob
<1>4. NothingAhead'
  <2>1. \A p \in sent : p.psn \in Int /\ p.psn < window.base + WindowSize + 1
    BY DEF IInv, TypeOK, NothingAhead, Packages, Numbers
  <2> QED
    BY <1>1, <1>2, <1>w, <2>1 DEF NothingAhead
<1>5. NoneSkipped'
  <2>1. \A k : Handed(k)' <=> Handed(k)
    BY <1>1 DEF Handed
  <2>2. foreign \in BOOLEAN
    BY DEF IInv, TypeOK
  <2> SUFFICES ASSUME ~ foreign, Handed(nr)
               PROVE  /\ \A p \in sent : \A k \in 0 .. p.psn : Handed(k)
                      /\ window'.base = 0 \/ Handed(window'.base)
    BY <1>1, <2>1, <2>2 DEF NoneSkipped
  <2> QED
    BY <1>2 DEF IInv, NoneSkipped
<1>6. SenderWithin'
  <2> SUFFICES ASSUME status' = "sender", size # 0
               PROVE  window'.base < PackageCount(size) - 1
    BY <1>1 DEF SenderWithin
  <2>1. ~ IsComplete(size, window')
    BY <1>1
  <2>2. PackageCount(size) # 0
    BY <1>w, PackageCountFacts
  <2> QED
    BY <1>2, <1>w, <2>1, <2>2 DEF IsComplete
<1>7. CompleteAt'
  <2>1. ASSUME Handed(nr), ~ foreign PROVE Handed(window'.base)
    <3>1. window.base = 0 \/ Handed(window.base)
      BY <2>1 DEF IInv, NoneSkipped
    <3>2. window'.base >= nr
      BY <1>1, <1>w DEF Slide
    <3>3. window.base = 0 => window'.base = nr
      BY <1>2, <1>w, <3>2
    <3> QED
      BY <1>2, <2>1, <3>1, <3>3
  <2>3. Handed(window.base)' <=> \E p \in sent : p.psn = window'.base
    BY <1>1 DEF Handed
  <2>4. foreign \in BOOLEAN
    BY DEF IInv, TypeOK
  <2> QED
    BY <1>1, <2>1, <2>3, <2>4 DEF CompleteAt, Handed
<1> QED
  BY <1>2, <1>3, <1>4, <1>5, <1>6, <1>7 DEF IInv

LEMMA NextIInv == IInv /\ [Next]_vars => IInv' /\ window'.base >= window.base
<1> SUFFICES ASSUME IInv, [Next]_vars PROVE IInv' /\ window'.base >= window.base
  OBVIOUS
<1>w. window.base \in Nat
  BY StateFacts
<1>1. CASE SendWindow
  BY <1>1, <1>w, SendInv
<1>2. CASE \E nr \in Numbers : ReceivePackage(nr)
  BY <1>2, ReceiveInv
<1>3. CASE UNCHANGED vars
  BY <1>3, <1>w DEF vars, IInv, TypeOK, WindowWidth, NothingAhead, OfTheJob, NoneSkipped,
                    SenderWithin, CompleteAt, Handed
<1> QED
  BY <1>1, <1>2, <1>3 DEF Next

LEMMA SpecIInv == Spec => []IInv
<1>1. IInv /\ [Next]_vars => IInv'
  BY NextIInv
<1> QED
  BY <1>1, InitIInv, PTL DEF Spec

-----------------------------------------------------------------------------
(* The theorems                                                             *)

\* Every number stays within its 16 bits, those of the packages too.
THEOREM TransferTypes == Spec => []TypeOK
<1>1. IInv => TypeOK
  BY DEF IInv
<1> QED
  BY <1>1, SpecIInv, PTL

\* The window never moves back (sliding_window.c:15).
THEOREM TransferForward == Spec => WindowNeverBack
<1>1. IInv /\ [Next]_vars => [window'.base >= window.base]_vars
  BY NextIInv
<1> QED
  BY <1>1, SpecIInv, PTL DEF Spec, WindowNeverBack

\* The window keeps its width and its pace, whatever numbers are received
\* (miptp_send_job.c:48, sliding_window.c:15-18).
THEOREM TransferPace == Spec => []Pace
<1>1. IInv => Pace
  BY DEF IInv, Pace
<1> QED
  BY <1>1, SpecIInv, PTL

\* No number leaves a sender without anything to send (miptp_send_job.c:65).
THEOREM TransferSends == Spec => []SenderSends
<1>1. IInv => SenderSends
  <2> SUFFICES ASSUME IInv, status = "sender", size # 0
               PROVE  NextPackages(size, window) # {}
    BY DEF SenderSends
  <2> DEFINE b == window.base
  <2>1. /\ Right(window) /\ size \in Nat /\ size \in Numbers /\ b \in Nat
        /\ window.max \in Nat /\ WindowSize \in Nat
        /\ PackageCount(size) \in Nat /\ PackageCount(size) + WindowSize < Word
        /\ Word \in Nat /\ Batch \in Nat
    BY StateFacts, WordFacts
  <2>2. b * Batch <= size /\ (b = 0 \/ b < PackageCount(size) - 1)
    BY BaseWithin
  <2>3. HasPackage(size, b)
    <3> DEFINE x == b * Batch
    <3>1. x \in Nat
      BY <2>1
    <3>2. x <= size /\ size < Word
      BY <2>1, <2>2 DEF Numbers
    <3> HIDE DEF x
    <3>3. x < Word
      BY <2>1, <3>1, <3>2
    <3>4. Index(b) = b * Batch
      BY <2>1, <3>3, IndexExact DEF x
    <3> QED
      BY <2>2, <3>4 DEF HasPackage
  <2>4. b < window.max
    <3> DEFINE e == b + WindowSize + 1
    <3>1. e \in Nat /\ e < Word /\ b < e
      <4> DEFINE n == PackageCount(size)
      <4>1. b \in Nat /\ n \in Nat /\ Word \in Nat /\ WindowSize \in Nat
        BY <2>1
      <4>2. n + WindowSize < Word /\ WindowSize + 1 < Word /\ (b = 0 \/ b < n - 1)
        BY <2>1, <2>2, WordFacts
      <4> HIDE DEF b, n
      <4> QED
        BY <4>1, <4>2
    <3>2. window.max = e % Word
      BY <2>1 DEF Right
    <3> HIDE DEF e
    <3>3. e % Word = e
      BY <2>1, <3>1, ModSmall
    <3> QED
      BY <3>1, <3>2, <3>3
  <2>5. b \in b .. window.max - 1
    BY <2>1, <2>4
  <2>6. \A k \in b .. b : HasPackage(size, k)
    BY <2>1, <2>3
  <2>7. PackageOf(size, b) \in NextPackages(size, window)
    BY <2>5, <2>6 DEF NextPackages
  <2> QED
    BY <2>7
<1> QED
  BY <1>1, SpecIInv, PTL

\* A connection told nothing but numbers of its packages is complete only when
\* it has sent them all (miptp_send_job.c:112).
LEMMA AllHanded == IInv => CompleteIsSent
<1> SUFFICES ASSUME IInv, status = "complete", ~ foreign, NEW nr \in 0 .. PackageCount(size) - 1
             PROVE  Handed(nr)
  BY DEF CompleteIsSent
<1> DEFINE n == PackageCount(size)
<1>1. n \in Nat /\ window.base \in Nat /\ n # 0 /\ window.base >= n - 1
  BY StateFacts DEF IInv, CompleteAt, IsComplete
<1>2. PICK p \in sent : p.psn = window.base
  BY DEF IInv, CompleteAt, Handed
<1>3. nr \in 0 .. p.psn
  BY <1>1, <1>2
<1> QED
  BY <1>3 DEF IInv, NoneSkipped

THEOREM TransferComplete == Spec => []CompleteIsSent
  BY SpecIInv, AllHanded, PTL

\* The bytes of a package of a file whose numbers can be told apart.
LEMMA BytesOfPackage ==
    ASSUME IInv, Indexable(size), size # 0, NEW p \in sent, NEW b \in Int
    PROVE  /\ p.psn \in Nat /\ p.psn * Batch \in Nat
           /\ b \in Bytes(p) <=>
                 /\ p.psn * Batch <= b
                 /\ b < p.psn * Batch + Batch - SizeField
                 /\ b < size - SizeField
<1> DEFINE a == p.psn * Batch
           q == PackageOf(size, p.psn)
<1>1. /\ p \in Packages /\ p.psn \in Numbers /\ p = Serialized(q)
      /\ Index(p.psn) = a /\ a <= size
  BY DEF IInv, TypeOK, OfTheJob, Packages, HasPackage
<1>2. size \in Numbers /\ size \in Nat /\ Batch \in Nat /\ p.psn \in Nat /\ a \in Nat
  BY <1>1, StateFacts, WordFacts DEF Numbers
<1>3. /\ q \in Packages /\ q.first = a
      /\ q.last = IF size < a + Batch THEN size ELSE a + Batch
  BY <1>1, <1>2, PackageType DEF PackageOf, Limit
<1> HIDE DEF a, q
<1>4. /\ p.first = q.first
      /\ p.last = IF q.last - q.first < SizeField THEN q.first ELSE q.last - SizeField
  BY <1>1, <1>3, SerializedFacts
<1>5. b \in Bytes(p) <=> a <= b /\ b < p.last
  <2>1. p.last \in Int
    BY <1>1 DEF Packages, Numbers
  <2> QED
    BY <1>2, <1>3, <1>4, <2>1 DEF Bytes
<1>6. b \in Bytes(p) <=> a <= b /\ b < a + Batch - SizeField /\ b < size - SizeField
  <2> DEFINE l == p.last
             m == q.last
  <2>1. m \in Int /\ m = (IF size < a + Batch THEN size ELSE a + Batch)
    BY <1>2, <1>3
  <2>2. l = IF m - a < 2 THEN a ELSE m - 2
    BY <1>3, <1>4 DEF SizeField
  <2> HIDE DEF l, m
  <2>3. a <= b /\ b < l <=> a <= b /\ b < a + Batch - 2 /\ b < size - 2
    BY <1>2, <2>1, <2>2
  <2> QED
    BY <1>5, <2>3 DEF SizeField, l
<1> QED
  BY <1>2, <1>6 DEF a

\* A byte is in one batch only.
LEMMA OneBatch ==
    ASSUME NEW i \in Nat, NEW k \in Nat, NEW b \in Int,
           i * Batch <= b, b < i * Batch + Batch, k * Batch <= b, b < k * Batch + Batch
    PROVE  i = k
<1>1. ASSUME NEW x \in Nat, NEW y \in Nat, x * Batch <= b, b < y * Batch + Batch
      PROVE  ~ (y < x)
  <2> SUFFICES ASSUME y < x PROVE FALSE
    OBVIOUS
  <2>1. Batch \in Nat /\ y + 1 \in Nat /\ y + 1 <= x
    BY WordFacts
  <2>2. (y + 1) * Batch <= x * Batch
    BY <2>1, TimesMonotone
  <2>3. (y + 1) * Batch = y * Batch + Batch
    BY <2>1
  <2> DEFINE u == x * Batch
             v == y * Batch
  <2>4. u \in Int /\ v \in Int /\ u <= b /\ b < v + Batch /\ v + Batch <= u
    BY <1>1, <2>1, <2>2, <2>3
  <2> HIDE DEF u, v
  <2> QED
    BY <2>1, <2>4
<1>2. ~ (i < k) /\ ~ (k < i)
  BY <1>1
<1> QED
  BY <1>2

\* What was handed to mipd is the file without an overlap, and of a complete
\* file all but two bytes of each package (miptp_package.c:63-71).
THEOREM TransferBytes == Spec => []BytesSound
<1>1. IInv => BytesSound
  <2> SUFFICES ASSUME IInv, Indexable(size)
               PROVE  /\ \A p \in sent : Bytes(p) \subseteq 0 .. size - 1
                      /\ \A p, q \in sent : p.psn # q.psn => Bytes(p) \cap Bytes(q) = {}
                      /\ status = "complete" /\ ~ foreign =>
                            \A b \in 0 .. size - 1 :
                                (\E p \in sent : b \in Bytes(p)) <=>
                                    b % Batch < Batch - SizeField /\ b < size - SizeField
    BY DEF BytesSound
  <2>0. size \in Nat /\ Batch \in Nat \ {0} /\ SizeField = 2
    BY StateFacts, WordFacts DEF SizeField
  <2>1. CASE size = 0
    <3>1. ASSUME NEW p \in sent PROVE Bytes(p) = {}
      <4> DEFINE q == PackageOf(size, p.psn)
      <4>1. p \in Packages /\ p = Serialized(q) /\ Index(p.psn) <= 0
        BY <2>1 DEF IInv, TypeOK, OfTheJob, HasPackage
      <4>2. p.psn \in Numbers /\ p.psn \in Nat /\ size \in Numbers
        BY <4>1, StateFacts DEF Packages, Numbers
      <4>3. Index(p.psn) = 0
        <5>1. Index(p.psn) \in Nat
          BY <4>2, IndexRange DEF Numbers
        <5> QED
          BY <4>1, <5>1
      <4>4. q \in Packages /\ q.first = 0 /\ q.last = 0
        BY <2>0, <2>1, <4>2, <4>3, PackageType DEF PackageOf, Limit
      <4> HIDE DEF q
      <4>5. p.first = 0 /\ p.last = 0
        BY <2>0, <4>1, <4>4, SerializedFacts
      <4> QED
        BY <4>5 DEF Bytes
    <3>2. 0 .. size - 1 = {}
      BY <2>1
    <3> QED
      BY <3>1, <3>2
  <2>2. CASE size # 0
    <3>1. ASSUME NEW p \in sent, NEW b \in Bytes(p)
          PROVE  /\ b \in Int /\ p.psn \in Nat /\ p.psn * Batch \in Nat
                 /\ p.psn * Batch <= b /\ b < p.psn * Batch + Batch - 2 /\ b < size - 2
                 /\ b < p.psn * Batch + Batch
      <4>1. b \in Int
        BY DEF Bytes, IInv, TypeOK, Packages, Numbers
      <4>2. /\ p.psn \in Nat /\ p.psn * Batch \in Nat
            /\ p.psn * Batch <= b /\ b < p.psn * Batch + Batch - 2 /\ b < size - 2
        BY <2>0, <2>2, <4>1, BytesOfPackage
      <4> DEFINE a == p.psn * Batch
      <4>3. a \in Nat /\ b < a + Batch - 2
        BY <4>2
      <4> HIDE DEF a
      <4>4. b < a + Batch
        BY <2>0, <4>1, <4>3
      <4> QED
        BY <4>1, <4>2, <4>4 DEF a
    <3>2. \A p \in sent : Bytes(p) \subseteq 0 .. size - 1
      <4> SUFFICES ASSUME NEW p \in sent, NEW b \in Bytes(p) PROVE b \in 0 .. size - 1
        OBVIOUS
      <4> DEFINE a == p.psn * Batch
      <4>1. b \in Int /\ a \in Nat /\ a <= b /\ b < size - 2
        BY <3>1
      <4> HIDE DEF a
      <4> QED
        BY <2>0, <4>1
    <3>3. \A p, q \in sent : p.psn # q.psn => Bytes(p) \cap Bytes(q) = {}
      <4> SUFFICES ASSUME NEW p \in sent, NEW q \in sent, NEW b \in Bytes(p), b \in Bytes(q)
                   PROVE  p.psn = q.psn
        OBVIOUS
      <4> QED
        BY <3>1, OneBatch
    <3>4. ASSUME status = "complete", ~ foreign, NEW b \in 0 .. size - 1
          PROVE  (\E p \in sent : b \in Bytes(p)) <=> b % Batch < Batch - 2 /\ b < size - 2
      <4> DEFINE k == b \div Batch
                 c == b % Batch
                 a == k * Batch
      <4>1. /\ b \in Nat /\ b < size /\ k \in Nat /\ c \in 0 .. Batch - 1
            /\ b = Batch * k + c
        <5>1. b \in Nat /\ b < size
          BY <2>0
        <5>2. k \in Nat /\ c \in 0 .. Batch - 1 /\ b = Batch * k + c
          BY <2>0, <5>1, DivMod
        <5> QED
          BY <5>1, <5>2
      <4>2. c = b % Batch
        OBVIOUS
      <4> HIDE DEF k, c
      <4>3. a = Batch * k /\ a \in Nat /\ b = a + c
        BY <2>0, <4>1
      <4>4. a <= b /\ b < a + Batch
        <5> HIDE DEF a
        <5> QED
          BY <2>0, <4>1, <4>3
      <4>5. ASSUME NEW p \in sent, b \in Bytes(p) PROVE c < Batch - 2 /\ b < size - 2
        <5>1. p.psn = k
          <6>1. /\ p.psn \in Nat /\ k \in Nat /\ b \in Int
                /\ p.psn * Batch <= b /\ b < p.psn * Batch + Batch
            BY <3>1, <4>1, <4>5
          <6>2. k * Batch <= b /\ b < k * Batch + Batch
            BY <4>4
          <6> QED
            BY <6>1, <6>2, OneBatch
        <5>2. b < a + Batch - 2 /\ b < size - 2
          BY <3>1, <4>5, <5>1
        <5> HIDE DEF a
        <5> QED
          BY <2>0, <4>1, <4>3, <5>2
      <4>6. ASSUME c < Batch - 2, b < size - 2 PROVE \E p \in sent : b \in Bytes(p)
        <5> DEFINE n == PackageCount(size)
        <5>1. n \in Nat /\ size <= n * Batch
          BY <2>0, PackageCountFacts
        <5> HIDE DEF n
        <5>2. k < n
          <6> DEFINE x == n * Batch
          <6>1. x \in Nat /\ a \in Nat /\ a <= b /\ b < size /\ size <= x
            BY <2>0, <4>1, <4>3, <4>4, <5>1
          <6> HIDE DEF x, a
          <6>2. a < x
            BY <2>0, <4>1, <6>1
          <6>3. k * Batch < n * Batch
            BY <6>2 DEF x, a
          <6> QED
            BY <2>0, <4>1, <5>1, <6>3, TimesStrict
        <5>3. k \in 0 .. PackageCount(size) - 1
          BY <4>1, <5>1, <5>2 DEF n
        <5>4. PICK p \in sent : p.psn = k
          BY <3>4, <5>3, AllHanded DEF CompleteIsSent, Handed
        <5>5. b < a + Batch - 2
          <6> HIDE DEF a
          <6> QED
            BY <2>0, <4>1, <4>3, <4>6
        <5>6. b \in Bytes(p)
          BY <2>0, <2>2, <4>1, <4>4, <4>6, <5>4, <5>5, BytesOfPackage
        <5> QED
          BY <5>6
      <4> QED
        BY <4>2, <4>5, <4>6
    <3> QED
      BY <2>0, <3>2, <3>3, <3>4
  <2> QED
    BY <2>1, <2>2
<1> QED
  BY <1>1, SpecIInv, PTL
=============================================================================
