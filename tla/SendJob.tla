------------------------------- MODULE SendJob -------------------------------
(***************************************************************************)
(* How miptpd cuts a file into packages and which of them may be under     *)
(* way: MIPTPSendJob and its SlidingWindow, as operators.                  *)
(*                                                                         *)
(* Sequence numbers, indices into the data and its size are uint16_t.  A   *)
(* package stands for the interval of data it carries, from the byte first *)
(* up to, and without, the byte last.                                      *)
(***************************************************************************)
EXTENDS Integers

CONSTANTS
    Word,         \* 2^16
    Batch,        \* MAX_DATA_BATCH_SIZE_BYTES
    WindowSize    \* WINDOW_SIZE

ASSUME SendJobAssumption ==
    /\ Word \in Nat
    /\ Batch \in Nat \ {0}
    /\ WindowSize \in Nat
    /\ Batch < Word
    /\ WindowSize + 1 < Word

Numbers == 0 .. Word - 1

-----------------------------------------------------------------------------
(* SlidingWindow                                                            *)

Windows == [base : Numbers, max : Numbers]

\* SlidingWindow_create, with the base of a new job.
NewWindow == [base |-> 0, max |-> WindowSize + 1]

\* Faulty variant: an old number moves the window too.
Slide_Back(w, nr) == [base |-> nr, max |-> (w.max - w.base + nr) % Word]

\* SlidingWindow_update
Slide(w, nr) ==
    IF nr > w.base
    THEN [base |-> nr, max |-> (w.max - w.base + nr) % Word]
    ELSE w

-----------------------------------------------------------------------------
(* Packages                                                                 *)

\* Faulty variant: the batch includes the header of a package.
Index_WithHeader(nr) == (nr * (Batch + 1)) % Word

\* The index is cut to 16 bits.
Index(nr) == (nr * Batch) % Word

\* Faulty variant: a package may reach over the end of the data.
Limit_Whole(size, nr) == Index(nr) + Batch

Limit(size, nr) == IF size < Index(nr) + Batch THEN size ELSE Index(nr) + Batch

\* Faulty variant: no package for what is left at the end.
HasPackage_Whole(size, nr) == Index(nr) + Batch <= size

\* There is data left for the package, or the data has just been used up.
HasPackage(size, nr) == Index(nr) <= size

\* MIPTPSendJob_next_package
PackageOf(size, nr) == [psn |-> nr, first |-> Index(nr), last |-> Limit(size, nr)]

\* MIPTPSendJob_next_packages: from the base on, until there is none.
NextPackages(size, w) ==
    {PackageOf(size, nr) : nr \in {i \in w.base .. w.max - 1 :
                                      \A k \in w.base .. i : HasPackage(size, k)}}

-----------------------------------------------------------------------------
(* What is handed to mipd                                                   *)

\* The size of the data, which is written between header and data.
SizeField == 2

\* MIPTPPackage_serialize: the size it returns leaves out the size field, so
\* that the last bytes of the data stay behind.
Serialized(p) ==
    [p EXCEPT !.last = IF p.last - p.first < SizeField THEN p.first ELSE p.last - SizeField]

\* The buffer has room for header and data of a whole batch, not for the size
\* field too.
Overruns(p) == p.last - p.first > Batch - SizeField

-----------------------------------------------------------------------------
(* Completion                                                               *)

\* The number of packages, as MIPTPSendJob_is_complete counts them.
PackageCount(size) == size \div Batch + (IF size % Batch # 0 THEN 1 ELSE 0)

\* Faulty variant: complete when the last package may be sent.
IsComplete_LastInWindow(size, w) ==
    PackageCount(size) # 0 /\ w.max >= PackageCount(size)

\* MIPTPSendJob_is_complete: one less than no packages is UINT_MAX.
IsComplete(size, w) ==
    PackageCount(size) # 0 /\ w.base >= PackageCount(size) - 1

\* The sizes whose packages all have an index of their own, so that the one
\* after the last is missed.
Indexable(size) == size < ((Word - 1) \div Batch) * Batch
=============================================================================
