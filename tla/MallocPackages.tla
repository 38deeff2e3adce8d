--------------------------- MODULE MallocPackages ---------------------------
(***************************************************************************)
(* The three malloc packages of the lab behind the one interface that mm.h *)
(* declares: the makefile links one of them with the driver, so a program  *)
(* meets one package and stays with it.                                    *)
(***************************************************************************)
EXTENDS Heap

CONSTANTS
    InitWords,      \* words of the first extension, in mm_init of two packages
    LargeWords      \* blocks from this size on are placed at the end (mm.c)

VARIABLES
    package,        \* the one that is linked
    rover           \* of the implicit list; the other two leave it alone

vars == <<heapVars, package, rover>>

Implicit == INSTANCE ImplicitHeap
Explicit == INSTANCE ExplicitHeap
Seg == INSTANCE SegHeap

\* What SegHeap's InsertNode relies on.
ASSUME PackagesAssumption == Seg!OrderNeverCompared

Init ==
    \/ package = "implicit" /\ Implicit!Init
    \/ package = "explicit" /\ Explicit!Init /\ rover = Null
    \/ package = "segregated" /\ Seg!Init /\ rover = Null

\* The explicit list is run as long as no reallocation has to move; what
\* happens then is a finding of its own.
Next ==
    /\ UNCHANGED package
    /\ \/ package = "implicit" /\ Implicit!Next
       \/ package = "explicit" /\ Explicit!NextInPlace /\ UNCHANGED rover
       \/ package = "segregated" /\ Seg!Next /\ UNCHANGED rover

Spec == Init /\ [][Next]_vars

-----------------------------------------------------------------------------
\* The package's own index of its free blocks agrees with the tags: the rover of
\* the implicit list is at a block, the explicit list links every free block once
\* and both ways, and so does each segregated list for its range of sizes.
IndexExact ==
    /\ package = "implicit" => Implicit!RoverOnBlock
    /\ package = "explicit" => Explicit!FreeListExact
    /\ package = "segregated" => Seg!FreeListsExact

\* Whichever package is linked, its mm_checkheap prints no error.
CheckheapQuiet ==
    /\ package = "implicit" => Implicit!CheckheapQuiet
    /\ package = "explicit" => Explicit!CheckheapQuiet
    /\ package = "segregated" => Seg!CheckheapQuiet

Asks(asize) ==
    \/ package = "implicit" /\ Implicit!Asks(asize)
    \/ package = "explicit" /\ Explicit!Asks(asize)
    \/ package = "segregated" /\ Seg!Asks(asize)

\* The heap grows only when no free block would have done: next fit has looked
\* at every block, first fit at the whole list, and the segregated lists that
\* the search leaves out hold only blocks that are too small.
GrowsOnlyWhenFull ==
    [][\A asize \in {AdjustedSize(n) : n \in Requests} :
         brk' # brk /\ Asks(asize) =>
             \A bp \in FreeBlocks : Size(mem, bp) < asize]_vars
=============================================================================
