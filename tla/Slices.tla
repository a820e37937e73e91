------------------------------- MODULE Slices -------------------------------
(***************************************************************************)
(* How the programs cut data into parts for their children: the bytes of a *)
(* file in src/sop_l6_templates/template.c and template_ds.c, and the      *)
(* block of results in src/l6/z1/main.c.  All of it is computed by every   *)
(* child for itself, so that the parts fit together is nowhere checked.    *)
(***************************************************************************)
EXTENDS Integers

\* template.c, child_job: the file is cut at the fractions idx / children.
Start(size, children, idx) == (size * idx) \div children
End(size, children, idx) == (size * (idx + 1)) \div children

\* template_ds.c: blocks of the same size, rounded up, the last ones cut off
\* at the end of the file.  A child that would start behind it gets nothing.
BlockSize_RoundedDown(size, children) == size \div children   \* mutation
BlockSize(size, children) == (size + children - 1) \div children
BlockStart(size, children, idx) == idx * BlockSize(size, children)
BlockEnd(size, children, idx) ==
    LET end == (idx + 1) * BlockSize(size, children)
    IN  IF end > size THEN size ELSE end

\* l6/z1: the first int of the results of child i, the number of ints of it,
\* and the bytes mmap gives for the 1024 that are asked for.
IntSize == 4
ResultLength == 38
ResultStart(i) == IntSize * ResultLength * i
PageSize == 4096
-----------------------------------------------------------------------------
\* The byte b belongs to the part from first to just before last.
Within(b, first, last) == first <= b /\ b < last

\* Every byte of a file is one child's and no other's, and no child looks at
\* a byte behind the end, for any size of the file and number of children,
\* fewer bytes than children among them (child_job's start and end).
SliceExact(size, children) ==
    \A b \in 0 .. size - 1 :
        \E i \in 0 .. children - 1 :
            \A j \in 0 .. children - 1 :
                Within(b, Start(size, children, j), End(size, children, j)) <=> j = i
SliceInside(size, children) ==
    \A i \in 0 .. children - 1 :
        0 <= Start(size, children, i) /\ End(size, children, i) <= size

\* The same of the blocks of template_ds.c.
BlockExact(size, children) ==
    \A b \in 0 .. size - 1 :
        \E i \in 0 .. children - 1 :
            \A j \in 0 .. children - 1 :
                Within(b, BlockStart(size, children, j), BlockEnd(size, children, j)) <=> j = i
BlockInside(size, children) ==
    \A i \in 0 .. children - 1 :
        0 <= BlockStart(size, children, i) /\ BlockEnd(size, children, i) <= size

\* The results of the children of l6/z1 do not overlap, and lie inside the
\* page although those of the last two are behind the length asked for.
ResultsApart(children) ==
    /\ \A i, j \in 0 .. children - 1 :
          i # j => ResultStart(i) + ResultLength <= ResultStart(j)
                   \/ ResultStart(j) + ResultLength <= ResultStart(i)
    /\ \A i \in 0 .. children - 1 :
          IntSize * (ResultStart(i) + ResultLength) <= PageSize

AllExact(size, children) ==
    /\ SliceExact(size, children) /\ SliceInside(size, children)
    /\ BlockExact(size, children) /\ BlockInside(size, children)
    /\ ResultsApart(4)
=============================================================================
