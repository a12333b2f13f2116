------------------------------- MODULE ListPager -------------------------------
(* list-pager.js: a bounded part of a list, with the page asked for brought *)
(* into range.                                                              *)
EXTENDS Integers, Sequences
LOCAL INSTANCE SequencesExt

Clamp(n, low, high) == IF n < low THEN low ELSE IF n > high THEN high ELSE n
pageCount(items, size) == Clamp((Len(items) + size - 1) \div size, 1, Len(items) + 1)
page(items, requested, size) ==
    LET index == Clamp(requested, 0, pageCount(items, size) - 1)
        last == Clamp((index + 1) * size, 0, Len(items))
    IN [index |-> index, items |-> SubSeq(items, index * size + 1, last),
        from |-> IF items = <<>> THEN 0 ELSE index * size + 1, to |-> last]
\* The buttons of the pager: the page before and the page after, where there is one.
buttons(result, items, size) ==
    {result.index - 1, result.index + 1} \cap 0..(pageCount(items, size) - 1)
\* What the pages show, read from the first to the last.
AllPages(items, size) ==
    FlattenSeq([n \in 1..pageCount(items, size) |-> page(items, n - 1, size).items])
=============================================================================
