------------------------------ MODULE MCBlocks ------------------------------
(* The instance of BlockServe that TLC checks: five bytes in three blocks.    *)
EXTENDS BlockServe

Get(parts) == [job |-> "get", full |-> parts = <<>>, parts |-> parts, touched |-> {}]

One(from, to) == Get(<<[from |-> from, to |-> to]>>)

Populate(touched) ==
    [job |-> "populate", full |-> FALSE, parts |-> <<>>, touched |-> touched]

Split == [job |-> "split", full |-> FALSE, parts |-> <<>>, touched |-> {}]

Full == Get(<<>>)

Multi == Get(<<[from |-> 0, to |-> 0], [from |-> 4, to |-> Nil]>>)

MCJobs == {Full, One(0, 0), One(1, 2), One(1, 3), One(Nil, 4), One(4, 9),
           One(5, Nil), Multi, Populate({0}), Split}

With(p, q, cached, complete, span) ==
    {[work |-> <<p, q, None>>, faults |-> 0, etag |-> 1, live |-> TRUE, complete |-> c,
      span |-> s, cached |-> k] : k \in cached, c \in complete, s \in span}

Faultless(scenarios) == {[s EXCEPT !.faults = MaxFaults] : s \in scenarios}

Miss(p, q) ==
    {[work |-> <<p, q, None>>, faults |-> 0, etag |-> 1, live |-> FALSE, complete |-> FALSE,
      span |-> {}, cached |-> {}]}

(* A GET alone, over the states of the blocks it covers: the whole object, a  *)
(* suffix, a short range across two blocks, a longer one that a span may      *)
(* certify, an end beyond the object, a range past the end, two ranges.       *)
Alone ==
    With(Full, None, SUBSET Blocks, {FALSE}, {{}})
      \cup With(Full, None, {{}, Blocks}, {TRUE}, {{}})
      \cup With(One(Nil, 4), None, SUBSET Blocks, {TRUE}, {{}})
      \cup With(One(Nil, 4), None, {{}, {1}, Blocks}, {FALSE}, {{}})
      \cup With(One(1, 2), None, SUBSET {0, 1}, {FALSE}, {{}})
      \cup With(One(1, 3), None, SUBSET {0, 1}, BOOLEAN, {{0, 1}})
      \cup With(One(4, 9), None, SUBSET {2}, {FALSE}, {{}})
      \cup With(One(5, Nil), None, {{}}, {FALSE}, {{}})
      \cup With(Multi, None, {{}}, {FALSE}, {{}})

(* Two callers that share a fetch or the entry.                               *)
Together ==
    With(One(0, 0), One(0, 0), {{}}, {FALSE}, {{}})
      \cup Faultless(With(One(0, 0), One(1, 3), {{1}}, {FALSE}, {{}}))
      \cup Miss(Populate({0}), Split)
      \cup Miss(Split, Full)

(* Over the last version: a promotion that a new entry overtakes, and two that*)
(* join one fetch while a third stores the block.                             *)
Overtaken ==
    {[work |-> <<Full, Populate({0}), None>>, faults |-> 0, etag |-> 2,
      live |-> TRUE, complete |-> FALSE, span |-> {}, cached |-> Blocks],
     [work |-> <<One(0, 0), Populate({0}), Split>>, faults |-> 0, etag |-> 2,
      live |-> TRUE, complete |-> FALSE, span |-> {}, cached |-> {}]}

MCScenarios == Alone \cup Together \cup Overtaken
=============================================================================
