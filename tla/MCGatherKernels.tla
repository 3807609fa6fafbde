-------------------------- MODULE MCGatherKernels ---------------------------
(* Instances of GatherKernels for TLC: a file of one record, one of two with  *)
(* its columns in another order, a uniform one, one with an empty record      *)
(* between two, alone and on top of one another; every mask, every range and  *)
(* every pair and many longer sequences of rows.                              *)
EXTENDS GatherKernels

CONSTANTS single, pair, uniform, gapped

MCFiles == {single, pair, uniform, gapped}
MCRecords == [f \in MCFiles |->
  CASE f = single  -> << 3 >>       [] f = pair   -> << 1, 2 >>
    [] f = uniform -> << 2, 2, 1 >> [] f = gapped -> << 2, 0, 1 >>]

Col(name, size) == [name |-> name, size |-> size]
MCColumns == [f \in MCFiles |->
  IF f = pair THEN << Col("b", 2), Col("a", 1) >> ELSE << Col("a", 1), Col("b", 2) >>]

MCStacks ==
  {<< single >>, << pair >>, << uniform >>, << gapped >>, << single, single >>,
   << pair, single >>, << single, gapped >>, << gapped, pair >>, << uniform, pair >>}
MCWorkers == {1, 2, 3}

MCGathers(n) ==
  {<< >>} \cup [1..2 -> 0..(n - 1)] \cup {[i \in 1..n |-> n - i], [i \in 1..n |-> i - 1],
   [i \in 1..(n + 2) |-> (i * 3) % n], [i \in 1..n |-> i \div 2]}
MCRanges(n) ==
  {<< a, b, k >> : a \in 0..(n - 1), b \in 0..n, k \in {1, 2, 3}}
    \cup {<< a, b, -k >> : a \in 0..(n - 1), b \in -1..(n - 1), k \in {1, 2}}
MCMasks(n) == [1..n -> BOOLEAN]

MCFaults(f) ==
  {{}} \cup {{<< r, k >>} : r \in 0..(Len(MCRecords[f]) - 1), k \in {"magic", "index", "checksum"}}
       \cup {{<< 0, "checksum" >>, << r, "index" >>} : r \in 0..(Len(MCRecords[f]) - 1)}

MCFields ==
  LET gather == {"indices", "output"}
      grid   == {"indices", "output", "grid", "records", "last"}
  IN  [gather |-> gather, gather_bytes |-> gather,
       gather_segment |-> gather \cup {"starts", "base"},
       gather_segment_sorted |-> gather \cup {"starts", "base"},
       gather_segment_bins |-> gather \cup {"bins", "starts", "base"},
       gather_segment_withbins |-> gather \cup {"bins"},
       gather_segment_uniform |-> gather \cup {"grid"},
       gather_segment_uniform_bins |-> gather \cup {"bins", "grid"},
       gather_multirecord_uniform |-> grid,
       gather_multirecord_uniform_bins |-> grid \cup {"bins"},
       gather_multirecord_uniform_withbins |-> grid \cup {"bins"},
       gather_multirecord_strided |-> {"output", "starts", "base", "counts", "step", "stop"},
       copy_multirecord_range |-> {"starts", "base", "counts"},
       gather_segment_mask |-> {"mask", "rows", "output", "selected", "starts", "base"},
       parallel_copy_runs |-> {"src", "dst", "bytes"},
       interleave_records |-> {"src", "sizes", "fields"}]
MCEntries == DOMAIN MCFields
MCLengths(kernel) == [MCFields[kernel] -> 0..2]
=============================================================================
