---------------------------- MODULE StandardGraph ----------------------------
(***************************************************************************)
(* StandardReductionGraph (planner.hh) with one additional q-gram length.  *)
(* A node is a data type with a similarity; jaccard, not listed here, has  *)
(* the same algorithms as struct_set_sim and no edges either.              *)
(***************************************************************************)
MCNodes      == {"ted", "sed", "jaro_string", "struct_set_sim", "set_hd", "jaro_overlap"}
MCReductions == {"traversal-strings", "label-sets", "3gram", "2gram", "jaro-set"}
MCAlgorithms == {"PASS_JOIN", "PREFIX", "PALLOC", "PARTITION", "TJOIN"}

SetAlgorithms == <<"PREFIX", "PALLOC", "PARTITION">>

MCalgorithms ==
  [ted |-> <<"TJOIN">>, sed |-> <<"PASS_JOIN">>, jaro_string |-> <<>>,
   struct_set_sim |-> SetAlgorithms, set_hd |-> <<"PREFIX">>,
   jaro_overlap |-> SetAlgorithms]

Edge(r, n) == [reduction |-> r, to_node |-> n]

MCedges ==
  [ted |-> <<Edge("traversal-strings", "sed"), Edge("label-sets", "struct_set_sim")>>,
   sed |-> <<Edge("3gram", "struct_set_sim"), Edge("2gram", "struct_set_sim")>>,
   jaro_string |-> <<Edge("jaro-set", "jaro_overlap")>>,
   struct_set_sim |-> <<>>, set_hd |-> <<>>, jaro_overlap |-> <<>>]
==============================================================================
