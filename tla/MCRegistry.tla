----------------------------- MODULE MCRegistry -----------------------------
(* Two adapters.  Both have sensor <<1>>; the second does not write its    *)
(* adapter_id into source, and may have two sensors of one id, one of them *)
(* a buffer, or two buffers of an id at its longest, or two sensors of a   *)
(* malformed id.                                                           *)
EXTENDS Registry

Scalar(id, name) ==
  [id |-> id, source |-> {name},
   info |-> [dtype |-> "scalar", shape |-> <<1>>, channels |-> 1, range |-> {}, resolution |-> {},
             rate |-> [default |-> {}, min |-> {}, max |-> {}, supported |-> <<>>],
             named |-> TRUE, tokens |-> TRUE]]
Buffer(id, name) == [Scalar(id, name) EXCEPT !.info.dtype = "buffer"]

MCResults == <<{<<>>, <<Scalar(<<1>>, 1)>>},
               {<<Scalar(<<1>>, Qualifier), Buffer(<<1>>, Qualifier)>>,
                <<Buffer(<<3>>, Qualifier), Buffer(<<3>>, Qualifier)>>,
                <<Scalar(<<2>>, Qualifier), Scalar(<<2>>, Qualifier)>>}>>
MCMalformed == {<<2>>}
MCStem == [long \in {<<3>>} \X {0} |-> <<4>>]
MCPriority == <<Undeclared, Undeclared>>
Symmetry == Permutations(Callers)
MCSensorIds == {<<1>>, <<1, 0>>, <<3>>, <<4, 0>>}
=============================================================================
