----------------------------- MODULE MCPipeline -----------------------------
(* Three adapters: the second and the third beat the first and are equals. *)
(* One id looks like a suffixed one, one is malformed, and there is too    *)
(* little room for a suffix in two of them: <<1>> is what is left.         *)
EXTENDS PipelineInputs

MCPriority == <<Undeclared, 1, 1>>
MCIds == {<<1>>, <<1, 0>>, <<2>>, <<3>>}
MCOddIds == {<<1, 0>>, <<2>>, <<3>>}
MCMalformed == {<<2>>}
MCStem == [long \in {<<1, 0>>, <<3>>} \X (0..3) |-> <<1>>]

AnyRate == [default |-> {}, min |-> {}, max |-> {}, supported |-> <<>>]
MCPlain == [dtype |-> "scalar", shape |-> <<1>>, channels |-> 1, range |-> {},
            resolution |-> {}, rate |-> AnyRate, named |-> TRUE, tokens |-> TRUE]
MCBroken == [MCPlain EXCEPT !.tokens = FALSE]

Shapes == {<<>>, <<0>>, <<1>>, <<3>>, <<1, 1>>, <<2, 3>>, <<3, 2>>, <<0, 2>>, <<2, 2, 2>>}
Optional(S) == {{}} \cup {{x} : x \in S}

MCInfos ==
  {[MCPlain EXCEPT !.dtype = d, !.shape = s, !.channels = c] :
     d \in {"scalar", "vector3", "matrix", "buffer"}, s \in Shapes, c \in 0..3}
  \cup {[MCPlain EXCEPT !.range = b, !.resolution = s] :
     b \in Optional((0..2) \X (0..2)), s \in Optional(0..3)}
  \cup {[MCPlain EXCEPT !.rate = [default |-> d, min |-> lo, max |-> hi, supported |-> s]] :
     d \in Optional({0, 2, 6}), lo \in Optional({1, 3}), hi \in Optional({3, 7}),
     s \in {<<>>, <<1, 5>>, <<5, 1>>, <<4, 2, 6>>, <<2, 0>>}}
=============================================================================
