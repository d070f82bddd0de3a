------------------------------ MODULE MCRuntime ------------------------------
(* Instances of Runtime for TLC. *)
EXTENDS Runtime

MCName == {"in", "out", "a", "b", "c", "head"}

\* A chain of steps of one node each.
Chain(names) == [k \in DOMAIN names |-> <<names[k]>>]

Flows == {<<>>,
          <<Chain(<<"in", "a", "b", "c", "out">>)>>,
          <<Chain(<<"in", "a", "b", "a", "out">>)>>,
          <<Chain(<<"in", "a", "c", "out">>), Chain(<<"in", "b", "c">>)>>,
          << << <<"in">>, <<"a", "b">>, <<"c">>, <<"out">> >> >>,
          <<Chain(<<"in", "a", "head", "out">>)>>}

MCProgram ==
    {[flow |-> f, declared |-> {"a", "b", "c"}, posts |-> ps, vault |-> vs, found |-> e] :
        f \in Flows, ps \in {{}, {"b"}}, vs \in {{}, {"a"}}, e \in BOOLEAN}
=============================================================================
