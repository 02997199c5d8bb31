------------------------------ MODULE MCTagHints ------------------------------
(* Tags of every kind the tests of the tag selection use.                    *)
EXTENDS TagHints

T(nums, v, glued, tokens) == [nums |-> nums, v |-> v, glued |-> glued, tokens |-> tokens]
Plain(nums, tokens) == T(nums, FALSE, FALSE, tokens)

MCTags == {
  Plain(<<1>>, <<>>), Plain(<<1, 2>>, <<>>), Plain(<<1, 2, 0>>, <<>>),  \* 1, 1.2, 1.2.0
  Plain(<<2, 0>>, <<"amd64">>), Plain(<<2, 0>>, <<"arm64">>),           \* 2.0-amd64, 2.0-arm64
  Plain(<<3>>, <<>>), Plain(<<2, 1>>, <<>>), T(<<2, 1>>, FALSE, TRUE, <<"rc1">>),  \* 3, 2.1, 2.1rc1
  T(<<1, 3>>, TRUE, FALSE, <<>>), T(<<1, 4>>, TRUE, FALSE, <<>>),       \* v1.3, v1.4
  T(<<7>>, TRUE, FALSE, <<>>), Plain(<<>>, <<"ls">>),                   \* v7, main
  Plain(<<1>>, <<"alpine">>), Plain(<<2>>, <<"alpine", "slim">>),       \* 1-alpine, 2-alpine-slim
  Plain(<<1, 1>>, <<"alpine", "7">>),                                   \* 1.1-alpine3.7
  Plain(<<>>, <<"alpine">>), Plain(<<>>, <<"latest">>),
  Plain(<<>>, <<"develop">>), Plain(<<3, 0>>, <<"develop">>),           \* develop, 3.0-develop
  Plain(<<>>, <<"stable", "alpine">>) }
=============================================================================
