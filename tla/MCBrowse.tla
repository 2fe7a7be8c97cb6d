------------------------------ MODULE MCBrowse ------------------------------
(* A trunk with files, an empty directory and one with entries of its own, *)
(* names that need an escape, a name cut by a space, and a hidden file.    *)
EXTENDS Browse

Dir(at) == [at |-> at, dir |-> TRUE]
File(at) == [at |-> at, dir |-> FALSE]

MCTree ==
    {Dir(<<>>), Dir(<<<<"a">>>>), File(<<<<"b">>>>), File(<<<<"b", " ", "a">>>>), File(<<<<".", "a">>>>),
     File(<<<<"a">>, <<"b">>>>), Dir(<<<<"a">>, <<"a">>>>), Dir(<<<<"a", ".", "a">>>>),
     File(<<<<"a", ".", "a">>, <<"b">>>>)}

MCFleeting == {File(<<<<"b">>>>)}

Authority == <<"http", ":", "/", "/", "host">>

MCHost == {<<"host">>}

MCMountUri ==
    {Authority, Authority \o <<":", "8", "0", "/", "a", "/">>, Authority \o <<"/", "b", "?", "a">>,
     <<"http", ":", "/", "/", "other", "/">>}

MCUserPath ==
    {<<"a">>, <<"b">>, <<".", ".">>, <<".", ".", "/", "b">>, <<"/", "a", "/">>,
     <<".", "/">>, <<"a", ".", "a">>, <<"b", " ", "a">>}
=============================================================================
