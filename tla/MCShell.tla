------------------------------ MODULE MCShell -------------------------------
(* Shell for TLC: two names for one server, one server on two ports, and a *)
(* name that does not resolve.                                             *)
EXTENDS Shell

Http(host, rest) == <<"http", ":", "/", "/", host>> \o rest

MCAddress == [h \in {<<"h">>, <<"alias">>} |-> "address"]

MCMountUri == {Http("h", <<>>), Http("alias", <<":", "8">>), Http("lost", <<"/">>)}

MCLocalDir == {<<>>, <<<<"d">>>>}
MCHere == <<<<"d">>>>

MCCdPath == {<<".", ".">>}

MCCopyCommand == {[path |-> <<"x">>, recursive |-> FALSE],
                  [path |-> <<"1", ":", "x">>, recursive |-> TRUE],
                  [path |-> Http("lost", <<"/", "x">>), recursive |-> FALSE]}

MCSearchText == {<<"1">>, <<"2">>, <<"d", "/">>}
=============================================================================
