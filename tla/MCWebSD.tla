------------------------------- MODULE MCWebSD -------------------------------
(* Two files in two pieces each: the page sends a and b without a folder;  *)
(* in WebSD.cfg b is sent by a client that names one.                       *)
EXTENDS WebSD, TLC

CONSTANTS a, b

MCUploads == {a, b}
MCSize == a :> 2 @@ b :> 2
MCFileName == a :> <<"x">> @@ b :> <<"y">>
MCFolder == a :> NoFolder @@ b :> <<"d">>
PageFolder == a :> NoFolder @@ b :> NoFolder
MCPaths == {<<"d">>, <<"x">>, <<"d", "y">>}
MCRenames == {<< <<"d">>, <<"e">> >>, << <<"x">>, <<"z">> >>}
=============================================================================
