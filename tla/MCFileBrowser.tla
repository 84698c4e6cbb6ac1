--------------------------- MODULE MCFileBrowser ---------------------------
(***************************************************************************)
(* The browser on small cards.                                             *)
(***************************************************************************)
EXTENDS FileBrowser, TLC

File(n)   == [name |-> n, isDirectory |-> FALSE]
Folder(n) == [name |-> n, isDirectory |-> TRUE]

\* A folder inside a folder, one of them with the name of a folder of the
\* root, an empty folder, and lists longer than the screen.
DeepCard ==
  <<>>         :> <<Folder("a"), File("f"), Folder("e"), File("g"), Folder("b"),
                    File("h")>> @@
  <<"a">>      :> <<Folder("b"), File("f"), Folder("c"), File("g"), File("h")>> @@
  <<"b">>      :> <<File("f"), File("g"), File("h"), File("i"), File("j")>> @@
  <<"a", "b">> :> <<File("x"), File("y")>> @@
  <<"a", "c">> :> <<File("x"), File("y"), File("z"), File("t")>> @@
  <<"e">>      :> <<>>
=============================================================================
