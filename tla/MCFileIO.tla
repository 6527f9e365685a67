------------------------------- MODULE MCFileIO -------------------------------
(* Contents for FileIO: nothing, exactly a chunk, a chunk and one byte more,  *)
(* two chunks; every byte differs from its neighbours.                       *)
EXTENDS FileIO

SomeContents == {<<>>, <<1, 2>>, <<3, 4, 5>>}
MoreContents == SomeContents \cup {<<6, 7, 8, 9>>}
=============================================================================
