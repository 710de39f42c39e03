---------------------------- MODULE MCWasiFiles ----------------------------
(* WasiFiles for TLC: an empty file system and one with a pipe; paths that   *)
(* go down, up, nowhere and through a file, with slashes inside and behind.  *)
EXTENDS WasiFiles

TwoNames == {"a", "b"}
OneByte == {0}

Images == {EmptyFs, AddEntry(EmptyFs, 0, "b", Stream)}

Paths == {<<"a">>, <<"a", "", "b">>, <<"..", "b", "">>, <<"b", "", "">>}

OnlyErr == {{2}}

Chunks == {<<0>>}
============================================================================
