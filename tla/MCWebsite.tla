------------------------------ MODULE MCWebsite ------------------------------
(* A small instance of Website for TLC: guides that lose a section, skip one *)
(* and have two of one name; a release named as GoReleaser names it and one  *)
(* with the other spellings that the scripts know.                          *)
EXTENDS Website

MCPlain == [Table |-> <<"table">>, of |-> <<"of">>, contents |-> <<"contents">>,
            Quick |-> <<"quick">>, start |-> <<"start">>, Quick_start |-> <<"quick", "start">>,
            Web |-> <<"web">>, And |-> <<>>]

Toc    == <<"Table", "of", "contents">>
Quick  == <<"Quick", "start">>
Quick2 == <<"Quick_start">>
Web    == <<"Web", "And", "contents">>

MCContents == {Toc}

MCGuides == {<<Toc, Quick, Web>>, <<Toc, <<>>, Quick>>, <<Quick2, Quick>>}

MCAssets == <<{<<"keephippo", "linux", "amd64">>, <<"checksums">>},
              {<<"keephippo", "macos", "aarch64">>, <<"keephippo", "windows", "x86_64">>,
               <<"keephippo", "darwin", "amd64">>, <<"linux">>}>>
==============================================================================
