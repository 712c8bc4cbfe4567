------------------------------ MODULE MCZiqaFS ------------------------------
EXTENDS ZiqaFS

(* Two names of one word, and one of two words that starts with four bytes *)
A == <<Chars(11)>>
B == <<Chars(12)>>
Long == <<Chars(100), Chars(13)>>
MCNames == {A, B}
MCAllNames == {A, B, Long}

(* Together they use every operation; names grow and shrink with and       *)
(* without power failures, contents with direct, indirect and double       *)
(* indirect blocks.                                                        *)
MCWorkloads ==
    { {"create", "mkdir", "unlink"},
      {"mkdir", "unlink", "crash"},
      {"create", "unlink", "link", "rename", "crash"},
      {"create", "write", "copy", "unlink"}, {"create", "write", "truncate"},
      {"create", "write", "crash"}, {"create", "truncate", "copy", "crash"},
      {"create", "multi"}, {"create", "link", "replay"} }

MCPowerFails == { {"create", "write", "crash"} }
MCLongNames == { {"create", "unlink"} }
=============================================================================
