------------------------------- MODULE MCScan -------------------------------
(* Files with constants of their own and in a cfg_if with every kind of     *)
(* branch, with a cfg_if that an earlier save has rewritten, and without    *)
(* constants.                                                               *)
EXTENDS Scan

Chain == <<Tok("if"), Tok("attr"), Block(<<"B">>),
           Tok("else"), Tok("if"), Tok("attr"), Tok("attr"), Block(<<OtherStmt, "C">>),
           Tok("else"), Block(<<"D">>)>>

CfgIfFile == <<ConstItem("A"), Macro(Chain)>>
SavedFile == <<ConstItem("A"), Macro(<<ConstTok("B"), ConstTok("C"), ConstTok("D")>>)>>

Sources == {CfgIfFile, SavedFile, <<>>}
=============================================================================
