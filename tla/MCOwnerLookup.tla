--------------------------- MODULE MCOwnerLookup ---------------------------
(* Files of up to 12 lines, so that two matches on lines 1 and 2 give the  *)
(* row 12 of a line that exists; a legacy user name, a one-word and a     *)
(* two-word author.                                                       *)
EXTENDS OwnerLookup, TLC

\* name_mapper, display names in pinyin
MCNameMapper == "mogao.zj" :> "Mogao" @@ "yh263208" :> "Shanlu" @@ "wenniu.ly" :> "Wenniu"
MCAuthors == {<<"mogao.zj">>, <<"lisi">>, <<"Zhang", "San">>}
=============================================================================
