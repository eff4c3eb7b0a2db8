-------------------------- MODULE MCSessionRequests -------------------------
(* A small instance of SessionRequests for TLC. *)
EXTENDS SessionRequests

(* Every word of up to two characters alone, and every word of up to one   *)
(* before and after a letter.                                              *)
Chars == {"space", "single", "double", "backslash", "dollar", "a"}
Word1 == SeqOf(Chars, 1)
Word2 == SeqOf(Chars, 2)
MCCommands ==
  [words : {<<w>> : w \in Word2} \cup {<<w, <<"a">> >> : w \in Word1}
             \cup {<< <<"a">>, w>> : w \in Word1},
   how : Quoting]

MCWindows == {<<80, 24, 300, 0>>, <<1, 2, 3, 4>>}
MCPtys ==
  {[term |-> <<120, 116>>, window |-> <<80, 24, 300, 0>>, modes |-> modes] :
     modes \in {<<>>, << <<53, 1>>, <<160, 300>>, <<53, 0>> >>}}
MCX11s ==
  {[single |-> single, protocol |-> <<77>>, data |-> data, screen |-> 16909060] :
     single \in BOOLEAN, data \in {<<>>, <<1, 0>>}}

MCTexts == SeqOf({"CR", "LF", "a"}, 2) \cup {<<"CR", "CR", "LF">>, <<"LF", "CR", "LF">>}
=============================================================================
