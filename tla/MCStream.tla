------------------------------ MODULE MCStream ------------------------------
(* Instances of Stream for TLC: answers, prompts and socket data of one to  *)
(* three bytes, the bytes of a body chosen to look like line ends, prompts  *)
(* and heads.                                                               *)
EXTENDS Stream

LineItem(t) == [kind |-> "line", text |-> t]
Prompt == [kind |-> "prompt"]
DataItem(l, b) == [kind |-> "data", link |-> l, body |-> b]

SomeSymbols == Blanks \cup Digits \cup
               {">", "+", "recv", "s1", "s2", "OK", "SEND", "CSQ", "x", "y", "z"}

\* the lengths one to three, in digits that can be cut apart
Binary == <<<<"1">>, <<"1", "0">>, <<"1", "1">>>>

\* an answer, an answer that begins like a head, data for both sockets
SomeWires ==
  { <<LineItem(<<"OK">>), DataItem("s1", <<"x", "\r", "\n">>), LineItem(<<"+", "CSQ">>)>>,
    <<Prompt, LineItem(<<"SEND", "blank", "OK">>), DataItem("s2", <<"+", "recv">>), Prompt>>,
    <<DataItem("s1", <<"x", ">">>), DataItem("s2", <<"y">>), DataItem("s1", <<"z", "y", "x">>)>>,
    <<DataItem("s1", <<"x", "y", "z">>), LineItem(<<"+", "CSQ">>), DataItem("s1", <<"1", "0">>)>> }
=============================================================================
