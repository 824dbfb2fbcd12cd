------------------------------ MODULE MCPrintk ------------------------------
(***************************************************************************)
(* Calls of printk and snprintk with formats of up to five characters: the *)
(* plain and the control characters of the screen, and directives of every *)
(* type, with flags and sizes, some of them cut off by the format's end.   *)
(***************************************************************************)
EXTENDS Printk

OnScreen(format, args) == [to |-> "screen", len |-> 0, format |-> format, args |-> args]

Fill(len, format, args) ==
    [to |-> "buffer", len |-> len, format |-> format, args |-> args]

Plain ==
    {OnScreen(format, <<>>) : format \in
        {<<"a">>, <<"newline">>, <<"tab">>, <<"a", "return", "b">>, <<"%", "%">>,
         <<"a", "b", "a", "b", "a">>, <<"a", "tab", "newline">>, <<"%">>}}

Shown ==
    {OnScreen(<<"%", "u", "newline">>, <<10>>), OnScreen(<<"%", "l", "u">>, <<300>>),
     OnScreen(<<"a", "%", "s">>, <<Null>>), OnScreen(<<"%", "+">>, <<>>),
     OnScreen(<<"%", "4", "c">>, <<"b">>), OnScreen(<<"%", "0", "3", "d">>, <<-4>>)}

Numbers ==
    {Fill(4, <<"%">> \o flags \o size \o <<type>>, <<n>>) :
        flags \in {<<>>, <<"0">>, <<"-", "#">>, <<"+">>, <<" ", "0">>},
        size \in {<<>>, <<"3">>},
        type \in {"u", "x", "X", "o", "b", "p"}, n \in {0, 10, 255}}
    \union {Fill(4, <<"%">> \o flags \o <<"3", "d">>, <<n>>) :
              flags \in {<<>>, <<"0">>, <<"-">>, <<"+">>, <<" ", "0">>},
              n \in {-100, -7, 0, 12}}

Stored ==
    {Fill(len, <<"a", "%", "d", "%", "b">>, <<-12, 2>>) : len \in 0 .. 7}
    \union {Fill(3, format, <<n>>) : n \in {-255, 9, 256},
              format \in {<<"%", "-", "5", "l", "i">>, <<"%", " ", "4", "l", "d">>}}
    \union {Fill(3, format, <<string>>) : string \in {<<>>, <<"a", "b">>, Null},
              format \in {<<"%", "s">>, <<"%", " ", "s">>, <<"%", "-", "4", "s">>}}
    \union {Fill(2, format, <<>>) : format \in
              {<<"%", "5">>, <<"%", "l">>, <<"%", "0", "-">>, <<"%", "z">>}}

MCCalls == Plain \union Shown \union Numbers \union Stored

MCGlyphs == {"a", "b", "%", "<", ">", "(", "n", ")", " ", "-", "0", "1", "4"}
=============================================================================
