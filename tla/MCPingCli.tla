----------------------------- MODULE MCPingCli -----------------------------
(***************************************************************************)
(* Command lines for TLC.                                                  *)
(***************************************************************************)
EXTENDS PingCli

Opt(text) == [text |-> text, whole |-> FALSE, val |-> 0, wait |-> "none",
              hex |-> -1]

Host == Opt("word")
\* A decimal number of d digits.
Number(n, d) ==
  [text |-> IF n < 0 THEN "-x" ELSE "word", whole |-> TRUE, val |-> n,
   wait |-> IF n > 0 THEN "normal" ELSE "nonpositive",
   hex |-> IF n < 0 THEN -1 ELSE d]
Five == Number(5, 1)
Zero == Number(0, 2)          \* "00"
Minus == Number(-1, 2)
TooBig == Number(65508, 5)
Wide == Number(131072 + 131074, 6)       \* more than an int holds
Huge == Number(1048576, 7)               \* more than a long holds
Tiny == [Host EXCEPT !.wait = "tiny"]    \* "0.001"
NaN  == [Host EXCEPT !.wait = "nan"]
Pad  == [Host EXCEPT !.hex = 32]
LongPad == [Host EXCEPT !.hex = 34]

Options == {Opt(t) : t \in Texts \ {"word"}}
Values  == {Five, Zero, Minus, TooBig, Wide, Huge, Tiny, NaN, Pad, LongPad}

\* Every option with every value and up to three tokens, then longer lines
\* over a few tokens: combinations, repetitions, both orders, and "--"
\* before, between and as an argument.
Few == {Host, Five, Opt("-q"), Opt("-v"), Opt("-f"), Opt("--bsd-flood"),
        Opt("--"), Opt("-S"), Opt("-t")}

UpTo(T, len) == UNION {[1 .. k -> T] : k \in 0 .. len}

Short == UpTo(Options \cup Values \cup {Host}, 3)
Longer == UpTo(Few, 5)
Pairs == {<<a, Five, b, c, Host>> : a \in {Opt(o) : o \in WithArg},
                                    b \in Options, c \in Options \cup Values}
AllArgv == Short \cup Longer \cup Pairs
FewArgv == Short
=============================================================================
