---------------------------- MODULE PingCliProofs ----------------------------
(***************************************************************************)
(* What TLAPS proves of the command line, for argument vectors of any      *)
(* length: accepted flags are usable, and the two passes read a line as    *)
(* one pass would.                                                         *)
(***************************************************************************)
EXTENDS PingCli, SequenceTheorems, ArithmeticLemmas

ShortOptions == Switches \cup WithArg

FlagType == [given: SUBSET (ShortOptions \cup {"--bsd-flood"}),
             num: [Numeric -> Int], interval: Waits, pattern_len: Int,
             source_addr: Nat, host: Nat]

\* Values that options leave are within their ranges ...
NumInRange(n) == /\ n["-m"] \in 0 .. 255 /\ n["-T"] \in 0 .. 255
                 /\ n["-s"] \in 0 .. MAX_DATA
PatternInRange(g, len) == "-p" \in g => len \in 1 .. PING_PATTERN_MAX

\* ... and nothing of root's is set for anyone else.
RootsOwn(g, wait) ==
  root \/ ("-f" \notin g /\ "-l" \notin g /\ wait # "tiny")

\* The flags as parse_info() fills them in.
FlagsInv(f) ==
  /\ f \in FlagType
  /\ NumInRange(f.num)
  /\ PatternInRange(f.given, f.pattern_len)
  /\ RootsOwn(f.given, f.interval)

\* What finalise_flags() promises.
Combination ==
  /\ "--bsd-flood" \in flags.given => "-f" \in flags.given
  /\ ~ {"-f", "-i"} \subseteq flags.given
  /\ "-q" \in flags.given => "-Q" \notin flags.given /\ "-v" \notin flags.given

UsableInv ==
  /\ argv \in Seq(Token) /\ root \in BOOLEAN
  /\ args \in Seq(1 .. Len(argv)) /\ i \in Nat /\ i >= 1
  /\ operands \in Seq(1 .. Len(argv))
  /\ FlagsInv(flags)
  /\ pc \in {"lift", "getopt", "finalise", "done"}
  /\ pc # "done" => verdict = "none"
  /\ verdict = "accepted" => Combination

-----------------------------------------------------------------------------
(* What the steps do.                                                      *)

\* What an option's argument u, token q of the line, makes of the flags.
Taken(o, u, q) ==
  \/ /\ o \in Numeric /\ opt_long(u, o) /\ require_root(o)
     /\ flags' = [Sets(o) EXCEPT !.num[o] = Wrap(u.val)]
  \/ /\ o = "-i" /\ u.wait \notin {"none", "nonpositive"}
     /\ u.wait = "tiny" => root
     /\ flags' = [Sets(o) EXCEPT !.interval = u.wait]
  \/ /\ o = "-p" /\ is_valid_hex(u)
     /\ flags' = [Sets(o) EXCEPT !.pattern_len = u.hex \div 2]
  \/ o = "-S" /\ flags' = [Sets(o) EXCEPT !.source_addr = q]

TakesOperand ==
  /\ Arg(i).text = "word" /\ operands' = Append(operands, args[i])
  /\ i' = i + 1 /\ UNCHANGED <<flags, pc, verdict>>
TakesRest ==
  /\ Arg(i).text = "--" /\ pc' = "finalise"
  /\ operands' = operands \o SubSeq(args, i + 1, Len(args))
  /\ UNCHANGED <<i, flags, verdict>>
TakesSwitch ==
  /\ Arg(i).text \in Switches /\ require_root(Arg(i).text)
  /\ flags' = Sets(Arg(i).text) /\ i' = i + 1
  /\ UNCHANGED <<operands, pc, verdict>>
TakesArgument ==
  /\ Arg(i).text \in WithArg /\ i # Len(args) /\ i' = i + 2
  /\ Taken(Arg(i).text, Arg(i + 1), args[i + 1])
  /\ UNCHANGED <<operands, pc, verdict>>
GivesUp ==
  /\ pc' = "done" /\ verdict' \in {"rejected", "help"} /\ i' \in {i, i + 1, i + 2}
  /\ UNCHANGED <<flags, operands>>

\* A round of getopt() takes an operand, the rest after "--", or an option
\* with what it needs, or ends the parse.
LEMMA GetoptDoes ==
  ASSUME getopt
  PROVE  /\ UNCHANGED <<argv, root, args>> /\ pc = "getopt" /\ i <= Len(args)
         /\ \/ TakesOperand \/ TakesRest \/ TakesSwitch \/ TakesArgument
            \/ GivesUp
<1> DEFINE o == Arg(i).text
<1>1. /\ UNCHANGED <<argv, root, args>> /\ pc = "getopt" /\ i <= Len(args)
      /\ \/ /\ ~IsOption(Arg(i))
            /\ operands' = Append(operands, args[i]) /\ i' = i + 1
            /\ UNCHANGED <<flags, pc, verdict>>
         \/ TakesRest
         \/ o \in Switches /\ case_switch(o) /\ i' = i + 1 /\ UNCHANGED operands
         \/ o \in WithArg /\ case_with_arg(o) /\ i' = i + 2 /\ UNCHANGED operands
         \/ o = "-?" /\ Ends("help") /\ UNCHANGED <<i, operands, flags>>
         \/ Ends("rejected") /\ UNCHANGED <<i, operands, flags>>
  BY DEF getopt, TakesRest
<1>2. CASE /\ ~IsOption(Arg(i))
           /\ operands' = Append(operands, args[i]) /\ i' = i + 1
           /\ UNCHANGED <<flags, pc, verdict>>
  BY <1>1, <1>2 DEF TakesOperand, IsOption
<1>3. CASE o \in Switches /\ case_switch(o) /\ i' = i + 1 /\ UNCHANGED operands
  BY <1>1, <1>3 DEF case_switch, TakesSwitch, GivesUp, Ends
<1>4. CASE o \in WithArg /\ case_with_arg(o) /\ i' = i + 2 /\ UNCHANGED operands
  <2> DEFINE u == Arg(i + 1)
  <2>1. CASE i = Len(args)
    BY <1>1, <1>4, <2>1 DEF case_with_arg, GivesUp, Ends
  <2>2. CASE i # Len(args)
    <3>1. \/ o \in Numeric /\ case_numeric(o, u)
          \/ o = "-i" /\ case_interval(u)
          \/ o = "-p" /\ case_pattern(u)
          \/ /\ o = "-S" /\ flags' = [Sets(o) EXCEPT !.source_addr = args[i + 1]]
             /\ UNCHANGED <<pc, verdict>>
      BY <1>4, <2>2 DEF case_with_arg
    <3> HIDE DEF u, o
    <3>2. \/ Ends("rejected") /\ UNCHANGED flags
          \/ Taken(o, u, args[i + 1]) /\ UNCHANGED <<pc, verdict>>
      BY <3>1 DEF case_numeric, case_interval, case_pattern, Taken
    <3> QED BY <1>1, <1>4, <2>2, <3>2 DEF TakesArgument, GivesUp, Ends, u, o
  <2> QED BY <2>1, <2>2
<1>5. CASE \/ o = "-?" /\ Ends("help") /\ UNCHANGED <<i, operands, flags>>
           \/ Ends("rejected") /\ UNCHANGED <<i, operands, flags>>
  BY <1>1, <1>5 DEF GivesUp, Ends
<1> QED BY <1>1, <1>2, <1>3, <1>4, <1>5

-----------------------------------------------------------------------------
(* FlagsUsable.                                                            *)

\* A position of the vector points to a token.
LEMMA ArgIsToken ==
  ASSUME UsableInv, NEW k \in 1 .. Len(args)
  PROVE  Arg(k) \in Token /\ args[k] \in 1 .. Len(argv) /\ args[k] \in Nat
<1>1. args[k] \in 1 .. Len(argv) /\ argv \in Seq(Token) /\ Len(argv) \in Nat
  BY DEF UsableInv
<1> QED BY <1>1 DEF Arg

\* Writing one field of the flags leaves the others: the options given ...
LEMMA WriteGiven ==
  ASSUME NEW f \in FlagType,
         NEW g \in SUBSET (ShortOptions \cup {"--bsd-flood"}),
         NEW s, s = [f EXCEPT !.given = g]
  PROVE  /\ s \in FlagType /\ s.given = g /\ s.num = f.num
         /\ s.interval = f.interval /\ s.pattern_len = f.pattern_len
         /\ s.source_addr = f.source_addr /\ s.host = f.host
BY DEF FlagType

\* ... a number ...
LEMMA WriteNum ==
  ASSUME NEW f \in FlagType, NEW n \in [Numeric -> Int],
         NEW s, s = [f EXCEPT !.num = n]
  PROVE  /\ s \in FlagType /\ s.given = f.given /\ s.num = n
         /\ s.interval = f.interval /\ s.pattern_len = f.pattern_len
         /\ s.source_addr = f.source_addr
BY DEF FlagType

\* ... the interval ...
LEMMA WriteInterval ==
  ASSUME NEW f \in FlagType, NEW w \in Waits,
         NEW s, s = [f EXCEPT !.interval = w]
  PROVE  /\ s \in FlagType /\ s.given = f.given /\ s.num = f.num
         /\ s.interval = w /\ s.pattern_len = f.pattern_len
         /\ s.source_addr = f.source_addr
BY DEF FlagType

\* ... the length of the pattern ...
LEMMA WritePattern ==
  ASSUME NEW f \in FlagType, NEW w \in Int,
         NEW s, s = [f EXCEPT !.pattern_len = w]
  PROVE  /\ s \in FlagType /\ s.given = f.given /\ s.num = f.num
         /\ s.interval = f.interval /\ s.pattern_len = w
         /\ s.source_addr = f.source_addr
BY DEF FlagType

\* ... and the source address.
LEMMA WriteSource ==
  ASSUME NEW f \in FlagType, NEW w \in Nat,
         NEW s, s = [f EXCEPT !.source_addr = w]
  PROVE  /\ s \in FlagType /\ s.given = f.given /\ s.num = f.num
         /\ s.interval = f.interval /\ s.pattern_len = f.pattern_len
         /\ s.source_addr = w
BY DEF FlagType

\* What is moved down is still in the vector.
LEMMA DropArg ==
  ASSUME NEW S, NEW a \in Seq(S), NEW k \in 1 .. Len(a)
  PROVE  /\ drop_arg(a, k) \in Seq(S) /\ Len(drop_arg(a, k)) = Len(a) - 1
         /\ \A j \in 1 .. Len(a) - 1 :
              drop_arg(a, k)[j] = IF j < k THEN a[j] ELSE a[j + 1]
<1>1. Len(a) \in Nat /\ Len(a) - 1 \in Nat
  OBVIOUS
<1>2. \A j \in 1 .. Len(a) - 1 : (IF j < k THEN a[j] ELSE a[j + 1]) \in S
  BY <1>1
<1>3. drop_arg(a, k) \in [1 .. Len(a) - 1 -> S]
  BY <1>2 DEF drop_arg
<1> QED BY <1>1, <1>3 DEF drop_arg

\* An option is noted in one field only.
LEMMA SetsDoes ==
  ASSUME flags \in FlagType, NEW o \in ShortOptions
  PROVE  /\ Sets(o) \in FlagType /\ Sets(o).given = flags.given \cup {o}
         /\ Sets(o).num = flags.num /\ Sets(o).interval = flags.interval
         /\ Sets(o).pattern_len = flags.pattern_len
         /\ Sets(o).source_addr = flags.source_addr
<1> DEFINE S == ShortOptions \cup {"--bsd-flood"}
           g == flags.given \cup {o}
           s == Sets(o)
<1>1. g \in SUBSET S
  BY DEF FlagType
<1>2. s = [flags EXCEPT !.given = g]
  BY DEF Sets
<1> HIDE DEF g, s
<1>3. /\ s \in FlagType /\ s.given = g /\ s.num = flags.num
      /\ s.interval = flags.interval /\ s.pattern_len = flags.pattern_len
      /\ s.source_addr = flags.source_addr
  BY <1>1, <1>2, WriteGiven
<1> QED BY <1>3 DEF s, g

\* What the argument of an option changes besides.
NumberKept(o, u) ==
  /\ o \in Numeric /\ opt_long(u, o) /\ require_root(o)
  /\ flags'.num = [flags.num EXCEPT ![o] = Wrap(u.val)]
  /\ flags'.interval = flags.interval
  /\ flags'.pattern_len = flags.pattern_len
  /\ flags'.source_addr = flags.source_addr
WaitKept(o, u) ==
  /\ o = "-i" /\ (u.wait = "tiny" => root) /\ flags'.interval = u.wait
  /\ flags'.num = flags.num /\ flags'.pattern_len = flags.pattern_len
  /\ flags'.source_addr = flags.source_addr
PatternKept(o, u) ==
  /\ o = "-p" /\ is_valid_hex(u) /\ flags'.pattern_len = u.hex \div 2
  /\ flags'.num = flags.num /\ flags'.interval = flags.interval
  /\ flags'.source_addr = flags.source_addr
SourceKept(o, q) ==
  /\ o = "-S" /\ flags'.source_addr = q
  /\ flags'.num = flags.num /\ flags'.interval = flags.interval
  /\ flags'.pattern_len = flags.pattern_len

\* An option with an argument is noted and changes one more field.
LEMMA TakenDoes ==
  ASSUME flags \in FlagType, NEW o \in WithArg, NEW u \in Token,
         NEW q \in Nat, Taken(o, u, q)
  PROVE  /\ flags' \in FlagType /\ flags'.given = flags.given \cup {o}
         /\ \/ NumberKept(o, u) \/ WaitKept(o, u) \/ PatternKept(o, u)
            \/ SourceKept(o, q)
<1> DEFINE s == Sets(o)
           w == Wrap(u.val)
           h == u.hex \div 2
           g == flags'
<1>1. /\ s \in FlagType /\ s.given = flags.given \cup {o}
      /\ s.num = flags.num /\ s.interval = flags.interval
      /\ s.pattern_len = flags.pattern_len
      /\ s.source_addr = flags.source_addr
  BY SetsDoes DEF ShortOptions
<1>2. w \in Int
  BY IntAssumption DEF Token, Wrap
<1>3. h \in Int
  BY DEF Token
<1>4. u.wait \in Waits
  BY DEF Token
<1>5. \/ /\ o \in Numeric /\ opt_long(u, o) /\ require_root(o)
         /\ g = [s EXCEPT !.num[o] = w]
      \/ /\ o = "-i" /\ (u.wait = "tiny" => root)
         /\ g = [s EXCEPT !.interval = u.wait]
      \/ /\ o = "-p" /\ is_valid_hex(u) /\ g = [s EXCEPT !.pattern_len = h]
      \/ o = "-S" /\ g = [s EXCEPT !.source_addr = q]
  BY DEF Taken
<1> HIDE DEF s, w, h, g
<1>6. CASE /\ o \in Numeric /\ opt_long(u, o) /\ require_root(o)
           /\ g = [s EXCEPT !.num[o] = w]
  <2> DEFINE n == [s.num EXCEPT ![o] = w]
  <2>1. n \in [Numeric -> Int]
    <3>1. s.num \in [Numeric -> Int]
      BY <1>1 DEF FlagType
    <3> QED BY <1>2, <3>1
  <2>2. g = [s EXCEPT !.num = n]
    BY <1>6
  <2> HIDE DEF n
  <2>3. /\ g \in FlagType /\ g.given = s.given /\ g.num = n
        /\ g.interval = s.interval /\ g.pattern_len = s.pattern_len
        /\ g.source_addr = s.source_addr
    BY <1>1, <2>1, <2>2, WriteNum
  <2> QED BY <1>1, <1>6, <2>3 DEF g, w, n, NumberKept
<1>7. CASE /\ o = "-i" /\ (u.wait = "tiny" => root)
           /\ g = [s EXCEPT !.interval = u.wait]
  <2>1. /\ g \in FlagType /\ g.given = s.given /\ g.num = s.num
        /\ g.interval = u.wait /\ g.pattern_len = s.pattern_len
        /\ g.source_addr = s.source_addr
    BY <1>1, <1>4, <1>7, WriteInterval
  <2> QED BY <1>1, <1>7, <2>1 DEF g, WaitKept
<1>8. CASE o = "-p" /\ is_valid_hex(u) /\ g = [s EXCEPT !.pattern_len = h]
  <2>1. /\ g \in FlagType /\ g.given = s.given /\ g.num = s.num
        /\ g.interval = s.interval /\ g.pattern_len = h
        /\ g.source_addr = s.source_addr
    BY <1>1, <1>3, <1>8, WritePattern
  <2> QED BY <1>1, <1>8, <2>1 DEF g, h, PatternKept
<1>9. CASE o = "-S" /\ g = [s EXCEPT !.source_addr = q]
  <2>1. /\ g \in FlagType /\ g.given = s.given /\ g.num = s.num
        /\ g.interval = s.interval /\ g.pattern_len = s.pattern_len
        /\ g.source_addr = q
    BY <1>1, <1>9, WriteSource
  <2> QED BY <1>1, <1>9, <2>1 DEF g, SourceKept
<1> QED BY <1>5, <1>6, <1>7, <1>8, <1>9

\* The ranges of the options whose value must be small.
LEMMA Bounds ==
  /\ "-m" \in Numeric /\ "-T" \in Numeric /\ "-s" \in Numeric
  /\ Lo["-m"] = 0 /\ Lo["-T"] = 0 /\ Lo["-s"] = 0
  /\ Hi["-m"] = 255 /\ Hi["-T"] = 255 /\ Hi["-s"] = MAX_DATA
  /\ MAX_DATA \in Nat /\ MAX_DATA >= 255
<1>1. "-m" \in Numeric /\ "-T" \in Numeric /\ "-s" \in Numeric
  BY DEF Numeric
<1>2. Lo["-m"] = 0 /\ Lo["-T"] = 0 /\ Lo["-s"] = 0
  BY <1>1 DEF Lo
<1>3. Hi["-m"] = 255 /\ Hi["-T"] = 255 /\ Hi["-s"] = MAX_DATA
  BY <1>1 DEF Hi
<1>4. MAX_DATA \in Nat /\ MAX_DATA >= 255
  BY DEF MAX_DATA
<1> QED BY <1>1, <1>2, <1>3, <1>4

\* Values an accepted argument leaves are in range.
LEMMA TakenInRange ==
  ASSUME INT_MAX >= MAX_DATA, FlagsInv(flags), NEW o \in WithArg,
         NEW u \in Token, NEW q \in Nat, Taken(o, u, q)
  PROVE  FlagsInv(flags')
<1>1. /\ flags \in FlagType /\ NumInRange(flags.num)
      /\ PatternInRange(flags.given, flags.pattern_len)
      /\ RootsOwn(flags.given, flags.interval)
  BY DEF FlagsInv
<1> DEFINE n == flags.num
           n2 == flags'.num
           w == Wrap(u.val)
<1>2. /\ flags' \in FlagType /\ flags'.given = flags.given \cup {o}
      /\ \/ NumberKept(o, u) \/ WaitKept(o, u) \/ PatternKept(o, u)
         \/ SourceKept(o, q)
  BY <1>1, TakenDoes
<1>3. CASE NumberKept(o, u)
  <2>1. /\ n \in [Numeric -> Int] /\ n2 = [n EXCEPT ![o] = w] /\ o \in Numeric
        /\ opt_long(u, o) /\ require_root(o) /\ o # "-p" /\ o # "-f"
        /\ flags'.interval = flags.interval
        /\ flags'.pattern_len = flags.pattern_len
    BY <1>1, <1>3 DEF NumberKept, FlagType, Numeric
  <2> HIDE DEF n, n2, w
  <2>2. u.val \in Int /\ INT_MAX \in Nat
    BY IntAssumption DEF Token
  <2>3. u.val >= Lo[o] /\ u.val <= Hi[o]
    BY <2>1 DEF opt_long
  <2>4. ASSUME o \in {"-m", "-s", "-T"} PROVE w = u.val /\ w \in 0 .. Hi[o]
    <3>1. Lo[o] = 0 /\ Hi[o] \in 0 .. MAX_DATA
      BY <2>4, Bounds
    <3>2. u.val \in 0 .. INT_MAX /\ u.val \in 0 .. Hi[o]
      BY <2>2, <2>3, <3>1, Bounds
    <3> HIDE DEF w
    <3>3. w = u.val
      BY <2>2, <3>2, WrapIdentity DEF Wrap, w
    <3> QED BY <3>2, <3>3
  <2>5. o = "-m" \/ o = "-T" => w \in 0 .. 255
    BY <2>4, Bounds
  <2>6. o = "-s" => w \in 0 .. MAX_DATA
    BY <2>4, Bounds
  <2>7. \A k \in Numeric : n2[k] = IF k = o THEN w ELSE n[k]
    BY <2>1
  <2>8. /\ n2["-m"] = IF "-m" = o THEN w ELSE n["-m"]
        /\ n2["-T"] = IF "-T" = o THEN w ELSE n["-T"]
        /\ n2["-s"] = IF "-s" = o THEN w ELSE n["-s"]
    BY <2>7, Bounds
  <2>9. NumInRange(n)
    BY <1>1 DEF n
  <2>10. NumInRange(n2)
    BY <2>5, <2>6, <2>8, <2>9 DEF NumInRange
  <2>11. RootsOwn(flags'.given, flags'.interval)
    BY <1>1, <1>2, <2>1 DEF RootsOwn, require_root
  <2>12. PatternInRange(flags'.given, flags'.pattern_len)
    BY <1>1, <1>2, <2>1 DEF PatternInRange
  <2> QED BY <1>2, <2>10, <2>11, <2>12 DEF FlagsInv, n2
<1>4. CASE WaitKept(o, u)
  BY <1>1, <1>2, <1>4 DEF WaitKept, FlagsInv, RootsOwn, PatternInRange
<1>5. CASE PatternKept(o, u)
  <2>1. u.hex \in Int
    BY DEF Token
  <2>2. u.hex \div 2 \in 1 .. PING_PATTERN_MAX
    BY <1>5, <2>1 DEF PatternKept, is_valid_hex, PING_PATTERN_MAX
  <2>3. PatternInRange(flags'.given, flags'.pattern_len)
    BY <1>5, <2>2 DEF PatternKept, PatternInRange
  <2> QED BY <1>1, <1>2, <1>5, <2>3 DEF PatternKept, FlagsInv, RootsOwn
<1>6. CASE SourceKept(o, q)
  BY <1>1, <1>2, <1>6 DEF SourceKept, FlagsInv, RootsOwn, PatternInRange
<1> QED BY <1>2, <1>3, <1>4, <1>5, <1>6

\* A switch leaves the values alone.
LEMMA SwitchInRange ==
  ASSUME FlagsInv(flags), NEW o \in Switches, require_root(o),
         flags' = Sets(o)
  PROVE  FlagsInv(flags')
<1>1. flags \in FlagType /\ o \in ShortOptions /\ o # "-p" /\ o # "-l"
  BY DEF FlagsInv, ShortOptions, Switches
<1>2. /\ flags' \in FlagType /\ flags'.given = flags.given \cup {o}
      /\ flags'.num = flags.num /\ flags'.interval = flags.interval
      /\ flags'.pattern_len = flags.pattern_len
  BY <1>1, SetsDoes
<1> QED BY <1>1, <1>2
        DEF FlagsInv, RootsOwn, PatternInRange, require_root

\* So does the long option.
LEMMA LongInRange ==
  ASSUME FlagsInv(flags),
         flags' = [flags EXCEPT !.given = @ \cup {"--bsd-flood"}]
  PROVE  /\ FlagsInv(flags')
         /\ flags'.given = flags.given \cup {"--bsd-flood"}
<1> DEFINE g == flags.given \cup {"--bsd-flood"}
           s == flags'
<1>1. flags \in FlagType
  BY DEF FlagsInv
<1>2. g \in SUBSET (ShortOptions \cup {"--bsd-flood"})
  BY <1>1 DEF FlagType
<1>3. s = [flags EXCEPT !.given = g]
  OBVIOUS
<1> HIDE DEF g, s
<1>4. /\ s \in FlagType /\ s.given = g /\ s.num = flags.num
      /\ s.interval = flags.interval /\ s.pattern_len = flags.pattern_len
  BY <1>1, <1>2, <1>3, WriteGiven
<1> QED BY <1>4 DEF g, s, FlagsInv, RootsOwn, PatternInRange

\* What finalise_flags() leaves of accepted flags.
LEMMA FinaliseDoes ==
  ASSUME FlagsInv(flags), finalise_flags, operands \in Seq(Nat), verdict' = "accepted"
  PROVE  /\ FlagsInv(flags') /\ flags'.num = flags.num
         /\ flags'.source_addr = flags.source_addr
         /\ flags'.given = flags.given
              \ (IF "-q" \in flags.given THEN {"-Q", "-v"} ELSE {})
         /\ operands # <<>> /\ flags'.host = Head(operands)
         /\ ~ {"-f", "-i"} \subseteq flags.given
         /\ "--bsd-flood" \in flags.given => "-f" \in flags.given
<1> DEFINE loud == IF "-q" \in flags.given THEN {"-Q", "-v"} ELSE {}
           g == flags.given \ loud
           h == Head(operands)
           s == flags'
<1>1. flags \in FlagType
  BY DEF FlagsInv
<1>2. /\ ~ {"-f", "-i"} \subseteq flags.given
      /\ "--bsd-flood" \in flags.given => "-f" \in flags.given
      /\ operands # <<>>
      /\ s = [flags EXCEPT !.given = g, !.host = h]
  BY DEF finalise_flags, Ends
<1>3. g \in SUBSET (ShortOptions \cup {"--bsd-flood"}) /\ h \in Nat
  BY <1>1, <1>2 DEF FlagType
<1> HIDE DEF g, h, s
<1>4. /\ s \in FlagType /\ s.given = g /\ s.num = flags.num
      /\ s.interval = flags.interval /\ s.pattern_len = flags.pattern_len
      /\ s.source_addr = flags.source_addr /\ s.host = h
  BY <1>1, <1>2, <1>3 DEF FlagType
<1>5. FlagsInv(s)
  BY <1>4 DEF g, FlagsInv, RootsOwn, PatternInRange
<1> QED BY <1>2, <1>4, <1>5 DEF g, h, s

\* parse_info() starts from zeroed flags.
LEMMA UsableInit == Init => UsableInv
<1> SUFFICES ASSUME Init PROVE UsableInv
  OBVIOUS
<1>1. argv \in Seq(Token) /\ Len(argv) \in Nat /\ root \in BOOLEAN
  BY CliAssumption DEF Init
<1>2. args \in Seq(1 .. Len(argv)) /\ operands \in Seq(1 .. Len(argv))
  <2>1. args = [k \in 1 .. Len(argv) |-> k]
    BY <1>1 DEF Init
  <2> QED BY <1>1, <2>1 DEF Init
<1>3. flags \in FlagType /\ flags.given = {} /\ flags.interval = "none"
      /\ flags.num = [o \in Numeric |-> 0]
  BY DEF Init, Unset, FlagType, Waits
<1>4. NumInRange(flags.num)
  BY <1>3, Bounds DEF NumInRange
<1>5. FlagsInv(flags)
  BY <1>3, <1>4 DEF FlagsInv, PatternInRange, RootsOwn
<1> QED BY <1>1, <1>2, <1>5 DEF Init, UsableInv

\* Every step keeps the flags usable.
LEMMA UsableStep ==
  ASSUME INT_MAX >= MAX_DATA
  PROVE  UsableInv /\ [Next]_vars => UsableInv'
<1> SUFFICES ASSUME UsableInv, [Next]_vars PROVE UsableInv'
  OBVIOUS
<1> DEFINE P == 1 .. Len(argv)
<1>0. /\ argv \in Seq(Token) /\ root \in BOOLEAN /\ Len(argv) \in Nat
      /\ args \in Seq(P) /\ i \in Nat /\ i >= 1 /\ operands \in Seq(P)
      /\ FlagsInv(flags) /\ Len(args) \in Nat
      /\ pc # "done" => verdict = "none"
      /\ verdict = "accepted" => Combination
  BY DEF UsableInv
<1>1. CASE extract_long_opts
  <2>1. UNCHANGED <<argv, root, operands>> /\ pc = "lift" /\ verdict = "none"
    BY <1>0, <1>1 DEF extract_long_opts
  <2>2. CASE pc' = "getopt" /\ i' = 1 /\ UNCHANGED <<args, flags, verdict>>
    BY <1>0, <2>1, <2>2 DEF UsableInv, FlagsInv, RootsOwn
  <2>3. CASE i' = i + 1 /\ UNCHANGED <<args, flags, pc, verdict>>
    BY <1>0, <2>1, <2>3 DEF UsableInv, FlagsInv, RootsOwn
  <2>4. CASE ~LiftEnds /\ apply_long_opt /\ UNCHANGED i
    <3>1. CASE pc' = "done" /\ verdict' \in {"help", "rejected"} /\ UNCHANGED <<args, flags>>
      BY <1>0, <2>1, <2>4, <3>1 DEF UsableInv, FlagsInv, RootsOwn
    <3>2. CASE /\ flags' = [flags EXCEPT !.given = @ \cup {"--bsd-flood"}]
               /\ args' = drop_arg(args, i) /\ UNCHANGED <<pc, verdict>>
      <4>1. i \in 1 .. Len(args)
        BY <1>0, <2>4 DEF LiftEnds
      <4>2. args' \in Seq(P)
        BY <1>0, <3>2, <4>1, DropArg
      <4>3. FlagsInv(flags')
        BY <1>0, <3>2, LongInRange
      <4> QED BY <1>0, <2>1, <2>4, <3>2, <4>2, <4>3 DEF UsableInv, FlagsInv, RootsOwn
    <3> QED BY <2>4, <3>1, <3>2 DEF apply_long_opt, Ends
  <2> QED BY <1>1, <2>2, <2>3, <2>4 DEF extract_long_opts
<1>2. CASE getopt
  <2>1. UNCHANGED <<argv, root, args>> /\ pc = "getopt" /\ i <= Len(args)
    BY <1>2, GetoptDoes
  <2>2. verdict = "none" /\ i \in 1 .. Len(args)
    BY <1>0, <2>1
  <2>3. Arg(i) \in Token /\ args[i] \in P
    BY <2>2, ArgIsToken
  <2>4. CASE TakesOperand
    <3>1. operands' \in Seq(P)
      BY <1>0, <2>3, <2>4 DEF TakesOperand
    <3> QED BY <1>0, <2>1, <2>2, <2>4, <3>1
            DEF TakesOperand, UsableInv, FlagsInv, RootsOwn
  <2>5. CASE TakesRest
    <3>1. operands' \in Seq(P)
      <4> DEFINE t == SubSeq(args, i + 1, Len(args))
      <4>1. \A k \in i + 1 .. Len(args) : args[k] \in P
        BY <1>0
      <4>2. i + 1 \in Int /\ Len(args) \in Int
        BY <1>0
      <4> HIDE DEF P
      <4>3. t \in Seq(P)
        BY <4>1, <4>2, SubSeqProperties
      <4> HIDE DEF t
      <4>4. operands \o t \in Seq(P)
        BY <1>0, <4>3, ConcatProperties
      <4> QED BY <2>5, <4>4 DEF TakesRest, t
    <3> QED BY <1>0, <2>1, <2>2, <2>5, <3>1
            DEF TakesRest, UsableInv, FlagsInv, RootsOwn
  <2>6. CASE TakesSwitch
    <3>1. FlagsInv(flags')
      BY <1>0, <2>6, SwitchInRange DEF TakesSwitch
    <3> QED BY <1>0, <2>1, <2>2, <2>6, <3>1
            DEF TakesSwitch, UsableInv, FlagsInv, RootsOwn
  <2>7. CASE TakesArgument
    <3>1. i + 1 \in 1 .. Len(args)
      BY <1>0, <2>2, <2>7 DEF TakesArgument
    <3>2. Arg(i + 1) \in Token /\ args[i + 1] \in Nat
      BY <3>1, ArgIsToken
    <3>3. FlagsInv(flags')
      BY <1>0, <2>7, <3>2, TakenInRange DEF TakesArgument
    <3> QED BY <1>0, <2>1, <2>2, <2>7, <3>3
            DEF TakesArgument, UsableInv, FlagsInv, RootsOwn
  <2>8. CASE GivesUp
    BY <1>0, <2>1, <2>2, <2>8 DEF GivesUp, UsableInv, FlagsInv, RootsOwn
  <2> QED BY <1>2, <2>4, <2>5, <2>6, <2>7, <2>8, GetoptDoes
<1>3. CASE getopt_end
  BY <1>0, <1>3 DEF getopt_end, UsableInv, FlagsInv, RootsOwn
<1>4. CASE finalise_flags
  <2>1. UNCHANGED <<argv, root, args, i, operands>> /\ pc' = "done"
    BY <1>4 DEF finalise_flags, Ends
  <2>2. CASE verdict' = "accepted"
    <3>1. operands \in Seq(Nat)
      BY <1>0
    <3>2. /\ FlagsInv(flags')
          /\ flags'.given = flags.given
               \ (IF "-q" \in flags.given THEN {"-Q", "-v"} ELSE {})
          /\ ~ {"-f", "-i"} \subseteq flags.given
          /\ "--bsd-flood" \in flags.given => "-f" \in flags.given
      BY <1>0, <1>4, <2>2, <3>1, FinaliseDoes
    <3>3. Combination'
      BY <3>2 DEF Combination
    <3> QED BY <1>0, <2>1, <3>2, <3>3 DEF UsableInv, FlagsInv, RootsOwn
  <2>3. CASE verdict' # "accepted"
    <3>1. FlagsInv(flags')
      <4>1. \/ UNCHANGED flags
            \/ flags' = [flags EXCEPT !.given = @ \
                           (IF "-q" \in flags.given THEN {"-Q", "-v"} ELSE {})]
        BY <1>4, <2>3 DEF finalise_flags, Ends
      <4> DEFINE g == flags.given \
                        (IF "-q" \in flags.given THEN {"-Q", "-v"} ELSE {})
                 s == flags'
      <4>2. CASE UNCHANGED flags
        BY <1>0, <4>2
      <4>3. CASE s = [flags EXCEPT !.given = g]
        <5>1. flags \in FlagType
          BY <1>0 DEF FlagsInv
        <5>2. g \in SUBSET (ShortOptions \cup {"--bsd-flood"})
          BY <5>1 DEF FlagType
        <5>3. g \subseteq flags.given
          OBVIOUS
        <5> HIDE DEF g, s
        <5>4. /\ s \in FlagType /\ s.given = g /\ s.num = flags.num
              /\ s.interval = flags.interval
              /\ s.pattern_len = flags.pattern_len
          BY <4>3, <5>1, <5>2, WriteGiven
        <5> QED BY <1>0, <5>3, <5>4 DEF s, FlagsInv, RootsOwn, PatternInRange
      <4> QED BY <4>1, <4>2, <4>3
    <3> QED BY <1>0, <2>1, <2>3, <3>1 DEF UsableInv, FlagsInv, RootsOwn
  <2> QED BY <2>2, <2>3
<1>5. CASE UNCHANGED vars
  BY <1>0, <1>5 DEF vars, UsableInv, FlagsInv, RootsOwn, Combination
<1> QED BY <1>1, <1>2, <1>3, <1>4, <1>5 DEF Next

\* Whatever the order, number and repetition of the options, the flags that
\* parse_info() accepts are ones the rest of the program can use.  INT_MAX is
\* 2^31 - 1 in the build.
THEOREM AcceptedFlagsUsable ==
  ASSUME INT_MAX >= MAX_DATA
  PROVE  Spec => []FlagsUsable
<1>1. UsableInv => FlagsUsable
  <2> SUFFICES ASSUME UsableInv, Accepted PROVE FlagsUsable
    BY DEF FlagsUsable
  <2>1. FlagsInv(flags) /\ Combination
    BY DEF UsableInv, Accepted
  <2>2. NumInRange(flags.num)
    BY <2>1 DEF FlagsInv
  <2>3. /\ \A o \in {"-m", "-T"} : flags.num[o] \in 0 .. 255
        /\ flags.num["-s"] \in 0 .. MAX_DATA
    BY <2>2 DEF NumInRange
  <2>4. PatternInRange(flags.given, flags.pattern_len)
        /\ RootsOwn(flags.given, flags.interval)
    BY <2>1 DEF FlagsInv
  <2>5. root \/ (flags.given \cap {"-f", "-l"} = {} /\ flags.interval # "tiny")
    BY <2>4 DEF RootsOwn
  <2>6. "-q" \in flags.given => flags.given \cap {"-Q", "-v"} = {}
    BY <2>1 DEF Combination
  <2> QED BY <2>1, <2>3, <2>4, <2>5, <2>6
          DEF FlagsUsable, PatternInRange, Combination
<1> QED BY UsableInit, UsableStep, <1>1, PTL DEF Spec
-----------------------------------------------------------------------------
(* How a line reads.                                                       *)

Roles == {"operand", "option", "argument", "end", "rest"}

\* The role of token k of line a, after that of the token before it.
RoleAfter(a, k, before) ==
  IF before \in {"end", "rest"} THEN "rest"
  ELSE IF before = "option" /\ a[k - 1].text \in WithArg THEN "argument"
  ELSE IF a[k].text = "--" THEN "end"
  ELSE IF IsOption(a[k]) THEN "option" ELSE "operand"

\* r holds the roles of the first n tokens of a.
RolesTo(r, a, n) ==
  /\ r \in [1 .. n -> Roles]
  /\ \A k \in 1 .. n :
       r[k] = RoleAfter(a, k, IF k = 1 THEN "operand" ELSE r[k - 1])

\* Every token has a role.
LEMMA RoleType == \A a, k, b : RoleAfter(a, k, b) \in Roles
BY DEF RoleAfter, Roles

\* The roles of every line exist.
LEMMA RolesExist ==
  ASSUME NEW a, NEW L \in Nat
  PROVE  \E r : RolesTo(r, a, L)
<1> DEFINE S == {n \in Nat : \E r : RolesTo(r, a, n)}
<1>1. 0 \in S
  <2> DEFINE r == [k \in 1 .. 0 |-> "operand"]
  <2>1. RolesTo(r, a, 0)
    BY DEF RolesTo, Roles
  <2> QED BY <2>1
<1>2. ASSUME NEW n \in S PROVE n + 1 \in S
  <2>1. n \in Nat
    OBVIOUS
  <2>2. PICK r : RolesTo(r, a, n)
    BY <1>2
  <2> DEFINE last == RoleAfter(a, n + 1, IF n + 1 = 1 THEN "operand" ELSE r[n])
             s == [k \in 1 .. n + 1 |-> IF k = n + 1 THEN last ELSE r[k]]
  <2>3. last \in Roles
    BY RoleType
  <2> HIDE DEF last
  <2>4. s \in [1 .. n + 1 -> Roles]
    BY <2>1, <2>2, <2>3 DEF RolesTo
  <2>5. ASSUME NEW k \in 1 .. n + 1
        PROVE  s[k] = RoleAfter(a, k, IF k = 1 THEN "operand" ELSE s[k - 1])
    <3>1. CASE k = n + 1
      <4>1. s[k] = last
        BY <3>1
      <4>2. k # 1 => s[k - 1] = r[n]
        BY <2>1, <3>1
      <4> QED BY <3>1, <4>1, <4>2 DEF last
    <3>2. CASE k \in 1 .. n
      <4>1. s[k] = r[k] /\ (k # 1 => s[k - 1] = r[k - 1])
        BY <2>1, <3>2
      <4>2. r[k] = RoleAfter(a, k, IF k = 1 THEN "operand" ELSE r[k - 1])
        BY <2>2, <3>2 DEF RolesTo
      <4> QED BY <4>1, <4>2
    <3> QED BY <2>1, <3>1, <3>2
  <2> HIDE DEF s
  <2>6. RolesTo(s, a, n + 1)
    BY <2>4, <2>5 DEF RolesTo
  <2> QED BY <2>1, <2>6
<1> HIDE DEF S
<1>3. \A n \in Nat : n \in S
  <2>1. S \subseteq Nat
    BY DEF S
  <2> QED BY <1>1, <1>2, <2>1, SetInduction
<1> QED BY <1>3 DEF S

\* Role computes them.
LEMMA RoleIs ==
  ASSUME argv \in Seq(Token)
  PROVE  RolesTo(Role, argv, Len(argv))
<1> DEFINE L == Len(argv)
           Def(h) == [k \in 1 .. L |->
                        RoleAfter(argv, k, IF k = 1 THEN "operand" ELSE h[k - 1])]
           g == CHOOSE h : h = Def(h)
<1>1. L \in Nat
  OBVIOUS
<1>2. Role = g
  BY Zenon DEF Role, RoleAfter
<1>3. PICK r : RolesTo(r, argv, L)
  BY <1>1, RolesExist
<1>4. r = Def(r)
  <2>1. r \in [1 .. L -> Roles]
    BY <1>3 DEF RolesTo
  <2>2. \A k \in 1 .. L :
          r[k] = RoleAfter(argv, k, IF k = 1 THEN "operand" ELSE r[k - 1])
    BY <1>3 DEF RolesTo
  <2> QED BY <1>1, <2>1, <2>2
<1>5. g = Def(g)
  BY <1>4, Zenon
<1> HIDE DEF g
<1>6. \A k \in 1 .. L :
        g[k] = RoleAfter(argv, k, IF k = 1 THEN "operand" ELSE g[k - 1])
  BY <1>5
<1>7. g \in [1 .. L -> Roles]
  BY <1>5, RoleType
<1> QED BY <1>2, <1>6, <1>7 DEF RolesTo

\* e is the first bare "--" of a, or the position past its end.
EndAt(a, e) ==
  /\ e \in 1 .. Len(a) + 1
  /\ e <= Len(a) => a[e].text = "--"
  /\ \A j \in 1 .. e - 1 : a[j].text # "--"

\* r holds the roles of a, no argument of which looks like a long option.
Clear(r, a) ==
  /\ RolesTo(r, a, Len(a))
  /\ \A k \in 1 .. Len(a) :
       r[k] = "argument" => a[k].text \notin Long

\* Before c nothing has ended the options.
Going == {"operand", "option", "argument"}
Before(r, c) == \A k \in 1 .. c - 1 : r[k] \in Going

\* The role of a token before "--".
LEMMA RoleBefore ==
  ASSUME NEW a, NEW k, NEW b \in {"operand", "option", "argument"},
         a[k].text # "--"
  PROVE  RoleAfter(a, k, b) =
           IF b = "option" /\ a[k - 1].text \in WithArg THEN "argument"
           ELSE IF a[k].text # "word" THEN "option" ELSE "operand"
BY DEF RoleAfter, IsOption

\* Nothing before "--" follows it.
LEMMA BeforeEnd ==
  ASSUME NEW a \in Seq(Token), NEW r, NEW e, Clear(r, a), EndAt(a, e)
  PROVE  Before(r, e)
<1> DEFINE B == Going
           S == {n \in Nat : n < e => \A k \in 1 .. n : r[k] \in B}
<1>1. Len(a) \in Nat /\ e \in Nat
  BY DEF EndAt
<1>2. 0 \in S
  OBVIOUS
<1>3. ASSUME NEW n \in S PROVE n + 1 \in S
  <2> SUFFICES ASSUME n + 1 < e PROVE r[n + 1] \in B
    BY <1>1
  <2>1. n \in Nat /\ n + 1 \in 1 .. Len(a) /\ n + 1 \in 1 .. e - 1
    BY <1>1 DEF EndAt
  <2> DEFINE b == IF n + 1 = 1 THEN "operand" ELSE r[(n + 1) - 1]
  <2>2. b \in B
    <3>1. n # 0 => n \in 1 .. n /\ (n + 1) - 1 = n
      BY <2>1
    <3>2. n # 0 => r[n] \in B
      BY <1>1, <1>3, <2>1, <3>1
    <3> QED BY <2>1, <3>1, <3>2 DEF Going
  <2>3. r[n + 1] = RoleAfter(a, n + 1, b)
    BY <2>1 DEF Clear, RolesTo
  <2>4. a[n + 1].text # "--"
    BY <2>1 DEF EndAt
  <2> HIDE DEF b
  <2> QED BY <2>2, <2>3, <2>4, RoleBefore DEF Going
<1> HIDE DEF S
<1>4. \A n \in Nat : n \in S
  <2>1. S \subseteq Nat
    BY DEF S
  <2> QED BY <1>2, <1>3, <2>1, SetInduction
<1>5. e - 1 \in S /\ e - 1 < e
  BY <1>1, <1>4 DEF EndAt
<1> QED BY <1>5 DEF S, Before

\* c does not follow an option that takes it.
Fresh(r, a, c) ==
  c > 1 => ~ (r[c - 1] = "option" /\ a[c - 1].text \in WithArg)

\* Everything after a "--" that is not taken is the rest.
LEMMA AfterEnd ==
  ASSUME NEW a \in Seq(Token), NEW r, Clear(r, a), NEW e \in 1 .. Len(a),
         a[e].text = "--", Before(r, e), Fresh(r, a, e)
  PROVE  r[e] = "end" /\ \A k \in e + 1 .. Len(a) : r[k] = "rest"
<1>1. Len(a) \in Nat /\ e \in 1 .. Len(a) /\ a[e].text = "--"
  OBVIOUS
<1>2. r[e] = "end"
  <2> DEFINE b == IF e = 1 THEN "operand" ELSE r[e - 1]
  <2>1. r[e] = RoleAfter(a, e, b)
    BY <1>1 DEF Clear, RolesTo
  <2>2. b \in Going
    <3>1. e # 1 => e - 1 \in 1 .. e - 1
      BY <1>1
    <3> QED BY <3>1 DEF Before, Going
  <2>3. ~ (b = "option" /\ a[e - 1].text \in WithArg)
    BY <1>1 DEF Fresh
  <2> HIDE DEF b
  <2> QED BY <1>1, <2>1, <2>2, <2>3 DEF RoleAfter, Going
<1> DEFINE S == {n \in Nat : e + 1 + n <= Len(a) => r[e + 1 + n] = "rest"}
<1>3. ASSUME NEW k \in e .. Len(a) - 1, r[k] \in {"end", "rest"}
      PROVE  r[k + 1] = "rest"
  <2>1. k + 1 \in 1 .. Len(a) /\ k + 1 # 1 /\ (k + 1) - 1 = k
    BY <1>1
  <2>2. r[k + 1] = RoleAfter(a, k + 1, r[k])
    BY <2>1 DEF Clear, RolesTo
  <2> QED BY <1>3, <2>2 DEF RoleAfter
<1>4. 0 \in S
  BY <1>1, <1>2, <1>3
<1>5. ASSUME NEW n \in S PROVE n + 1 \in S
  <2> SUFFICES ASSUME e + 1 + (n + 1) <= Len(a)
               PROVE  r[e + 1 + (n + 1)] = "rest"
    OBVIOUS
  <2> DEFINE k == e + 1 + n
  <2>1. n \in Nat /\ k \in e .. Len(a) - 1 /\ k + 1 = e + 1 + (n + 1)
    BY <1>1
  <2>2. r[k] = "rest"
    BY <1>1, <1>5, <2>1
  <2> HIDE DEF k
  <2> QED BY <1>3, <2>1, <2>2
<1> HIDE DEF S
<1>6. \A n \in Nat : n \in S
  <2>1. S \subseteq Nat
    BY DEF S
  <2> QED BY <1>4, <1>5, <2>1, SetInduction
<1>7. ASSUME NEW k \in e + 1 .. Len(a) PROVE r[k] = "rest"
  <2>1. k - (e + 1) \in Nat /\ e + 1 + (k - (e + 1)) = k
    BY <1>1
  <2>2. k - (e + 1) \in S
    BY <1>6, <2>1
  <2> QED BY <1>1, <2>1, <2>2 DEF S
<1> QED BY <1>2, <1>7

\* The role of a token that is not taken.
LEMMA FreshRole ==
  ASSUME NEW a \in Seq(Token), NEW r, Clear(r, a), NEW c \in 1 .. Len(a),
         a[c].text # "--", Before(r, c), Fresh(r, a, c)
  PROVE  r[c] = IF a[c].text # "word" THEN "option" ELSE "operand"
<1> DEFINE b == IF c = 1 THEN "operand" ELSE r[c - 1]
<1>1. Len(a) \in Nat /\ c \in 1 .. Len(a) /\ a[c].text # "--"
  OBVIOUS
<1>2. r[c] = RoleAfter(a, c, b)
  BY <1>1 DEF Clear, RolesTo
<1>3. b \in {"operand", "option", "argument"}
  <2>1. c # 1 => c - 1 \in 1 .. c - 1
    BY <1>1
  <2> QED BY <2>1 DEF Before, Going
<1>4. ~ (b = "option" /\ a[c - 1].text \in WithArg)
  BY <1>1 DEF Fresh
<1> HIDE DEF b
<1> QED BY <1>1, <1>2, <1>3, <1>4, RoleBefore

\* The token after an option that takes an argument is that argument.
LEMMA ArgumentRole ==
  ASSUME NEW a \in Seq(Token), NEW r, Clear(r, a), NEW c \in 1 .. Len(a),
         c < Len(a), r[c] = "option", a[c].text \in WithArg
  PROVE  r[c + 1] = "argument" /\ a[c + 1].text \notin Long
<1>1. Len(a) \in Nat /\ c + 1 \in 1 .. Len(a) /\ c + 1 # 1
      /\ (c + 1) - 1 = c
  OBVIOUS
<1>2. r[c + 1] = RoleAfter(a, c + 1, r[c])
  BY <1>1 DEF Clear, RolesTo
<1>3. r[c + 1] = "argument"
  BY <1>1, <1>2 DEF RoleAfter
<1> QED BY <1>1, <1>3 DEF Clear
-----------------------------------------------------------------------------
(* The two passes.                                                         *)

\* v is a with nothing left out but long options before e.
Compact(a, v, e) ==
  /\ EndAt(a, e) /\ v \in Seq(1 .. Len(a))
  /\ \A j, k \in 1 .. Len(v) : j < k => v[j] < v[k]
  /\ \A j \in 1 .. Len(a) :
       (\A k \in 1 .. Len(v) : v[k] # j) => j < e /\ a[j].text = "--bsd-flood"

\* Where entry n of v stands in a; its entry 0 would stand before a.
Pos(a, v, n) == IF n = 0 THEN 0 ELSE IF n <= Len(v) THEN v[n] ELSE Len(a) + 1

\* Only lifted options stand between two entries.
LEMMA Gap ==
  ASSUME NEW a \in Seq(Token), NEW v, NEW e, Compact(a, v, e),
         NEW n \in 0 .. Len(v)
  PROVE  LET c == Pos(a, v, n)
             d == Pos(a, v, n + 1)
         IN  /\ c \in 0 .. Len(a) /\ d \in 1 .. Len(a) + 1 /\ c < d
             /\ \A j \in c + 1 .. d - 1 : j < e /\ a[j].text = "--bsd-flood"
<1> DEFINE c == Pos(a, v, n)
           d == Pos(a, v, n + 1)
           L == Len(a)
           M == Len(v)
<1>1. L \in Nat /\ M \in Nat /\ e \in 1 .. L + 1 /\ n \in Nat
      /\ \A k \in 1 .. M : v[k] \in 1 .. L
  BY DEF Compact, EndAt
<1>2. \A j, k \in 1 .. M : j < k => v[j] < v[k]
  BY DEF Compact
<1>3. /\ n = 0 => c = 0
      /\ n # 0 => n \in 1 .. M /\ c = v[n]
      /\ n < M => n + 1 \in 1 .. M /\ d = v[n + 1]
      /\ n = M => d = L + 1
  BY <1>1 DEF Pos
<1>4. c \in 0 .. L /\ d \in 1 .. L + 1 /\ c < d
  <2>1. c \in 0 .. L
    BY <1>1, <1>3
  <2>2. d \in 1 .. L + 1
    BY <1>1, <1>3
  <2>3. CASE n = 0
    BY <1>1, <1>3, <2>2, <2>3
  <2>4. CASE n # 0 /\ n = M
    BY <1>1, <1>3, <2>1, <2>4
  <2>5. CASE n # 0 /\ n < M
    <3>1. v[n] < v[n + 1]
      BY <1>1, <1>2, <1>3, <2>5
    <3>2. c = v[n] /\ d = v[n + 1]
      BY <1>3, <2>5
    <3> HIDE DEF c, d
    <3> QED BY <2>1, <2>2, <3>1, <3>2
  <2> QED BY <1>1, <2>1, <2>2, <2>3, <2>4, <2>5
<1> HIDE DEF c, d
<1>5. ASSUME NEW k \in 1 .. M PROVE v[k] <= c \/ v[k] >= d
  <2>1. CASE k = n \/ k = n + 1
    BY <1>1, <1>3, <1>4, <2>1
  <2>2. CASE k < n
    <3>1. v[k] < v[n]
      BY <1>1, <1>2, <1>3, <2>2
    <3> QED BY <1>1, <1>3, <2>2, <3>1
  <2>3. CASE k > n + 1
    <3>1. n + 1 \in 1 .. M
      BY <1>1, <2>3
    <3>2. v[n + 1] < v[k]
      BY <1>1, <1>2, <2>3, <3>1
    <3>3. d = v[n + 1]
      BY <1>1, <1>3, <2>3
    <3> QED BY <1>1, <3>1, <3>2, <3>3
  <2> QED BY <1>1, <2>1, <2>2, <2>3
<1>6. ASSUME NEW j \in c + 1 .. d - 1
      PROVE  j < e /\ a[j].text = "--bsd-flood"
  <2>1. j \in 1 .. L
    BY <1>1, <1>4
  <2>2. \A k \in 1 .. M : v[k] # j
    BY <1>1, <1>4, <1>5
  <2> QED BY <2>1, <2>2 DEF Compact
<1> QED BY <1>1, <1>4, <1>6 DEF c, d

\* Option o stands at k.
At(r, a, o, k) == r[k] = "option" /\ a[k].text = o

\* Its last use before c.
LastAt(r, a, o, k, c) ==
  At(r, a, o, k) /\ \A j \in 1 .. c - 1 : At(r, a, o, j) => j <= k

\* The flags f say what the options before c do.
Known(r, a, f, c) ==
  /\ \A o \in ShortOptions :
       o \in f.given <=> \E k \in 1 .. c - 1 : At(r, a, o, k)
  /\ \A o \in Numeric : \A k \in 1 .. c - 1 :
       LastAt(r, a, o, k, c) /\ a[k + 1].val <= INT_MAX
         => f.num[o] = a[k + 1].val
  /\ \A k \in 1 .. c - 1 :
       LastAt(r, a, "-S", k, c) => f.source_addr = k + 1

\* Tokens that are no short option add nothing.
LEMMA KnownSkip ==
  ASSUME NEW r, NEW a, NEW f, NEW c \in Nat \ {0}, NEW d \in Nat, c <= d,
         Known(r, a, f, c),
         \A j \in c .. d - 1 : r[j] = "option" => a[j].text \notin ShortOptions
  PROVE  Known(r, a, f, d)
<1>1. ASSUME NEW o \in ShortOptions, NEW k \in 1 .. d - 1, At(r, a, o, k)
      PROVE  k \in 1 .. c - 1
  <2>1. k \notin c .. d - 1
    BY <1>1 DEF At
  <2> QED BY <2>1
<1>2. \A k \in 1 .. c - 1 : k \in 1 .. d - 1
  OBVIOUS
<1>3. ASSUME NEW o \in ShortOptions, NEW k \in 1 .. d - 1,
             LastAt(r, a, o, k, d)
      PROVE  k \in 1 .. c - 1 /\ LastAt(r, a, o, k, c)
  BY <1>1, <1>2, <1>3 DEF LastAt
<1>4. Numeric \subseteq ShortOptions /\ "-S" \in ShortOptions
  BY DEF ShortOptions, WithArg
<1>5. \A o \in ShortOptions :
        o \in f.given <=> \E k \in 1 .. d - 1 : At(r, a, o, k)
  BY <1>1, <1>2 DEF Known
<1>6. \A o \in Numeric : \A k \in 1 .. d - 1 :
        LastAt(r, a, o, k, d) /\ a[k + 1].val <= INT_MAX
          => f.num[o] = a[k + 1].val
  BY <1>3, <1>4 DEF Known
<1>7. \A k \in 1 .. d - 1 : LastAt(r, a, "-S", k, d) => f.source_addr = k + 1
  BY <1>3, <1>4 DEF Known
<1> QED BY <1>5, <1>6, <1>7 DEF Known

\* g is f with option o noted, whose argument is q.
Notes(a, f, g, o, q) ==
  /\ g.given = f.given \cup {o}
  /\ o \in Numeric /\ a[q].val <= INT_MAX => g.num[o] = a[q].val
  /\ \A x \in Numeric : x # o => g.num[x] = f.num[x]
  /\ o = "-S" => g.source_addr = q
  /\ o # "-S" => g.source_addr = f.source_addr

\* An option noted at c.
LEMMA KnownNote ==
  ASSUME NEW r, NEW a, NEW f, NEW g, NEW c \in Nat \ {0}, NEW o \in ShortOptions,
         Known(r, a, f, c), At(r, a, o, c), Notes(a, f, g, o, c + 1)
  PROVE  Known(r, a, g, c + 1)
<1>0. /\ g.given = f.given \cup {o}
      /\ o \in Numeric /\ a[c + 1].val <= INT_MAX => g.num[o] = a[c + 1].val
      /\ \A x \in Numeric : x # o => g.num[x] = f.num[x]
      /\ o = "-S" => g.source_addr = c + 1
      /\ o # "-S" => g.source_addr = f.source_addr
  BY DEF Notes
<1>1. 1 .. (c + 1) - 1 = (1 .. c - 1) \cup {c}
  OBVIOUS
<1>2. ASSUME NEW x, x # o, NEW k \in 1 .. (c + 1) - 1, At(r, a, x, k)
      PROVE  k \in 1 .. c - 1
  BY <1>1, <1>2 DEF At
<1>3. ASSUME NEW x, x # o, NEW k \in 1 .. (c + 1) - 1, LastAt(r, a, x, k, c + 1)
      PROVE  k \in 1 .. c - 1 /\ LastAt(r, a, x, k, c)
  BY <1>1, <1>2, <1>3 DEF LastAt
<1>4. ASSUME NEW k \in 1 .. (c + 1) - 1, LastAt(r, a, o, k, c + 1)
      PROVE  k = c
  <2>1. c \in 1 .. (c + 1) - 1
    OBVIOUS
  <2>2. c <= k
    BY <1>4, <2>1 DEF LastAt
  <2> QED BY <2>2
<1>5. ASSUME NEW x \in ShortOptions
      PROVE  x \in g.given <=> \E k \in 1 .. (c + 1) - 1 : At(r, a, x, k)
  <2>1. CASE x = o
    BY <1>0, <1>1, <2>1
  <2>2. CASE x # o
    BY <1>0, <1>1, <1>2, <2>2 DEF Known
  <2> QED BY <2>1, <2>2
<1>6. ASSUME NEW x \in Numeric, NEW k \in 1 .. (c + 1) - 1,
             LastAt(r, a, x, k, c + 1), a[k + 1].val <= INT_MAX
      PROVE  g.num[x] = a[k + 1].val
  <2>1. CASE x = o
    BY <1>0, <1>4, <1>6, <2>1
  <2>2. CASE x # o
    BY <1>0, <1>3, <1>6, <2>2 DEF Known
  <2> QED BY <2>1, <2>2
<1>7. ASSUME NEW k \in 1 .. (c + 1) - 1, LastAt(r, a, "-S", k, c + 1)
      PROVE  g.source_addr = k + 1
  <2>1. CASE o = "-S"
    BY <1>0, <1>4, <1>7, <2>1
  <2>2. CASE o # "-S"
    BY <1>0, <1>3, <1>7, <2>2 DEF Known
  <2> QED BY <2>1, <2>2
<1> QED BY <1>5, <1>6, <1>7 DEF Known

\* h is the first operand before c.
Plain == {"operand", "rest"}
HostAt(r, h, c) ==
  /\ h \in 1 .. c - 1 /\ r[h] \in Plain
  /\ \A k \in 1 .. h - 1 : r[k] \notin Plain

\* ops starts with it, if there is one.
FirstIs(r, ops, c) ==
  /\ ops = <<>> => \A k \in 1 .. c - 1 : r[k] \notin Plain
  /\ ops # <<>> => HostAt(r, Head(ops), c)

\* From e on, where the first pass stopped, no long option stands before c:
\* getopt() would have refused it.
NoneLeft(r, a, e, c) == \A j \in e .. c - 1 : ~At(r, a, "--bsd-flood", j)

\* getopt() at entry n of v has read what stands before it.
Reading(r, a, v, n, ops, f, e) ==
  /\ n \in 1 .. Len(v) + 1
  /\ Before(r, Pos(a, v, n)) /\ NoneLeft(r, a, e, Pos(a, v, n))
  /\ Fresh(r, a, Pos(a, v, n))
  /\ Known(r, a, f, Pos(a, v, n))
  /\ FirstIs(r, ops, Pos(a, v, n))

\* The options and the host of the whole line.
Final(r, a, ops, f) ==
  /\ Known(r, a, f, Len(a) + 1)
  /\ ops # <<>> => HostAt(r, Head(ops), Len(a) + 1)

\* A token before "--" that looks like an option is no operand.
LEMMA NoOperand ==
  ASSUME NEW a \in Seq(Token), NEW r, NEW e, Clear(r, a), EndAt(a, e),
         NEW j \in 1 .. e - 1, a[j].text # "word"
  PROVE  r[j] \notin Plain
<1>1. Len(a) \in Nat /\ e \in Nat /\ j \in 1 .. Len(a) /\ a[j].text # "--"
  BY DEF EndAt
<1> DEFINE b == IF j = 1 THEN "operand" ELSE r[j - 1]
<1>2. r[j] = RoleAfter(a, j, b)
  BY <1>1 DEF Clear, RolesTo
<1>3. b \in {"operand", "option", "argument"}
  <2>1. j # 1 => j - 1 \in 1 .. e - 1
    BY <1>1
  <2> QED BY <2>1, BeforeEnd DEF Before, Going
<1> HIDE DEF b
<1> QED BY <1>1, <1>2, <1>3, RoleBefore DEF Plain

\* Operands seen so far stay the first.
LEMMA FirstSkip ==
  ASSUME NEW r, NEW ops, NEW c \in Nat \ {0}, NEW d \in Nat, c <= d,
         FirstIs(r, ops, c), \A j \in c .. d - 1 : r[j] \notin Plain
  PROVE  FirstIs(r, ops, d)
<1>1. ASSUME ops = <<>>, NEW k \in 1 .. d - 1 PROVE r[k] \notin Plain
  <2>1. k \in 1 .. c - 1 \/ k \in c .. d - 1
    OBVIOUS
  <2> QED BY <1>1, <2>1 DEF FirstIs
<1>2. ASSUME ops # <<>> PROVE HostAt(r, Head(ops), d)
  BY <1>2 DEF FirstIs, HostAt
<1> QED BY <1>1, <1>2 DEF FirstIs

\* From one entry to the next.
LEMMA ReadingNext ==
  ASSUME NEW a \in Seq(Token), NEW r, NEW v, NEW e, NEW f, NEW ops,
         Clear(r, a), Compact(a, v, e), NEW n \in 0 .. Len(v),
         Before(r, Pos(a, v, n) + 1), NoneLeft(r, a, e, Pos(a, v, n) + 1),
         Known(r, a, f, Pos(a, v, n) + 1),
         FirstIs(r, ops, Pos(a, v, n) + 1), Fresh(r, a, Pos(a, v, n) + 1)
  PROVE  Reading(r, a, v, n + 1, ops, f, e)
<1> DEFINE c == Pos(a, v, n)
           d == Pos(a, v, n + 1)
<1>1. /\ c \in 0 .. Len(a) /\ d \in 1 .. Len(a) + 1 /\ c < d
      /\ \A j \in c + 1 .. d - 1 : j < e /\ a[j].text = "--bsd-flood"
  BY Gap
<1>2. EndAt(a, e) /\ Len(a) \in Nat /\ e \in Nat /\ Len(v) \in Nat
  BY DEF Compact, EndAt
<1>3. /\ Known(r, a, f, c + 1) /\ FirstIs(r, ops, c + 1) /\ Fresh(r, a, c + 1)
      /\ Before(r, c + 1) /\ NoneLeft(r, a, e, c + 1)
  OBVIOUS
<1> HIDE DEF c, d
<1>4. "--bsd-flood" \notin ShortOptions /\ "--bsd-flood" # "word"
  BY DEF ShortOptions, Switches, WithArg, Numeric
<1>5. \A j \in c + 1 .. d - 1 : r[j] = "option" => a[j].text \notin ShortOptions
  BY <1>1, <1>4
<1>6. \A j \in c + 1 .. d - 1 : r[j] \notin Plain
  <2> SUFFICES ASSUME NEW j \in c + 1 .. d - 1 PROVE r[j] \notin Plain
    OBVIOUS
  <2>1. j \in 1 .. e - 1 /\ a[j].text # "word"
    BY <1>1, <1>2, <1>4
  <2> QED BY <1>2, <2>1, NoOperand
<1>7. c + 1 \in Nat \ {0} /\ d \in Nat /\ c + 1 <= d
  BY <1>1, <1>2
<1>8. Known(r, a, f, d)
  BY <1>3, <1>5, <1>7, KnownSkip
<1>9. FirstIs(r, ops, d)
  BY <1>3, <1>6, <1>7, FirstSkip
<1>10. Fresh(r, a, d)
  <2>1. CASE d = c + 1
    BY <1>3, <2>1
  <2>2. CASE d # c + 1
    <3>1. d - 1 \in c + 1 .. d - 1
      BY <1>7, <2>2
    <3>2. a[d - 1].text = "--bsd-flood"
      BY <1>1, <3>1
    <3>3. "--bsd-flood" \notin WithArg
      BY <1>4 DEF ShortOptions
    <3> QED BY <3>2, <3>3 DEF Fresh
  <2> QED BY <2>1, <2>2
<1>11. n + 1 \in 1 .. Len(v) + 1
  BY <1>2
<1>12. Before(r, d)
  <2> SUFFICES ASSUME NEW k \in 1 .. d - 1 PROVE r[k] \in Going
    BY DEF Before
  <2>1. CASE k \in 1 .. (c + 1) - 1
    BY <1>3, <2>1 DEF Before
  <2>2. CASE k \in c + 1 .. d - 1
    <3>1. k \in 1 .. e - 1
      BY <1>1, <1>2, <2>2
    <3> QED BY <1>2, <3>1, BeforeEnd DEF Before
  <2> QED BY <1>1, <2>1, <2>2
<1>13. NoneLeft(r, a, e, d)
  <2> SUFFICES ASSUME NEW k \in e .. d - 1 PROVE ~At(r, a, "--bsd-flood", k)
    BY DEF NoneLeft
  <2>1. k \notin c + 1 .. d - 1
    BY <1>1, <1>2
  <2>2. k \in e .. (c + 1) - 1
    BY <1>1, <1>2, <2>1
  <2> QED BY <1>3, <2>2 DEF NoneLeft
<1> QED BY <1>8, <1>9, <1>10, <1>11, <1>12, <1>13 DEF Reading, d

\* Entry n, unless it is "--", and what getopt() knows there.
LEMMA EntryRole ==
  ASSUME NEW a \in Seq(Token), NEW r, NEW v, NEW n, NEW ops, NEW f, NEW e,
         Clear(r, a), Compact(a, v, e), Reading(r, a, v, n, ops, f, e),
         n <= Len(v), a[v[n]].text # "--"
  PROVE  /\ n \in 1 .. Len(v) /\ Pos(a, v, n) = v[n]
         /\ v[n] \in 1 .. Len(a)
         /\ r[v[n]] = IF a[v[n]].text # "word" THEN "option" ELSE "operand"
         /\ Known(r, a, f, v[n]) /\ FirstIs(r, ops, v[n]) /\ EndAt(a, e)
         /\ Before(r, v[n]) /\ NoneLeft(r, a, e, v[n])
<1>1. EndAt(a, e) /\ Len(a) \in Nat /\ e \in Nat /\ Len(v) \in Nat
      /\ v \in Seq(1 .. Len(a))
  BY DEF Compact, EndAt
<1>2. n \in 1 .. Len(v) /\ v[n] \in 1 .. Len(a)
  BY <1>1 DEF Reading
<1>3. Pos(a, v, n) = v[n]
  BY <1>1, <1>2 DEF Pos
<1>4. /\ Fresh(r, a, v[n]) /\ Known(r, a, f, v[n]) /\ FirstIs(r, ops, v[n])
      /\ Before(r, v[n]) /\ NoneLeft(r, a, e, v[n])
  BY <1>3 DEF Reading
<1> QED BY <1>1, <1>2, <1>3, <1>4, FreshRole

\* What the token at c does not change.
LEMMA OneMore ==
  ASSUME NEW a, NEW r, NEW e \in Nat, NEW c \in Nat \ {0}, Before(r, c),
         NoneLeft(r, a, e, c), r[c] \in Going, ~At(r, a, "--bsd-flood", c)
  PROVE  Before(r, c + 1) /\ NoneLeft(r, a, e, c + 1)
<1>1. \A k \in 1 .. (c + 1) - 1 : k \in 1 .. c - 1 \/ k = c
  OBVIOUS
<1>2. \A k \in e .. (c + 1) - 1 : k \in e .. c - 1 \/ k = c
  OBVIOUS
<1> QED BY <1>1, <1>2 DEF Before, NoneLeft

\* An operand is put aside.
LEMMA OperandRead ==
  ASSUME NEW a \in Seq(Token), NEW r, NEW v, NEW n, NEW f, NEW e,
         NEW ops \in Seq(1 .. Len(a)), Clear(r, a), Compact(a, v, e),
         Reading(r, a, v, n, ops, f, e), n <= Len(v), a[v[n]].text = "word"
  PROVE  Reading(r, a, v, n + 1, Append(ops, v[n]), f, e)
<1> DEFINE c == v[n]
           more == Append(ops, c)
<1>1. /\ n \in 1 .. Len(v) /\ Pos(a, v, n) = c /\ c \in 1 .. Len(a)
      /\ r[c] = "operand" /\ Before(r, c) /\ NoneLeft(r, a, e, c)
      /\ Known(r, a, f, c) /\ FirstIs(r, ops, c) /\ EndAt(a, e)
  BY EntryRole
<1>2. more # <<>> /\ Head(more) = IF ops = <<>> THEN c ELSE Head(ops)
  BY <1>1, AppendProperties, HeadTailAppend
<1> HIDE DEF c, more
<1>3. Len(a) \in Nat /\ e \in Nat /\ Len(v) \in Nat
  BY <1>1 DEF EndAt, Compact
<1>4. Known(r, a, f, c + 1)
  <2>1. \A j \in c .. (c + 1) - 1 : r[j] = "option" => a[j].text \notin ShortOptions
    BY <1>1, <1>3
  <2>2. c \in Nat \ {0} /\ c + 1 \in Nat /\ c <= c + 1
    BY <1>1, <1>3
  <2> QED BY <1>1, <2>1, <2>2, KnownSkip
<1>5. FirstIs(r, more, c + 1)
  <2>1. HostAt(r, Head(more), c + 1)
    BY <1>1, <1>2, <1>3, SMTT(30) DEF FirstIs, HostAt, Plain
  <2> QED BY <1>2, <2>1 DEF FirstIs
<1>6. Fresh(r, a, c + 1)
  <2>1. (c + 1) - 1 = c
    BY <1>1, <1>3
  <2> QED BY <1>1, <2>1 DEF Fresh
<1>7. /\ n \in 0 .. Len(v)
      /\ Before(r, c + 1) /\ NoneLeft(r, a, e, c + 1)
  <2>1. r[c] \in Going /\ ~At(r, a, "--bsd-flood", c) /\ c \in Nat \ {0}
    BY <1>1, <1>3 DEF Going, At
  <2>2. Before(r, c + 1) /\ NoneLeft(r, a, e, c + 1)
    BY <1>1, <1>3, <2>1, OneMore
  <2>3. n \in 0 .. Len(v)
    BY <1>1, <1>3
  <2> QED BY <2>2, <2>3
<1>8. Reading(r, a, v, n + 1, more, f, e)
  BY <1>1, <1>4, <1>5, <1>6, <1>7, ReadingNext
<1> QED BY <1>8 DEF more, c

\* A switch is noted.
LEMMA SwitchRead ==
  ASSUME NEW a \in Seq(Token), NEW r, NEW v, NEW n, NEW f, NEW g, NEW e,
         NEW ops, Clear(r, a), Compact(a, v, e),
         Reading(r, a, v, n, ops, f, e), n <= Len(v),
         NEW o \in Switches, a[v[n]].text = o, g.given = f.given \cup {o},
         g.num = f.num, g.source_addr = f.source_addr
  PROVE  Reading(r, a, v, n + 1, ops, g, e)
<1> DEFINE c == v[n]
<1>0. /\ o # "word" /\ o # "--" /\ o \in ShortOptions /\ o \notin WithArg
      /\ o \notin Numeric /\ o # "-S" /\ o # "--bsd-flood"
  BY DEF ShortOptions, Switches, WithArg, Numeric
<1>1. /\ n \in 1 .. Len(v) /\ Pos(a, v, n) = c /\ c \in 1 .. Len(a)
      /\ r[c] = "option" /\ a[c].text = o
      /\ Before(r, c) /\ NoneLeft(r, a, e, c)
      /\ Known(r, a, f, c) /\ FirstIs(r, ops, c) /\ EndAt(a, e)
  BY <1>0, EntryRole
<1> HIDE DEF c
<1>2. Len(a) \in Nat /\ e \in Nat /\ Len(v) \in Nat
  BY <1>1 DEF EndAt, Compact
<1>3. c \in Nat \ {0} /\ c + 1 \in Nat /\ c <= c + 1 /\ (c + 1) - 1 = c
  BY <1>1, <1>2
<1>4. Known(r, a, g, c + 1)
  <2>1. At(r, a, o, c)
    BY <1>1 DEF At
  <2>2. Notes(a, f, g, o, c + 1)
    BY <1>0 DEF Notes
  <2> QED BY <1>0, <1>1, <1>3, <2>1, <2>2, KnownNote
<1>5. FirstIs(r, ops, c + 1)
  <2>1. \A j \in c .. (c + 1) - 1 : r[j] \notin Plain
    BY <1>1, <1>3 DEF Plain
  <2> QED BY <1>1, <1>3, <2>1, FirstSkip
<1>6. Fresh(r, a, c + 1)
  BY <1>0, <1>1, <1>3 DEF Fresh
<1>7. /\ n \in 0 .. Len(v)
      /\ Before(r, c + 1) /\ NoneLeft(r, a, e, c + 1)
  <2>1. r[c] \in Going /\ ~At(r, a, "--bsd-flood", c)
    BY <1>0, <1>1 DEF Going, At
  <2> QED BY <1>1, <1>2, <1>3, <2>1, OneMore
<1> QED BY <1>1, <1>4, <1>5, <1>6, <1>7, ReadingNext

\* An option is noted with its argument.
LEMMA ArgumentRead ==
  ASSUME NEW a \in Seq(Token), NEW r, NEW v, NEW n, NEW f, NEW g, NEW e,
         NEW ops, Clear(r, a), Compact(a, v, e),
         Reading(r, a, v, n, ops, f, e), n <= Len(v), n # Len(v),
         NEW o \in WithArg, a[v[n]].text = o, Notes(a, f, g, o, v[n + 1])
  PROVE  Reading(r, a, v, n + 2, ops, g, e)
<1> DEFINE c == v[n]
           d == v[n + 1]
<1>0. o # "word" /\ o # "--" /\ o \in ShortOptions /\ o # "--bsd-flood"
  BY DEF ShortOptions, WithArg, Numeric
<1>1. /\ n \in 1 .. Len(v) /\ Pos(a, v, n) = c /\ c \in 1 .. Len(a)
      /\ r[c] = "option" /\ a[c].text = o
      /\ Before(r, c) /\ NoneLeft(r, a, e, c)
      /\ Known(r, a, f, c) /\ FirstIs(r, ops, c) /\ EndAt(a, e)
  BY <1>0, EntryRole
<1>2. Len(a) \in Nat /\ e \in Nat /\ Len(v) \in Nat
  BY <1>1 DEF EndAt, Compact
<1>3. n + 1 \in 1 .. Len(v) /\ n \in 0 .. Len(v) /\ n + 1 \in 0 .. Len(v)
      /\ (n + 1) + 1 = n + 2
  BY <1>1, <1>2
<1>4. Pos(a, v, n + 1) = d
  BY <1>2, <1>3 DEF Pos
<1>5. /\ d \in 1 .. Len(a) + 1 /\ c < d
      /\ \A j \in c + 1 .. d - 1 : j < e /\ a[j].text = "--bsd-flood"
  BY <1>1, <1>3, <1>4, Gap
<1>6. d \in 1 .. Len(a)
  BY <1>3, SMTT(30) DEF Compact
<1> HIDE DEF c, d
<1>7. c < Len(a)
  BY <1>1, <1>2, <1>5, <1>6
<1>8. r[c + 1] = "argument" /\ a[c + 1].text \notin Long
  BY <1>1, <1>7, ArgumentRole
<1>9. d = c + 1
  <2>1. ASSUME d # c + 1 PROVE FALSE
    <3>1. c + 1 \in c + 1 .. d - 1
      BY <1>1, <1>2, <1>5, <1>6, <2>1
    <3>2. a[c + 1].text = "--bsd-flood"
      BY <1>5, <3>1
    <3> QED BY <1>8, <3>2 DEF Long
  <2> QED BY <2>1
<1>10. /\ c \in Nat \ {0} /\ d \in Nat \ {0} /\ d + 1 \in Nat
       /\ c <= d + 1 /\ d <= d + 1 /\ (d + 1) - 1 = d
       /\ \A j \in c .. (d + 1) - 1 : j = c \/ j = d
       /\ \A j \in d .. (d + 1) - 1 : j = d
  BY <1>1, <1>2, <1>6, <1>9
<1>11. Known(r, a, g, d + 1)
  <2>1. At(r, a, o, c)
    BY <1>1 DEF At
  <2>2. Notes(a, f, g, o, c + 1)
    BY <1>9 DEF d
  <2>3. Known(r, a, g, c + 1)
    <3>1. c \in Nat \ {0} /\ Known(r, a, f, c)
      BY <1>1, <1>10
    <3> QED BY <1>0, <2>1, <2>2, <3>1, KnownNote
  <2>4. Known(r, a, g, d)
    BY <1>9, <2>3
  <2>5. \A j \in d .. (d + 1) - 1 : r[j] = "option" => a[j].text \notin ShortOptions
    BY <1>8, <1>9, <1>10
  <2> QED BY <1>10, <2>4, <2>5, KnownSkip
<1>12. FirstIs(r, ops, d + 1)
  <2>1. \A j \in c .. (d + 1) - 1 : r[j] \notin Plain
    BY <1>1, <1>8, <1>9, <1>10 DEF Plain
  <2> QED BY <1>1, <1>10, <2>1, FirstSkip
<1>13. Fresh(r, a, d + 1)
  BY <1>8, <1>9, <1>10 DEF Fresh
<1>14. Before(r, d + 1) /\ NoneLeft(r, a, e, d + 1)
  <2>1. r[c] \in Going /\ ~At(r, a, "--bsd-flood", c)
    BY <1>0, <1>1 DEF Going, At
  <2>2. Before(r, d) /\ NoneLeft(r, a, e, d)
    BY <1>1, <1>2, <1>9, <1>10, <2>1, OneMore
  <2>3. r[d] \in Going /\ ~At(r, a, "--bsd-flood", d)
    BY <1>8, <1>9 DEF Going, At
  <2> QED BY <1>2, <1>10, <2>2, <2>3, OneMore
<1>15. Reading(r, a, v, (n + 1) + 1, ops, g, e)
  BY <1>3, <1>4, <1>11, <1>12, <1>13, <1>14, ReadingNext
<1> QED BY <1>3, <1>15

\* getopt() at the end of the vector has read the whole line.
LEMMA EndRead ==
  ASSUME NEW a \in Seq(Token), NEW r, NEW v, NEW n, NEW f, NEW e, NEW ops,
         Compact(a, v, e), Reading(r, a, v, n, ops, f, e), n > Len(v)
  PROVE  Final(r, a, ops, f) /\ NoneLeft(r, a, e, Len(a) + 1)
<1>1. Pos(a, v, n) = Len(a) + 1
  BY DEF Pos, Reading, Compact
<1> QED BY <1>1 DEF Reading, Final, FirstIs

\* So it has at "--", after which everything is an operand.
LEMMA RestRead ==
  ASSUME NEW a \in Seq(Token), NEW r, NEW v, NEW n, NEW f, NEW e,
         NEW ops \in Seq(1 .. Len(a)), Clear(r, a), Compact(a, v, e),
         Reading(r, a, v, n, ops, f, e), n <= Len(v), a[v[n]].text = "--"
  PROVE  /\ Final(r, a, ops \o SubSeq(v, n + 1, Len(v)), f)
         /\ NoneLeft(r, a, e, Len(a) + 1)
<1> DEFINE c == v[n]
           t == SubSeq(v, n + 1, Len(v))
           more == ops \o t
           P == 1 .. Len(a)
           d == Pos(a, v, n + 1)
<1>1. EndAt(a, e) /\ Len(a) \in Nat /\ e \in Nat /\ Len(v) \in Nat
      /\ v \in Seq(P)
  BY DEF Compact, EndAt
<1>2. n \in 1 .. Len(v) /\ c \in 1 .. Len(a) /\ Pos(a, v, n) = c
  BY <1>1 DEF Reading, Pos
<1>3. /\ Known(r, a, f, c) /\ FirstIs(r, ops, c) /\ Fresh(r, a, c)
      /\ Before(r, c) /\ NoneLeft(r, a, e, c)
  BY <1>2 DEF Reading
<1>4. c >= e
  <2>1. ASSUME c < e PROVE FALSE
    <3>1. c \in 1 .. e - 1
      BY <1>1, <1>2, <2>1
    <3> QED BY <1>1, <3>1 DEF EndAt
  <2> QED BY <1>1, <1>2, <2>1
<1>5. r[c] = "end" /\ \A k \in c + 1 .. Len(a) : r[k] = "rest"
  <2>1. a[c].text = "--"
    OBVIOUS
  <2> HIDE DEF c
  <2> QED BY <1>2, <1>3, <2>1, AfterEnd
<1>6. /\ d \in 1 .. Len(a) + 1 /\ c < d
      /\ \A j \in c + 1 .. d - 1 : j < e /\ a[j].text = "--bsd-flood"
  <2>1. n \in 0 .. Len(v)
    BY <1>1, <1>2
  <2> QED BY <1>2, <2>1, Gap
<1>7. d = c + 1
  <2>1. ASSUME d # c + 1 PROVE FALSE
    <3>1. c + 1 \in c + 1 .. d - 1
      BY <1>1, <1>2, <1>6, <2>1, SMTT(30)
    <3>2. c + 1 < e
      BY <1>6, <3>1
    <3> QED BY <1>1, <1>2, <1>4, <3>2
  <2> QED BY <2>1
<1>8. /\ t \in Seq(P) /\ Len(t) = (IF n + 1 <= Len(v) THEN Len(v) - n ELSE 0)
      /\ n + 1 <= Len(v) => t[1] = v[n + 1]
  <2>1. \A k \in n + 1 .. Len(v) : v[k] \in P
    BY <1>1, <1>2, SMTT(30)
  <2>2. n + 1 \in Int /\ Len(v) \in Int
    BY <1>1, <1>2
  <2> DEFINE x == n + 1
             y == Len(v)
  <2> HIDE DEF P, x, y
  <2>3. /\ SubSeq(v, x, y) \in Seq(P)
        /\ Len(SubSeq(v, x, y)) = IF x <= y THEN y - x + 1 ELSE 0
        /\ \A k \in 1 .. y - x + 1 : SubSeq(v, x, y)[k] = v[x + k - 1]
    <3>1. x \in Int /\ y \in Int /\ \A k \in x .. y : v[k] \in P
      BY <2>1, <2>2 DEF x, y
    <3> QED BY <3>1, SubSeqProperties
  <2>4. t = SubSeq(v, x, y)
    BY DEF x, y
  <2> HIDE DEF t
  <2>5. /\ t \in Seq(P) /\ Len(t) = IF x <= y THEN y - x + 1 ELSE 0
        /\ \A k \in 1 .. y - x + 1 : t[k] = v[x + k - 1]
    BY <2>3, <2>4
  <2>6. x \in Nat /\ y \in Nat /\ x = n + 1 /\ y = Len(v)
    BY <1>1, <1>2 DEF x, y
  <2>7. x <= y => t[1] = v[x]
    <3>1. x <= y => 1 \in 1 .. y - x + 1 /\ x + 1 - 1 = x
      BY <2>6
    <3> QED BY <2>5, <3>1
  <2> QED BY <1>1, <1>2, <2>5, <2>6, <2>7
<1> HIDE DEF c, d, t
<1>9. /\ more # <<>> => Head(more) = more[1]
      /\ Len(more) = Len(ops) + Len(t)
      /\ \A k \in 1 .. Len(ops) + Len(t) :
           more[k] = IF k <= Len(ops) THEN ops[k] ELSE t[k - Len(ops)]
  <2> HIDE DEF P
  <2>1. /\ more \in Seq(P) /\ Len(more) = Len(ops) + Len(t)
        /\ \A k \in 1 .. Len(ops) + Len(t) :
             more[k] = IF k <= Len(ops) THEN ops[k] ELSE t[k - Len(ops)]
    <3>1. ops \in Seq(P)
      BY DEF P
    <3> QED BY <1>8, <3>1, ConcatProperties
  <2> HIDE DEF more
  <2> QED BY <2>1
<1>10. Known(r, a, f, Len(a) + 1)
  <2>1. \A j \in c .. (Len(a) + 1) - 1 :
          r[j] = "option" => a[j].text \notin ShortOptions
    <3> SUFFICES ASSUME NEW j \in c .. (Len(a) + 1) - 1
                 PROVE  r[j] \in {"end", "rest"}
      OBVIOUS
    <3>1. j = c \/ j \in c + 1 .. Len(a)
      BY <1>1, <1>2
    <3> QED BY <1>5, <3>1
  <2>2. c \in Nat \ {0} /\ Len(a) + 1 \in Nat /\ c <= Len(a) + 1
    BY <1>1, <1>2
  <2> QED BY <1>3, <2>1, <2>2, KnownSkip
<1>11. ASSUME more # <<>> PROVE HostAt(r, Head(more), Len(a) + 1)
  <2>1. CASE ops # <<>>
    <3>1. Head(more) = Head(ops)
      <4>1. Len(ops) \in Nat /\ Len(ops) >= 1 /\ Head(ops) = ops[1] /\ Len(t) \in Nat
        BY <1>8, <2>1, SMTT(30)
      <4>2. 1 \in 1 .. Len(ops) + Len(t) /\ 1 <= Len(ops)
        BY <4>1
      <4>3. more[1] = ops[1]
        BY <1>9, <4>2
      <4> QED BY <1>9, <1>11, <4>1, <4>3
    <3>2. HostAt(r, Head(ops), c)
      BY <1>3, <2>1 DEF FirstIs
    <3> DEFINE h == Head(ops)
    <3> HIDE DEF more, h
    <3>3. HostAt(r, h, c)
      BY <3>2 DEF h
    <3>4. HostAt(r, h, Len(a) + 1)
      <4>1. h \in 1 .. c - 1 /\ c \in 1 .. Len(a)
        BY <1>2, <3>3 DEF HostAt
      <4>2. h \in 1 .. (Len(a) + 1) - 1
        BY <1>1, <4>1
      <4> QED BY <3>3, <4>2 DEF HostAt
    <3> QED BY <3>1, <3>4 DEF h
  <2>2. CASE ops = <<>>
    <3>1. Len(ops) = 0 /\ Len(t) \in Nat
      BY <1>8, <2>2
    <3>2. Len(t) > 0
      <4>1. more \in Seq(P) => Len(more) # 0
        BY <1>11
      <4>2. more \in Seq(P)
        BY <1>8, ConcatProperties
      <4> HIDE DEF more
      <4> QED BY <1>9, <3>1, <4>1, <4>2
    <3>3. n + 1 <= Len(v) /\ t[1] = v[n + 1]
      BY <1>1, <1>2, <1>8, <3>2
    <3>4. d = v[n + 1]
      BY <1>1, <1>2, <3>3 DEF Pos, d
    <3>5. Head(more) = t[1]
      <4>1. 1 \in 1 .. Len(ops) + Len(t) /\ ~ (1 <= Len(ops)) /\ 1 - Len(ops) = 1
        BY <3>1, <3>2
      <4> QED BY <1>9, <1>11, <4>1
    <3>6. Head(more) = c + 1
      BY <1>7, <3>3, <3>4, <3>5
    <3> HIDE DEF more
    <3>7. c + 1 \in 1 .. Len(a)
      <4>1. v[n + 1] \in P
        BY <1>1, <1>2, <3>3, SMTT(30)
      <4> QED BY <1>7, <3>4, <4>1
    <3>8. r[c + 1] = "rest"
      BY <1>1, <1>2, <1>5, <3>7
    <3>9. \A k \in 1 .. c - 1 : r[k] \notin Plain
      BY <1>3, <2>2 DEF FirstIs
    <3>10. \A k \in 1 .. (c + 1) - 1 : r[k] \notin Plain
      <4>1. r[c] \notin Plain
        BY <1>5 DEF Plain
      <4> QED BY <1>1, <1>2, <3>9, <4>1, SMTT(30)
    <3> QED BY <1>1, <3>6, <3>7, <3>8, <3>10 DEF HostAt, Plain
  <2> QED BY <2>1, <2>2
<1>12. NoneLeft(r, a, e, Len(a) + 1)
  <2> SUFFICES ASSUME NEW j \in e .. (Len(a) + 1) - 1
               PROVE  ~At(r, a, "--bsd-flood", j)
    BY DEF NoneLeft
  <2>1. j \in e .. c - 1 \/ j = c \/ j \in c + 1 .. Len(a)
    BY <1>1, <1>2
  <2> QED BY <1>3, <1>5, <2>1 DEF NoneLeft, At
<1> QED BY <1>10, <1>11, <1>12 DEF Final, t

\* The first pass at entry n of v: v[n] and what follows have moved down by as
\* many places as options were lifted, nothing before is "--", and nothing
\* before is missing but those options.
Lifted(a, v, n, f) ==
  LET d == Len(a) - Len(v)
  IN  /\ v \in Seq(1 .. Len(a)) /\ d >= 0 /\ n \in 1 .. Len(v) + 1
      /\ \A k \in n .. Len(v) : v[k] = k + d
      /\ \A k \in 1 .. n - 1 : v[k] \in 1 .. n + d - 1
      /\ \A j, k \in 1 .. Len(v) : j < k => v[j] < v[k]
      /\ \A j \in 1 .. n + d - 1 :
           /\ a[j].text # "--"
           /\ (\A k \in 1 .. Len(v) : v[k] # j) => a[j].text = "--bsd-flood"
      /\ f.given \subseteq {"--bsd-flood"}
      /\ "--bsd-flood" \in f.given <=>
           \E j \in 1 .. n + d - 1 : a[j].text = "--bsd-flood"

\* It starts with the line as received.
LEMMA LiftStart ==
  ASSUME NEW a \in Seq(Token), NEW v, v = [k \in 1 .. Len(a) |-> k], NEW f,
         f.given = {}
  PROVE  Lifted(a, v, 1, f)
<1>1. Len(a) \in Nat /\ v \in Seq(1 .. Len(a)) /\ Len(v) = Len(a)
  OBVIOUS
<1>2. Len(a) - Len(v) = 0 /\ 1 + 0 - 1 = 0
  BY <1>1
<1>3. \A k \in 1 .. Len(v) : v[k] = k
  BY <1>1
<1> HIDE DEF Lifted
<1> QED BY <1>1, <1>2, <1>3 DEF Lifted

\* An entry that is no long option stays.
LEMMA LiftSkip ==
  ASSUME NEW a \in Seq(Token), NEW v, NEW n, NEW f, Lifted(a, v, n, f),
         n <= Len(v), a[v[n]].text \notin Long \cup {"--"}
  PROVE  Lifted(a, v, n + 1, f)
<1> DEFINE d == Len(a) - Len(v)
<1>1. /\ v \in Seq(1 .. Len(a)) /\ d >= 0 /\ n \in 1 .. Len(v) + 1
      /\ Len(a) \in Nat /\ Len(v) \in Nat /\ d \in Nat /\ n \in Nat
  BY DEF Lifted
<1>2. /\ \A k \in n .. Len(v) : v[k] = k + d
      /\ \A k \in 1 .. n - 1 : v[k] \in 1 .. n + d - 1
      /\ \A j, k \in 1 .. Len(v) : j < k => v[j] < v[k]
  BY DEF Lifted
<1>3. /\ \A j \in 1 .. n + d - 1 :
           /\ a[j].text # "--"
           /\ (\A k \in 1 .. Len(v) : v[k] # j) => a[j].text = "--bsd-flood"
      /\ f.given \subseteq {"--bsd-flood"}
      /\ "--bsd-flood" \in f.given <=>
           \E j \in 1 .. n + d - 1 : a[j].text = "--bsd-flood"
  BY DEF Lifted
<1>4. n \in 1 .. Len(v) /\ n + 1 \in 1 .. Len(v) + 1
  BY <1>1
<1> HIDE DEF d
<1>5. v[n] = n + d
  BY <1>1, <1>2, <1>4
<1>6. \A j \in 1 .. (n + 1) + d - 1 : j \in 1 .. n + d - 1 \/ j = v[n]
  BY <1>1, <1>5
<1>7. \A j \in 1 .. n + d - 1 : j \in 1 .. (n + 1) + d - 1
  BY <1>1
<1>8. "--bsd-flood" \in Long
  BY DEF Long
<1>9. \A k \in 1 .. (n + 1) - 1 : v[k] \in 1 .. (n + 1) + d - 1
  <2> SUFFICES ASSUME NEW k \in 1 .. (n + 1) - 1
               PROVE  v[k] \in 1 .. (n + 1) + d - 1
    OBVIOUS
  <2>1. CASE k = n
    BY <1>1, <1>5, <2>1
  <2>2. CASE k \in 1 .. n - 1
    BY <1>2, <1>7, <2>2
  <2> QED BY <1>1, <2>1, <2>2
<1>10. \A k \in n + 1 .. Len(v) : v[k] = k + d
  BY <1>1, <1>2
<1>11. \A j \in 1 .. (n + 1) + d - 1 :
         /\ a[j].text # "--"
         /\ (\A k \in 1 .. Len(v) : v[k] # j) => a[j].text = "--bsd-flood"
  BY <1>3, <1>4, <1>6
<1>12. "--bsd-flood" \in f.given <=>
         \E j \in 1 .. (n + 1) + d - 1 : a[j].text = "--bsd-flood"
  BY <1>3, <1>6, <1>7, <1>8
<1> QED BY <1>1, <1>2, <1>3, <1>4, <1>9, <1>10, <1>11, <1>12 DEF Lifted, d

\* A long option is lifted out.
LEMMA LiftDrop ==
  ASSUME NEW a \in Seq(Token), NEW v, NEW n, NEW f, NEW g,
         Lifted(a, v, n, f), n <= Len(v), a[v[n]].text = "--bsd-flood",
         g.given = f.given \cup {"--bsd-flood"}
  PROVE  Lifted(a, drop_arg(v, n), n, g)
<1> DEFINE d == Len(a) - Len(v)
           w == drop_arg(v, n)
           z == Len(a) - Len(w)
<1>1. /\ v \in Seq(1 .. Len(a)) /\ d >= 0 /\ n \in 1 .. Len(v) + 1
      /\ Len(a) \in Nat /\ Len(v) \in Nat /\ d \in Nat /\ n \in Nat
  BY DEF Lifted
<1>2. /\ \A k \in n .. Len(v) : v[k] = k + d
      /\ \A k \in 1 .. n - 1 : v[k] \in 1 .. n + d - 1
      /\ \A j, k \in 1 .. Len(v) : j < k => v[j] < v[k]
  BY DEF Lifted
<1>3. /\ \A j \in 1 .. n + d - 1 :
           /\ a[j].text # "--"
           /\ (\A k \in 1 .. Len(v) : v[k] # j) => a[j].text = "--bsd-flood"
      /\ f.given \subseteq {"--bsd-flood"}
  BY DEF Lifted
<1>4. n \in 1 .. Len(v)
  BY <1>1
<1>5. /\ w \in Seq(1 .. Len(a)) /\ Len(w) = Len(v) - 1
      /\ \A j \in 1 .. Len(v) - 1 : w[j] = IF j < n THEN v[j] ELSE v[j + 1]
  BY <1>1, <1>4, DropArg
<1>6. z = d + 1 /\ z \in Nat /\ z >= 0 /\ n \in 1 .. Len(w) + 1
      /\ Len(w) \in Nat
  BY <1>1, <1>4, <1>5
<1> HIDE DEF d, w, z
<1>7. v[n] = n + d
  BY <1>1, <1>2, <1>4
<1>8. \A k \in n .. Len(w) : w[k] = k + z
  <2> SUFFICES ASSUME NEW k \in n .. Len(w) PROVE w[k] = k + z
    OBVIOUS
  <2>1. /\ k \in 1 .. Len(v) - 1 /\ ~ (k < n) /\ k + 1 \in n .. Len(v)
        /\ (k + 1) + d = k + z
    BY <1>1, <1>5, <1>6
  <2>2. w[k] = v[k + 1] /\ v[k + 1] = (k + 1) + d
    BY <1>2, <1>5, <2>1
  <2> QED BY <2>1, <2>2
<1>9. \A k \in 1 .. n - 1 : w[k] \in 1 .. n + z - 1
  <2> SUFFICES ASSUME NEW k \in 1 .. n - 1 PROVE w[k] \in 1 .. n + z - 1
    OBVIOUS
  <2>1. k \in 1 .. Len(v) - 1 /\ k < n
    BY <1>1, <1>4
  <2>2. w[k] = v[k] /\ v[k] \in 1 .. n + d - 1
    BY <1>2, <1>5, <2>1
  <2> QED BY <1>1, <1>6, <2>2
<1>10. \A j, k \in 1 .. Len(w) : j < k => w[j] < w[k]
  <2> SUFFICES ASSUME NEW j \in 1 .. Len(w), NEW k \in 1 .. Len(w), j < k
               PROVE  w[j] < w[k]
    OBVIOUS
  <2>0. j < k
    OBVIOUS
  <2>1. /\ j \in 1 .. Len(v) - 1 /\ k \in 1 .. Len(v) - 1
        /\ j \in 1 .. Len(v) /\ k \in 1 .. Len(v)
        /\ j + 1 \in 1 .. Len(v) /\ k + 1 \in 1 .. Len(v)
        /\ j < k + 1 /\ j + 1 < k + 1
    <3> DEFINE p == Len(v)
               q == Len(w)
    <3>1. p \in Nat /\ q \in Nat /\ q = p - 1
      BY <1>1, <1>5, <1>6
    <3>2. j \in 1 .. q /\ k \in 1 .. q
      OBVIOUS
    <3> HIDE DEF p, q
    <3>3. /\ j \in 1 .. p - 1 /\ k \in 1 .. p - 1
          /\ j \in 1 .. p /\ k \in 1 .. p
          /\ j + 1 \in 1 .. p /\ k + 1 \in 1 .. p
          /\ j < k + 1 /\ j + 1 < k + 1
      BY <2>0, <3>1, <3>2
    <3> QED BY <3>3 DEF p
  <2>2. v[j] < v[k] /\ v[j] < v[k + 1] /\ v[j + 1] < v[k + 1]
    BY <1>2, <2>1
  <2>3. /\ w[j] = IF j < n THEN v[j] ELSE v[j + 1]
        /\ w[k] = IF k < n THEN v[k] ELSE v[k + 1]
    BY <1>5, <2>1
  <2>4. k < n => j < n
    BY <1>1, <2>1
  <2> QED BY <2>2, <2>3, <2>4
<1>11. \A j \in 1 .. n + z - 1 : j \in 1 .. n + d - 1 \/ j = v[n]
  BY <1>1, <1>6, <1>7
<1>12. ASSUME NEW j \in 1 .. n + z - 1
       PROVE  /\ a[j].text # "--"
              /\ (\A k \in 1 .. Len(w) : w[k] # j) => a[j].text = "--bsd-flood"
  <2>1. CASE j = v[n]
    BY <2>1
  <2>2. CASE j \in 1 .. n + d - 1 /\ j # v[n]
    <3>1. ASSUME NEW k \in 1 .. Len(v), v[k] = j
          PROVE  \E x \in 1 .. Len(w) : w[x] = j
      <4>1. CASE k < n
        <5>1. k \in 1 .. Len(w)
          BY <1>1, <1>4, <1>5, <4>1
        <5>2. w[k] = v[k]
          BY <1>5, <4>1, <5>1
        <5> QED BY <3>1, <5>1, <5>2
      <4>2. CASE k > n
        <5>1. k - 1 \in 1 .. Len(w) /\ ~ (k - 1 < n) /\ (k - 1) + 1 = k
          BY <1>1, <1>4, <1>5, <4>2
        <5>2. w[k - 1] = v[k]
          BY <1>5, <5>1
        <5> QED BY <3>1, <5>1, <5>2
      <4>3. k # n
        BY <2>2, <3>1
      <4> QED BY <1>1, <4>1, <4>2, <4>3
    <3> QED BY <1>3, <2>2, <3>1
  <2> QED BY <1>11, <2>1, <2>2
<1>13. v[n] \in 1 .. n + z - 1
  BY <1>1, <1>4, <1>6, <1>7
<1>14. /\ g.given \subseteq {"--bsd-flood"}
       /\ "--bsd-flood" \in g.given <=>
            \E j \in 1 .. n + z - 1 : a[j].text = "--bsd-flood"
  BY <1>3, <1>13
<1>15. Lifted(a, w, n, g)
  BY <1>5, <1>6, <1>8, <1>9, <1>10, <1>12, <1>14 DEF Lifted, z
<1> QED BY <1>15 DEF w

\* The long option was given before "--".
LongGiven(a, f, e) ==
  "--bsd-flood" \in f.given <=> \E j \in 1 .. e - 1 : a[j].text = "--bsd-flood"

\* The first pass leaves a vector getopt() can read.
LEMMA LiftEnd ==
  ASSUME NEW a \in Seq(Token), NEW v, NEW n, NEW f, Lifted(a, v, n, f),
         n <= Len(v) => a[v[n]].text = "--"
  PROVE  \E e : /\ Compact(a, v, e) /\ LongGiven(a, f, e)
                /\ \A r : Clear(r, a) => Reading(r, a, v, 1, <<>>, f, e)
<1> DEFINE d == Len(a) - Len(v)
           e == n + d
<1>1. /\ v \in Seq(1 .. Len(a)) /\ d >= 0 /\ n \in 1 .. Len(v) + 1
      /\ Len(a) \in Nat /\ Len(v) \in Nat /\ d \in Nat /\ n \in Nat
  BY DEF Lifted
<1>2. /\ \A k \in n .. Len(v) : v[k] = k + d
      /\ \A j, k \in 1 .. Len(v) : j < k => v[j] < v[k]
  BY DEF Lifted
<1>3. /\ \A j \in 1 .. e - 1 :
           /\ a[j].text # "--"
           /\ (\A k \in 1 .. Len(v) : v[k] # j) => a[j].text = "--bsd-flood"
      /\ f.given \subseteq {"--bsd-flood"} /\ LongGiven(a, f, e)
  BY DEF Lifted, LongGiven
<1>4. EndAt(a, e)
  <2>1. e \in 1 .. Len(a) + 1
    BY <1>1
  <2>2. e <= Len(a) => n \in n .. Len(v) /\ n <= Len(v)
    BY <1>1
  <2>3. e <= Len(a) => a[e].text = "--"
    BY <1>2, <2>2
  <2> QED BY <1>3, <2>1, <2>3 DEF EndAt
<1>5. ASSUME NEW j \in 1 .. Len(a), \A k \in 1 .. Len(v) : v[k] # j
      PROVE  j < e /\ a[j].text = "--bsd-flood"
  <2>1. j < e
    <3>1. ASSUME j >= e PROVE FALSE
      <4>1. j - d \in n .. Len(v) /\ j - d \in 1 .. Len(v) /\ (j - d) + d = j
        BY <1>1, <3>1
      <4> HIDE DEF d
      <4>2. v[j - d] = j
        BY <1>2, <4>1
      <4> QED BY <1>5, <4>1, <4>2
    <3> QED BY <1>1, <3>1
  <2>2. j \in 1 .. e - 1
    BY <1>1, <2>1
  <2> QED BY <1>3, <1>5, <2>1, <2>2
<1>6. Compact(a, v, e)
  BY <1>1, <1>2, <1>4, <1>5 DEF Compact
<1>7. e \in Nat /\ 0 < e
  BY <1>1
<1> HIDE DEF e, d
<1>8. ASSUME NEW r, Clear(r, a) PROVE Reading(r, a, v, 1, <<>>, f, e)
  <2>1. Pos(a, v, 0) = 0 /\ 0 + 1 = 1 /\ 0 \in 0 .. Len(v)
    BY <1>1 DEF Pos
  <2>2. "--bsd-flood" \notin ShortOptions
    BY DEF ShortOptions, Switches, WithArg, Numeric
  <2>3. Known(r, a, f, 1)
    BY <1>3, <2>2 DEF Known
  <2>4. FirstIs(r, <<>>, 1)
    BY DEF FirstIs
  <2>5. Fresh(r, a, 1)
    BY DEF Fresh
  <2>7. Before(r, 1) /\ NoneLeft(r, a, e, 1)
    BY <1>7 DEF Before, NoneLeft
  <2>6. Reading(r, a, v, 0 + 1, <<>>, f, e)
    BY <1>6, <1>8, <2>1, <2>3, <2>4, <2>5, <2>7, ReadingNext
  <2> QED BY <2>1, <2>6
<1> QED BY <1>3, <1>6, <1>8

\* The long option is in force exactly when it was given.
LongRead(r, a, f) ==
  "--bsd-flood" \in f.given <=>
    \E k \in 1 .. Len(a) : At(r, a, "--bsd-flood", k)

\* On a clear line the first pass lifts what stands as an option.
LEMMA LongIsRead ==
  ASSUME NEW a \in Seq(Token), NEW r, NEW f, NEW e, Clear(r, a), EndAt(a, e),
         LongGiven(a, f, e), NoneLeft(r, a, e, Len(a) + 1)
  PROVE  LongRead(r, a, f)
<1>1. Len(a) \in Nat /\ e \in Nat /\ e \in 1 .. Len(a) + 1
  BY DEF EndAt
<1>2. ASSUME NEW j \in 1 .. e - 1, a[j].text = "--bsd-flood"
      PROVE  j \in 1 .. Len(a) /\ At(r, a, "--bsd-flood", j)
  <2>1. j \in 1 .. Len(a)
    BY <1>1
  <2>2. r[j] \in {"operand", "option", "argument"}
    BY BeforeEnd DEF Before, Going
  <2>3. r[j] # "operand"
    BY <1>2, NoOperand DEF Plain
  <2>4. r[j] # "argument"
    BY <1>2, <2>1 DEF Clear, Long
  <2> QED BY <1>2, <2>1, <2>2, <2>3, <2>4 DEF At
<1>3. ASSUME NEW k \in 1 .. Len(a), At(r, a, "--bsd-flood", k)
      PROVE  k \in 1 .. e - 1 /\ a[k].text = "--bsd-flood"
  <2>1. ASSUME k >= e PROVE FALSE
    <3>1. k \in e .. (Len(a) + 1) - 1
      BY <1>1, <2>1
    <3> QED BY <1>3, <3>1 DEF NoneLeft
  <2>2. k \in 1 .. e - 1
    BY <1>1, <2>1
  <2> QED BY <1>3, <2>2 DEF At
<1> QED BY <1>2, <1>3 DEF LongGiven, LongRead

\* An option with an argument is noted as Notes() says.
LEMMA TakenNotes ==
  ASSUME flags \in FlagType, NEW o \in WithArg, NEW a, NEW q \in Nat,
         a[q] \in Token, Taken(o, a[q], q)
  PROVE  Notes(a, flags, flags', o, q)
<1> DEFINE u == a[q]
           x == u.val
<1>1. /\ u \in Token /\ x \in Int
  BY DEF Token
<1>2. /\ flags' \in FlagType /\ flags'.given = flags.given \cup {o}
      /\ \/ NumberKept(o, u) \/ WaitKept(o, u) \/ PatternKept(o, u)
         \/ SourceKept(o, q)
  BY TakenDoes
<1>3. /\ "-i" \notin Numeric /\ "-p" \notin Numeric /\ "-S" \notin Numeric
  BY DEF Numeric
<1>4. CASE NumberKept(o, u)
  <2>1. /\ o \in Numeric /\ opt_long(u, o)
        /\ flags'.num = [flags.num EXCEPT ![o] = Wrap(x)]
        /\ flags'.source_addr = flags.source_addr
    BY <1>4 DEF NumberKept
  <2>2. x >= 0
    BY <1>1, <2>1 DEF opt_long, Lo
  <2>3. flags.num \in [Numeric -> Int]
    BY DEF FlagType
  <2>4. x <= INT_MAX => Wrap(x) = x
    <3>1. x <= INT_MAX => x \in 0 .. INT_MAX
      BY <1>1, <2>2, IntAssumption
    <3>2. INT_MAX \in Nat
      BY IntAssumption
    <3> HIDE DEF x
    <3> QED BY <3>1, <3>2, WrapIdentity DEF Wrap
  <2> HIDE DEF x
  <2>5. /\ x <= INT_MAX => flags'.num[o] = x
        /\ \A y \in Numeric : y # o => flags'.num[y] = flags.num[y]
    BY <2>1, <2>3, <2>4
  <2>6. o # "-S"
    BY <1>3, <2>1
  <2> QED BY <1>2, <2>1, <2>5, <2>6 DEF Notes, x, u
<1> HIDE DEF u
<1>5. CASE WaitKept(o, u)
  BY <1>2, <1>3, <1>5 DEF Notes, WaitKept
<1>6. CASE PatternKept(o, u)
  BY <1>2, <1>3, <1>6 DEF Notes, PatternKept
<1>7. CASE SourceKept(o, q)
  BY <1>2, <1>3, <1>7 DEF Notes, SourceKept
<1> QED BY <1>2, <1>4, <1>5, <1>6, <1>7

\* Some use of an option is its last.
LEMMA LastExists ==
  ASSUME NEW L \in Nat, NEW S \in SUBSET (1 .. L), S # {}
  PROVE  \E k \in S : \A j \in S : j <= k
<1> DEFINE T == {n \in Nat : \A Q \in SUBSET (1 .. n) :
                   Q # {} => \E k \in Q : \A j \in Q : j <= k}
<1>1. 0 \in T
  <2>1. \A Q \in SUBSET (1 .. 0) : Q = {}
    OBVIOUS
  <2> QED BY <2>1
<1>2. ASSUME NEW n \in T PROVE n + 1 \in T
  <2>1. n \in Nat
    OBVIOUS
  <2> SUFFICES ASSUME NEW Q \in SUBSET (1 .. n + 1), Q # {}
               PROVE  \E k \in Q : \A j \in Q : j <= k
    BY <2>1
  <2>2. CASE n + 1 \in Q
    <3>1. \A j \in Q : j <= n + 1
      BY <2>1
    <3> QED BY <2>2, <3>1
  <2>3. CASE n + 1 \notin Q
    <3>1. Q \in SUBSET (1 .. n)
      BY <2>1, <2>3
    <3> QED BY <3>1
  <2> QED BY <2>2, <2>3
<1> HIDE DEF T
<1>3. \A n \in Nat : n \in T
  <2>1. T \subseteq Nat
    BY DEF T
  <2> QED BY <1>1, <1>2, <2>1, SetInduction
<1> QED BY <1>3 DEF T

\* The flags f are what line a says, read once with the roles r.
Given(r, a, o) == \E k \in 1 .. Len(a) : At(r, a, o, k)
AsWritten(r, a, f) ==
  /\ HostAt(r, f.host, Len(a) + 1)
  /\ \A o \in ShortOptions \cup {"--bsd-flood"} :
       o \in f.given <=>
         Given(r, a, o) /\ ~ (o \in {"-Q", "-v"} /\ Given(r, a, "-q"))
  /\ \A o \in Numeric : \A k \in 1 .. Len(a) :
       LastAt(r, a, o, k, Len(a) + 1) /\ a[k + 1].val <= INT_MAX
         => f.num[o] = a[k + 1].val
  /\ \A k \in 1 .. Len(a) :
       LastAt(r, a, "-S", k, Len(a) + 1) => f.source_addr = k + 1

\* What finalise_flags() makes of flags that know the whole line.
LEMMA FinalWritten ==
  ASSUME NEW a \in Seq(Token), NEW r, NEW ops, NEW f, NEW g,
         Final(r, a, ops, f), LongRead(r, a, f), ops # <<>>,
         g.host = Head(ops), g.num = f.num, g.source_addr = f.source_addr,
         g.given = f.given \ (IF "-q" \in f.given THEN {"-Q", "-v"} ELSE {})
  PROVE  AsWritten(r, a, g)
<1>1. Len(a) \in Nat /\ (Len(a) + 1) - 1 = Len(a)
  OBVIOUS
<1>2. HostAt(r, g.host, Len(a) + 1) /\ Known(r, a, f, Len(a) + 1)
  BY DEF Final
<1>3. \A o \in ShortOptions : o \in f.given <=> Given(r, a, o)
  BY <1>1, <1>2 DEF Known, Given
<1>4. \A o \in ShortOptions \cup {"--bsd-flood"} :
        o \in f.given <=> Given(r, a, o)
  BY <1>3 DEF LongRead, Given
<1>5. "-q" \in ShortOptions
  BY DEF ShortOptions, Switches
<1>6. \A o \in ShortOptions \cup {"--bsd-flood"} :
        o \in g.given <=>
          Given(r, a, o) /\ ~ (o \in {"-Q", "-v"} /\ Given(r, a, "-q"))
  BY <1>4, <1>5
<1>7. \A o \in Numeric : \A k \in 1 .. Len(a) :
        LastAt(r, a, o, k, Len(a) + 1) /\ a[k + 1].val <= INT_MAX
          => g.num[o] = a[k + 1].val
  BY <1>1, <1>2 DEF Known
<1>8. \A k \in 1 .. Len(a) :
        LastAt(r, a, "-S", k, Len(a) + 1) => g.source_addr = k + 1
  BY <1>1, <1>2 DEF Known
<1> QED BY <1>2, <1>6, <1>7, <1>8 DEF AsWritten

\* Where the second pass is, for every way to read the line that is clear.
GetoptAt(a, v, n, ops, f) ==
  \E e : /\ Compact(a, v, e) /\ LongGiven(a, f, e)
         /\ \A r : Clear(r, a) => Reading(r, a, v, n, ops, f, e)
WholeLine(a, ops, f) ==
  \A r : Clear(r, a) => Final(r, a, ops, f) /\ LongRead(r, a, f)
Written(a, f) == \A r : Clear(r, a) => AsWritten(r, a, f)

ReadInv ==
  /\ pc = "lift" => Lifted(argv, args, i, flags) /\ operands = <<>>
  /\ pc = "getopt" => GetoptAt(argv, args, i, operands, flags)
  /\ pc = "finalise" => WholeLine(argv, operands, flags)
  /\ verdict = "accepted" => Written(argv, flags)

\* A round that moves on from entry n to m, adding short options only.
LEMMA GetoptMoves ==
  ASSUME NEW a \in Seq(Token), NEW v, NEW n, NEW m, NEW ops, NEW new,
         NEW f, NEW g, NEW S \in SUBSET ShortOptions,
         g.given = f.given \cup S, GetoptAt(a, v, n, ops, f),
         ASSUME NEW e, NEW r, Compact(a, v, e), Clear(r, a),
                Reading(r, a, v, n, ops, f, e)
         PROVE  Reading(r, a, v, m, new, g, e)
  PROVE  GetoptAt(a, v, m, new, g)
<1>1. PICK e : /\ Compact(a, v, e) /\ LongGiven(a, f, e)
               /\ \A r : Clear(r, a) => Reading(r, a, v, n, ops, f, e)
  BY DEF GetoptAt
<1>2. "--bsd-flood" \notin S
  BY DEF ShortOptions, Switches, WithArg, Numeric
<1>3. LongGiven(a, g, e)
  BY <1>1, <1>2 DEF LongGiven
<1>4. \A r : Clear(r, a) => Reading(r, a, v, m, new, g, e)
  BY <1>1
<1> QED BY <1>1, <1>3, <1>4 DEF GetoptAt

\* The second pass ends having read the whole line.
LEMMA GetoptDone ==
  ASSUME NEW a \in Seq(Token), NEW v, NEW n, NEW ops, NEW new, NEW f,
         GetoptAt(a, v, n, ops, f),
         ASSUME NEW e, NEW r, Compact(a, v, e), Clear(r, a),
                Reading(r, a, v, n, ops, f, e)
         PROVE  Final(r, a, new, f) /\ NoneLeft(r, a, e, Len(a) + 1)
  PROVE  WholeLine(a, new, f)
<1>1. PICK e : /\ Compact(a, v, e) /\ LongGiven(a, f, e)
               /\ \A r : Clear(r, a) => Reading(r, a, v, n, ops, f, e)
  BY DEF GetoptAt
<1>2. EndAt(a, e)
  BY <1>1 DEF Compact
<1>3. ASSUME NEW r, Clear(r, a) PROVE Final(r, a, new, f) /\ LongRead(r, a, f)
  BY <1>1, <1>2, <1>3, LongIsRead
<1> QED BY <1>3 DEF WholeLine

\* The first pass starts with nothing read.
LEMMA ReadInit == Init => ReadInv
<1> SUFFICES ASSUME Init PROVE ReadInv
  OBVIOUS
<1>1. argv \in Seq(Token) /\ pc = "lift" /\ verdict = "none" /\ i = 1
      /\ operands = <<>>
  BY CliAssumption DEF Init
<1>2. args = [k \in 1 .. Len(argv) |-> k]
  BY <1>1 DEF Init
<1>3. flags.given = {}
  BY DEF Init, Unset
<1>4. Lifted(argv, args, 1, flags)
  BY <1>1, <1>2, <1>3, LiftStart
<1> QED BY <1>1, <1>4 DEF ReadInv

\* The first pass keeps what it has lifted.
LEMMA LiftKeeps ==
  ASSUME UsableInv, ReadInv, extract_long_opts
  PROVE  ReadInv'
<1>1. /\ argv \in Seq(Token) /\ pc = "lift" /\ verdict = "none"
      /\ UNCHANGED <<argv, operands>>
      /\ Lifted(argv, args, i, flags) /\ operands = <<>>
  BY DEF UsableInv, ReadInv, extract_long_opts
<1>2. i \in Nat /\ Len(args) \in Nat
  BY DEF UsableInv
<1>3. CASE LiftEnds /\ pc' = "getopt" /\ i' = 1 /\ UNCHANGED <<args, flags, verdict>>
  <2>1. i <= Len(args) => argv[args[i]].text = "--"
    BY <1>3 DEF LiftEnds, Arg
  <2>2. GetoptAt(argv, args, 1, <<>>, flags)
    BY <1>1, <2>1, LiftEnd DEF GetoptAt
  <2> QED BY <1>1, <1>3, <2>2 DEF ReadInv
<1>4. CASE /\ ~LiftEnds /\ ~IsLong(Arg(i))
           /\ i' = i + 1 /\ UNCHANGED <<args, flags, pc, verdict>>
  <2>1. i <= Len(args) /\ argv[args[i]].text \notin Long \cup {"--"}
    BY <1>4 DEF LiftEnds, IsLong, Arg
  <2>2. Lifted(argv, args, i + 1, flags)
    BY <1>1, <2>1, LiftSkip
  <2> QED BY <1>1, <1>4, <2>2 DEF ReadInv
<1>5. CASE ~LiftEnds /\ apply_long_opt /\ UNCHANGED i
  <2>1. CASE pc' = "done" /\ verdict' \in {"help", "rejected"}
    BY <2>1 DEF ReadInv
  <2>2. CASE /\ Arg(i).text = "--bsd-flood"
             /\ flags' = [flags EXCEPT !.given = @ \cup {"--bsd-flood"}]
             /\ args' = drop_arg(args, i) /\ UNCHANGED <<pc, verdict>>
    <3>1. i <= Len(args) /\ argv[args[i]].text = "--bsd-flood"
      BY <1>5, <2>2 DEF LiftEnds, Arg
    <3>2. flags'.given = flags.given \cup {"--bsd-flood"}
      <4>1. flags \in FlagType
        BY DEF UsableInv, FlagsInv
      <4> QED BY <2>2, <4>1 DEF FlagType
    <3>3. Lifted(argv, drop_arg(args, i), i, flags')
      BY <1>1, <3>1, <3>2, LiftDrop
    <3> QED BY <1>1, <1>5, <2>2, <3>3 DEF ReadInv
  <2> QED BY <1>5, <2>1, <2>2 DEF apply_long_opt, Ends
<1> QED BY <1>3, <1>4, <1>5 DEF extract_long_opts

\* A round of getopt() reads what stands at its entry.
LEMMA GetoptKeeps ==
  ASSUME UsableInv, ReadInv, getopt
  PROVE  ReadInv'
<1>1. /\ UNCHANGED <<argv, args>> /\ pc = "getopt" /\ i <= Len(args)
      /\ \/ TakesOperand \/ TakesRest \/ TakesSwitch \/ TakesArgument
         \/ GivesUp
  BY GetoptDoes
<1>2. /\ argv \in Seq(Token) /\ i \in 1 .. Len(args) /\ Len(args) \in Nat
      /\ operands \in Seq(1 .. Len(argv)) /\ flags \in FlagType
      /\ verdict = "none" /\ GetoptAt(argv, args, i, operands, flags)
  BY <1>1 DEF UsableInv, FlagsInv, ReadInv
<1>3. Arg(i) = argv[args[i]] /\ Arg(i + 1) = argv[args[i + 1]]
  BY DEF Arg
<1>4. CASE TakesOperand
  <2>1. /\ argv[args[i]].text = "word" /\ UNCHANGED <<flags, pc, verdict>>
        /\ operands' = Append(operands, args[i]) /\ i' = i + 1
    BY <1>3, <1>4 DEF TakesOperand
  <2>2. ASSUME NEW e, NEW r, Compact(argv, args, e), Clear(r, argv),
               Reading(r, argv, args, i, operands, flags, e)
        PROVE  Reading(r, argv, args, i + 1, Append(operands, args[i]), flags, e)
    BY <1>1, <1>2, <2>1, <2>2, OperandRead
  <2>3. GetoptAt(argv, args, i + 1, Append(operands, args[i]), flags)
    <3> DEFINE new == Append(operands, args[i])
               none == {}
    <3>1. flags.given = flags.given \cup none /\ none \in SUBSET ShortOptions
      OBVIOUS
    <3>2. ASSUME NEW e, NEW r, Compact(argv, args, e), Clear(r, argv),
                 Reading(r, argv, args, i, operands, flags, e)
          PROVE  Reading(r, argv, args, i + 1, new, flags, e)
      BY <2>2, <3>2
    <3> HIDE DEF new, none
    <3>3. GetoptAt(argv, args, i + 1, new, flags)
      BY <1>2, <3>1, <3>2, GetoptMoves
    <3> QED BY <3>3 DEF new
  <2> QED BY <1>1, <1>2, <2>1, <2>3 DEF ReadInv
<1>5. CASE TakesRest
  <2> DEFINE new == operands \o SubSeq(args, i + 1, Len(args))
  <2>1. /\ argv[args[i]].text = "--" /\ UNCHANGED <<flags, verdict>>
        /\ operands' = new /\ pc' = "finalise"
    BY <1>3, <1>5 DEF TakesRest
  <2>2. ASSUME NEW e, NEW r, Compact(argv, args, e), Clear(r, argv),
               Reading(r, argv, args, i, operands, flags, e)
        PROVE  /\ Final(r, argv, new, flags)
               /\ NoneLeft(r, argv, e, Len(argv) + 1)
    BY <1>1, <1>2, <2>1, <2>2, RestRead
  <2> HIDE DEF new
  <2>3. WholeLine(argv, new, flags)
    BY <1>2, <2>2, GetoptDone
  <2> QED BY <1>1, <1>2, <2>1, <2>3 DEF ReadInv
<1>6. CASE TakesSwitch
  <2> DEFINE o == argv[args[i]].text
             g == flags'
  <2>1. /\ o \in Switches /\ UNCHANGED <<operands, pc, verdict>>
        /\ g = Sets(o) /\ i' = i + 1
    BY <1>3, <1>6 DEF TakesSwitch
  <2>2. /\ g.given = flags.given \cup {o} /\ g.num = flags.num
        /\ g.source_addr = flags.source_addr /\ o \in ShortOptions
    <3>1. o \in ShortOptions
      BY <2>1 DEF ShortOptions
    <3> QED BY <1>2, <2>1, <3>1, SetsDoes
  <2> HIDE DEF g
  <2>3. ASSUME NEW e, NEW r, Compact(argv, args, e), Clear(r, argv),
               Reading(r, argv, args, i, operands, flags, e)
        PROVE  Reading(r, argv, args, i + 1, operands, g, e)
    BY <1>1, <1>2, <2>1, <2>2, <2>3, SwitchRead
  <2>4. {o} \in SUBSET ShortOptions
    BY <2>2
  <2> HIDE DEF o
  <2>5. GetoptAt(argv, args, i + 1, operands, g)
    BY <1>2, <2>2, <2>3, <2>4, GetoptMoves
  <2> QED BY <1>1, <1>2, <2>1, <2>5 DEF ReadInv, g
<1>7. CASE TakesArgument
  <2> DEFINE o == argv[args[i]].text
             g == flags'
             q == args[i + 1]
  <2>1. /\ o \in WithArg /\ UNCHANGED <<operands, pc, verdict>>
        /\ i # Len(args) /\ i' = i + 2 /\ Taken(o, argv[q], q)
    BY <1>3, <1>7 DEF TakesArgument
  <2>2. i + 1 \in 1 .. Len(args)
    BY <1>2, <2>1
  <2>3. q \in Nat /\ argv[q] \in Token
    BY <1>3, <2>2, ArgIsToken
  <2>4. Notes(argv, flags, g, o, q)
    BY <1>2, <2>1, <2>3, TakenNotes
  <2> HIDE DEF g
  <2>5. ASSUME NEW e, NEW r, Compact(argv, args, e), Clear(r, argv),
               Reading(r, argv, args, i, operands, flags, e)
        PROVE  Reading(r, argv, args, i + 2, operands, g, e)
    BY <1>1, <1>2, <2>1, <2>4, <2>5, ArgumentRead
  <2>6. g.given = flags.given \cup {o} /\ {o} \in SUBSET ShortOptions
    BY <2>1, <2>4 DEF Notes, ShortOptions
  <2> HIDE DEF o
  <2>7. GetoptAt(argv, args, i + 2, operands, g)
    BY <1>2, <2>5, <2>6, GetoptMoves
  <2> QED BY <1>1, <1>2, <2>1, <2>7 DEF ReadInv, g
<1>8. CASE GivesUp
  BY <1>8 DEF GivesUp, ReadInv
<1> QED BY <1>1, <1>4, <1>5, <1>6, <1>7, <1>8

\* Every step reads on.
LEMMA ReadStep ==
  UsableInv /\ ReadInv /\ [Next]_vars => ReadInv'
<1> SUFFICES ASSUME UsableInv, ReadInv, [Next]_vars PROVE ReadInv'
  OBVIOUS
<1>1. CASE getopt_end
  <2>1. /\ pc = "getopt" /\ i > Len(args) /\ pc' = "finalise"
        /\ UNCHANGED <<argv, args, i, operands, flags, verdict>>
    BY <1>1 DEF getopt_end
  <2>2. /\ argv \in Seq(Token) /\ verdict = "none"
        /\ GetoptAt(argv, args, i, operands, flags)
    BY <2>1 DEF UsableInv, ReadInv
  <2>3. ASSUME NEW e, NEW r, Compact(argv, args, e), Clear(r, argv),
               Reading(r, argv, args, i, operands, flags, e)
        PROVE  /\ Final(r, argv, operands, flags)
               /\ NoneLeft(r, argv, e, Len(argv) + 1)
    BY <2>1, <2>2, <2>3, EndRead
  <2>4. WholeLine(argv, operands, flags)
    BY <2>2, <2>3, GetoptDone
  <2> QED BY <2>1, <2>2, <2>4 DEF ReadInv
<1>2. CASE finalise_flags
  <2>1. pc = "finalise" /\ pc' = "done" /\ UNCHANGED <<argv, operands>>
    BY <1>2 DEF finalise_flags, Ends
  <2>2. CASE verdict' # "accepted"
    BY <2>1, <2>2 DEF ReadInv
  <2>3. CASE verdict' = "accepted"
    <3>1. /\ argv \in Seq(Token) /\ operands \in Seq(Nat) /\ FlagsInv(flags)
          /\ WholeLine(argv, operands, flags)
      BY <2>1 DEF UsableInv, ReadInv
    <3>2. /\ flags'.num = flags.num /\ flags'.source_addr = flags.source_addr
          /\ flags'.given = flags.given
               \ (IF "-q" \in flags.given THEN {"-Q", "-v"} ELSE {})
          /\ operands # <<>> /\ flags'.host = Head(operands)
      BY <1>2, <2>3, <3>1, FinaliseDoes
    <3>3. ASSUME NEW r, Clear(r, argv) PROVE AsWritten(r, argv, flags')
      <4>1. Final(r, argv, operands, flags) /\ LongRead(r, argv, flags)
        BY <3>1, <3>3 DEF WholeLine
      <4> QED BY <3>1, <3>2, <4>1, FinalWritten
    <3> QED BY <2>1, <3>3 DEF ReadInv, Written
  <2> QED BY <2>2, <2>3
<1>3. CASE UNCHANGED vars
  BY <1>3 DEF vars, ReadInv
<1> QED BY <1>1, <1>2, <1>3, LiftKeeps, GetoptKeeps DEF Next

\* The last use of an option that is given.
LEMMA LastUseIs ==
  ASSUME argv \in Seq(Token), NEW o, Uses(o) # {}
  PROVE  /\ LastUse(o) \in 1 .. Len(argv)
         /\ LastAt(Role, argv, o, LastUse(o), Len(argv) + 1)
<1> DEFINE L == Len(argv)
           U == Uses(o)
           k == LastUse(o)
<1>1. L \in Nat /\ DOMAIN argv = 1 .. L /\ (L + 1) - 1 = L
  OBVIOUS
<1>2. U \in SUBSET (1 .. L) /\ \A j \in 1 .. L : j \in U <=> At(Role, argv, o, j)
  BY <1>1 DEF Uses, At
<1>3. \E x \in U : \A j \in U : j <= x
  <2>1. U # {}
    OBVIOUS
  <2> HIDE DEF U, L
  <2> QED BY <1>1, <1>2, <2>1, LastExists
<1>4. k \in U /\ \A j \in U : j <= k
  BY <1>3 DEF LastUse
<1> HIDE DEF k, U, L
<1>5. k \in 1 .. L /\ LastAt(Role, argv, o, k, L + 1)
  BY <1>1, <1>2, <1>4 DEF LastAt
<1> QED BY <1>5 DEF k, L

\* On an accepted line that is not ambiguous the two passes and the
\* permutation give what reading the line once, from left to right, gives.
THEOREM LineReadAsWritten ==
  ASSUME INT_MAX >= MAX_DATA
  PROVE  Spec => []ReadAsWritten
<1>1. UsableInv /\ ReadInv => ReadAsWritten
  <2> SUFFICES ASSUME UsableInv, ReadInv, Accepted, ~Ambiguous
               PROVE  ReadAsWritten
    BY DEF ReadAsWritten
  <2> DEFINE L == Len(argv)
             r == Role
             S == {k \in DOMAIN argv : Role[k] \in {"operand", "rest"}}
  <2>1. /\ argv \in Seq(Token) /\ L \in Nat /\ DOMAIN argv = 1 .. L
        /\ (L + 1) - 1 = L
    BY DEF UsableInv
  <2>2. Clear(r, argv)
    <3>1. RolesTo(r, argv, L)
      BY <2>1, RoleIs
    <3> QED BY <2>1, <3>1 DEF Clear, Ambiguous, IsLong
  <2>3. AsWritten(r, argv, flags)
    <3>1. Written(argv, flags)
      BY DEF ReadInv, Accepted
    <3> HIDE DEF r
    <3> QED BY <2>2, <3>1 DEF Written
  <2>4. \A o : (Uses(o) # {}) <=> Given(r, argv, o)
    BY <2>1 DEF Uses, Given, At
  <2>5. flags.host = FirstOf(S)
    <3> DEFINE h == flags.host
    <3>1. /\ h \in 1 .. (L + 1) - 1 /\ r[h] \in Plain
          /\ \A k \in 1 .. h - 1 : r[k] \notin Plain
      BY <2>3 DEF AsWritten, HostAt
    <3>2. h \in S /\ S \subseteq 1 .. L
      BY <2>1, <3>1 DEF Plain
    <3>3. \A j \in S : h <= j
      <4> SUFFICES ASSUME NEW j \in S, ~ (h <= j) PROVE FALSE
        OBVIOUS
      <4>1. j \in 1 .. h - 1
        BY <2>1, <3>1, <3>2
      <4>2. r[j] \in Plain
        BY DEF Plain
      <4> QED BY <3>1, <4>1, <4>2
    <3> HIDE DEF h, S, L
    <3>4. \A k \in S : (\A j \in S : k <= j) => k = h
      <4>1. \A k \in S : k \in Int
        BY <2>1, <3>2
      <4> QED BY <3>2, <3>3, <4>1
    <3>5. h = FirstOf(S)
      BY <3>2, <3>3, <3>4, Zenon DEF FirstOf
    <3> QED BY <3>5 DEF h
  <2>6. \A o \in Switches \cup WithArg \cup {"--bsd-flood"} :
          o \in flags.given <=>
            Uses(o) # {} /\ ~ (o \in {"-Q", "-v"} /\ Uses("-q") # {})
    BY <2>3, <2>4 DEF AsWritten, ShortOptions
  <2>7. ASSUME NEW o \in Numeric \cap flags.given,
               argv[LastUse(o) + 1].val <= INT_MAX
        PROVE  flags.num[o] = argv[LastUse(o) + 1].val
    <3>1. Uses(o) # {}
      BY <2>6 DEF WithArg
    <3>2. LastUse(o) \in 1 .. L /\ LastAt(r, argv, o, LastUse(o), L + 1)
      BY <2>1, <3>1, LastUseIs
    <3> QED BY <2>3, <2>7, <3>2 DEF AsWritten
  <2>8. ASSUME "-S" \in flags.given
        PROVE  flags.source_addr = LastUse("-S") + 1
    <3>1. Uses("-S") # {}
      BY <2>6, <2>8 DEF WithArg
    <3>2. /\ LastUse("-S") \in 1 .. L
          /\ LastAt(r, argv, "-S", LastUse("-S"), L + 1)
      BY <2>1, <3>1, LastUseIs
    <3> QED BY <2>3, <3>2 DEF AsWritten
  <2> QED BY <2>5, <2>6, <2>7, <2>8 DEF ReadAsWritten
<1> QED BY UsableInit, UsableStep, ReadInit, ReadStep, <1>1, PTL DEF Spec
=============================================================================
