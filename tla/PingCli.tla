------------------------------- MODULE PingCli -------------------------------
(***************************************************************************)
(* The command line, src/cli/*.c: parse_info() lifts the long options out  *)
(* of argv, runs getopt() over what is left and checks the combination.    *)
(* Two passes look at the same vector, each with its own idea of where the *)
(* options end.                                                            *)
(*                                                                         *)
(* A token is abstracted to its text (for an option) and to what the       *)
(* conversions make of it (as an argument).  Clustered letters ("-fq") are *)
(* taken as written apart, and so is an attached argument ("-s56"), as a   *)
(* token whose text is "word": the pre-pass sees it inside one token that  *)
(* does not begin with "--", even in "-S--bsd-flood", and lets it pass.    *)
(***************************************************************************)
EXTENDS CInt, Sequences

CONSTANTS
  LONG_MAX,       \* at least INT_MAX
  ArgvChoices     \* the command lines tried, without argv[0]

VARIABLES
  argv,       \* as received
  root,       \* geteuid() == 0
  args,       \* the vector as compacted so far: pointers into argv
  i,          \* the scan's position in it
  operands,   \* pointers getopt() has put aside
  flags,      \* t_flags
  pc, verdict

vars == <<argv, root, args, i, operands, flags, pc, verdict>>

Switches == {"-f", "-o", "-Q", "-q", "-r", "-v"}
Numeric  == {"-l", "-m", "-s", "-T", "-t"}
WithArg  == Numeric \cup {"-i", "-p", "-S"}
Long     == {"--help", "--bsd-flood", "--other"}
Texts    == Switches \cup WithArg \cup Long \cup {"--", "-?", "-x", "word"}

Waits == {"none", "nan", "nonpositive", "tiny", "normal"}

Token == [text:  Texts,
          whole: BOOLEAN,    \* does strtol() convert all of it ...
          val:   Int,        \* ... and to what, were a long wide enough
          wait:  Waits,      \* strtod(): tiny is below 0.002, normal is the
                             \* rest, infinity too (the switch takes it)
          hex:   Int]        \* its length if it is all hex digits, else -1

ASSUME CliAssumption ==
  /\ LONG_MAX \in Nat /\ LONG_MAX >= INT_MAX
  /\ ArgvChoices \subseteq Seq(Token)

PING_PATTERN_MAX == 16

\* What an IP datagram leaves for the data of an echo request.
MAX_DATA == 65507

\* has_x is "-x \in given", x itself is num["-x"], interval or pattern_len.
Unset == [given |-> {}, num |-> [o \in Numeric |-> 0], interval |-> "none",
          pattern_len |-> 0, source_addr |-> 0, host |-> 0]

Arg(k) == argv[args[k]]

Ends(v) == pc' = "done" /\ verdict' = v

IsLong(t)   == t.text \in Long
IsOption(t) == t.text # "word"

-----------------------------------------------------------------------------
(* extract_long_opts().                                                    *)

\* What follows moves down by one.
drop_arg(a, k) ==
  [j \in 1 .. Len(a) - 1 |-> IF j < k THEN a[j] ELSE a[j + 1]]

\* Mutant: the token is applied but stays in argv.
apply_long_opt_kept ==
  \/ /\ Arg(i).text = "--help" /\ Ends("help")
     /\ UNCHANGED <<args, flags>>
  \/ /\ Arg(i).text = "--bsd-flood"
     /\ flags' = [flags EXCEPT !.given = @ \cup {"--bsd-flood"}]
     /\ UNCHANGED <<args, pc, verdict>>
  \/ /\ Arg(i).text = "--other" /\ Ends("rejected")
     /\ UNCHANGED <<args, flags>>

\* apply_long_opt() and what its caller does next; i is not advanced.
apply_long_opt ==
  \/ /\ Arg(i).text = "--help" /\ Ends("help")
     /\ UNCHANGED <<args, flags>>
  \/ /\ Arg(i).text = "--bsd-flood"
     /\ flags' = [flags EXCEPT !.given = @ \cup {"--bsd-flood"}]
     /\ args' = drop_arg(args, i)
     /\ UNCHANGED <<pc, verdict>>
  \/ /\ Arg(i).text = "--other" /\ Ends("rejected")
     /\ UNCHANGED <<args, flags>>

\* Mutant: the pre-pass looks past a bare "--".
LiftEndsAtEnd == i > Len(args)

\* Where the pre-pass stops: the end of argv or a bare "--".
LiftEnds == i <= Len(args) => Arg(i).text = "--"

extract_long_opts ==
  /\ pc = "lift"
  /\ \/ LiftEnds /\ pc' = "getopt" /\ i' = 1 /\ UNCHANGED <<args, flags, verdict>>
     \/ ~LiftEnds /\ ~IsLong(Arg(i))
          /\ i' = i + 1 /\ UNCHANGED <<args, flags, pc, verdict>>
     \/ ~LiftEnds /\ IsLong(Arg(i)) /\ apply_long_opt /\ UNCHANGED i
  /\ UNCHANGED <<argv, root, operands>>

-----------------------------------------------------------------------------
(* One round of the getopt() loop.  getopt() moves operands out of the way *)
(* (GNU permutation), ends at "--" and takes the next token, whatever it   *)
(* is, as an option's argument.                                            *)

test_strton(t) == t.whole /\ t.val >= -LONG_MAX - 1 /\ t.val <= LONG_MAX

Lo == [o \in Numeric |-> IF o = "-t" THEN 1 ELSE 0]
Hi == [o \in Numeric |-> CASE o \in {"-l", "-t"} -> LONG_MAX
                           [] o = "-s" -> MAX_DATA
                           [] OTHER -> 255]

\* Mutant: an upper bound is missing.
opt_long_unbounded(t, o) == test_strton(t) /\ t.val >= Lo[o]

opt_long(t, o) == test_strton(t) /\ t.val >= Lo[o] /\ t.val <= Hi[o]

is_valid_hex(t) == t.hex > 0 /\ t.hex % 2 = 0 /\ t.hex <= 2 * PING_PATTERN_MAX

\* Options the switch refuses to a user who is not root.
require_root(o) == o \in {"-f", "-l"} => root

Sets(o) == [flags EXCEPT !.given = @ \cup {o}]

\* case 'f', 'o', 'Q', 'q', 'r', 'v'
case_switch(o) ==
  IF require_root(o)
  THEN flags' = Sets(o) /\ UNCHANGED <<pc, verdict>>
  ELSE Ends("rejected") /\ UNCHANGED flags

\* case 'l', 'm', 's', 'T', 't': checked as a long, kept as an int
case_numeric(o, t) ==
  IF opt_long(t, o) /\ require_root(o)
  THEN flags' = [Sets(o) EXCEPT !.num[o] = Wrap(t.val)]
       /\ UNCHANGED <<pc, verdict>>
  ELSE Ends("rejected") /\ UNCHANGED flags

\* case 'i': neither d_tmp <= 0 nor d_tmp < 0.002 holds of a NaN
case_interval(t) ==
  IF t.wait \in {"none", "nonpositive"} \/ (t.wait = "tiny" /\ ~root)
  THEN Ends("rejected") /\ UNCHANGED flags
  ELSE flags' = [Sets("-i") EXCEPT !.interval = t.wait]
       /\ UNCHANGED <<pc, verdict>>

\* case 'p': decode_pattern()
case_pattern(t) ==
  IF is_valid_hex(t)
  THEN flags' = [Sets("-p") EXCEPT !.pattern_len = t.hex \div 2]
       /\ UNCHANGED <<pc, verdict>>
  ELSE Ends("rejected") /\ UNCHANGED flags

\* An option with an argument, if one is left.
case_with_arg(o) ==
  IF i = Len(args)
  THEN Ends("rejected") /\ UNCHANGED flags          \* case ':'
  ELSE \/ o \in Numeric /\ case_numeric(o, Arg(i + 1))
       \/ o = "-i" /\ case_interval(Arg(i + 1))
       \/ o = "-p" /\ case_pattern(Arg(i + 1))
       \/ /\ o = "-S"
          /\ flags' = [Sets(o) EXCEPT !.source_addr = args[i + 1]]
          /\ UNCHANGED <<pc, verdict>>

getopt ==
  /\ pc = "getopt" /\ i <= Len(args)
  /\ LET o == Arg(i).text IN
     \/ /\ ~IsOption(Arg(i))
        /\ operands' = Append(operands, args[i]) /\ i' = i + 1
        /\ UNCHANGED <<flags, pc, verdict>>
     \/ /\ o = "--" /\ pc' = "finalise"
        /\ operands' = operands \o SubSeq(args, i + 1, Len(args))
        /\ UNCHANGED <<i, flags, verdict>>
     \/ o \in Switches /\ case_switch(o) /\ i' = i + 1 /\ UNCHANGED operands
     \/ o \in WithArg /\ case_with_arg(o) /\ i' = i + 2 /\ UNCHANGED operands
     \/ /\ o = "-?" /\ Ends("help")                       \* case '?'
        /\ UNCHANGED <<i, operands, flags>>
     \/ /\ o \in {"-x"} \cup Long /\ Ends("rejected")     \* case '?'
        /\ UNCHANGED <<i, operands, flags>>
  /\ UNCHANGED <<argv, root, args>>

\* getopt() returns -1 at the end of the vector.
getopt_end ==
  /\ pc = "getopt" /\ i > Len(args)
  /\ pc' = "finalise"
  /\ UNCHANGED <<argv, root, args, i, operands, flags, verdict>>

-----------------------------------------------------------------------------
\* The rules on combinations, and the host.
finalise_flags ==
  /\ pc = "finalise"
  /\ IF \/ {"-f", "-i"} \subseteq flags.given
        \/ "--bsd-flood" \in flags.given /\ "-f" \notin flags.given
     THEN Ends("rejected") /\ UNCHANGED flags
     ELSE LET loud == IF "-q" \in flags.given THEN {"-Q", "-v"} ELSE {} IN
          IF operands = <<>>
          THEN Ends("rejected")
               /\ flags' = [flags EXCEPT !.given = @ \ loud]
          ELSE Ends("accepted")
               /\ flags' = [flags EXCEPT !.given = @ \ loud,
                                         !.host = Head(operands)]
  /\ UNCHANGED <<argv, root, args, i, operands>>

Init ==
  /\ argv \in ArgvChoices /\ root \in BOOLEAN
  /\ args = [k \in DOMAIN argv |-> k] /\ i = 1
  /\ operands = <<>> /\ flags = Unset
  /\ pc = "lift" /\ verdict = "none"

Next == extract_long_opts \/ getopt \/ getopt_end \/ finalise_flags

Spec == Init /\ [][Next]_vars

\* parse_info() is one thread that never waits.
FairSpec == Spec /\ WF_vars(Next)
-----------------------------------------------------------------------------
(* Properties.                                                             *)

Accepted == verdict = "accepted"

\* What the rest of the program takes for granted of accepted flags, whatever
\* the order and repetition of the options: ctx_size_buffers() adds to
\* packet_size, fill_pattern() divides by pattern_len, sched_init() takes -f
\* or -i, a quiet run stays quiet "even if a louder flag came after it", and
\* what is root's stays root's.
FlagsUsable ==
  Accepted =>
    /\ \A o \in {"-m", "-T"} : flags.num[o] \in 0 .. 255
    /\ flags.num["-s"] \in 0 .. MAX_DATA
    /\ "-p" \in flags.given => flags.pattern_len \in 1 .. PING_PATTERN_MAX
    /\ "--bsd-flood" \in flags.given => "-f" \in flags.given
    /\ ~ {"-f", "-i"} \subseteq flags.given
    /\ "-q" \in flags.given => flags.given \cap {"-Q", "-v"} = {}
    /\ root \/ (flags.given \cap {"-f", "-l"} = {} /\ flags.interval # "tiny")

\* What each token of argv is when it is read once, from left to right, as
\* the usage line "ft_ping [OPTION...] HOST" says.
Role[k \in 1 .. Len(argv)] ==
  LET before == IF k = 1 THEN "operand" ELSE Role[k - 1]
  IN  IF before \in {"end", "rest"} THEN "rest"
      ELSE IF before = "option" /\ argv[k - 1].text \in WithArg THEN "argument"
      ELSE IF argv[k].text = "--" THEN "end"
      ELSE IF IsOption(argv[k]) THEN "option" ELSE "operand"

\* Where option o stands.
Uses(o) == {k \in DOMAIN argv : Role[k] = "option" /\ argv[k].text = o}

LastUse(o)  == CHOOSE k \in Uses(o) : \A j \in Uses(o) : j <= k
FirstOf(S)  == CHOOSE k \in S : \A j \in S : k <= j

\* An option's argument may look like a long option to the first pass.
Ambiguous ==
  \E k \in DOMAIN argv : Role[k] = "argument" /\ IsLong(argv[k])

\* The two passes and the permutation together read an accepted command line
\* as one pass would: the host is the first operand, an option is in force
\* exactly when it was given (or silenced by -q), the last use of an option
\* wins, and nothing that follows "--" is an option.  A "--" that is an
\* option's argument ends the pre-pass alone: a long option behind it is left
\* to getopt(), which must refuse it.
ReadAsWritten ==
  Accepted /\ ~Ambiguous =>
    /\ flags.host =
         FirstOf({k \in DOMAIN argv : Role[k] \in {"operand", "rest"}})
    /\ \A o \in Switches \cup WithArg \cup {"--bsd-flood"} :
         o \in flags.given <=>
           Uses(o) # {} /\ ~ (o \in {"-Q", "-v"} /\ Uses("-q") # {})
    /\ \A o \in Numeric \cap flags.given :
         LET asked == argv[LastUse(o) + 1].val
         IN  asked <= INT_MAX => flags.num[o] = asked
    /\ "-S" \in flags.given => flags.source_addr = LastUse("-S") + 1

\* Parsing ends: the pre-pass does not advance over a token it removes.
ParseEnds == <>(pc = "done")
-----------------------------------------------------------------------------
(* What comments of the repository say and the code does not do.           *)

\* "-t timeout: Exit after this many seconds", "-l preload: Send that many
\* packets", "-i wait: Wait `wait` seconds" (ping_parse_args.c): what an
\* accepted argument says is a number, and the number that is kept.
ArgumentsKept ==
  Accepted /\ ~Ambiguous =>
    /\ \A o \in Numeric \cap flags.given :
         flags.num[o] = argv[LastUse(o) + 1].val
    /\ flags.interval # "nan"
=============================================================================
