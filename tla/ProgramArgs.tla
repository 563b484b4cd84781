---------------------------- MODULE ProgramArgs ----------------------------
(***************************************************************************)
(* program_args and basic_config: arguments, the names that a key has as   *)
(* an argument and as an environment variable, and flags.                  *)
(***************************************************************************)
EXTENDS Integers, Sequences, SequencesExt

None == "none"
Unreadable == "unreadable"

\* Arguments are a sequence, the command first.
HasArg(args, what) == \E i \in 2..Len(args) : args[i] = what

\* find(): the first one equal, or past the last.
FindArg(args, what) ==
    LET ps == {i \in 2..Len(args) : args[i] = what} IN
    IF ps = {} THEN (IF Len(args) < 2 THEN 2 ELSE Len(args) + 1)
    ELSE CHOOSE i \in ps : \A j \in ps : i <= j

NextArg(args, i) == IF i + 1 \in DOMAIN args THEN args[i + 1] ELSE None

AllLike(args, what) == SelectSeq([i \in 1..Len(args) |-> i], LAMBDA i : i > 1 /\ args[i] = what)

\* is_long_tag() and is_short_tag(): the dashes and the name, or the name itself.
IsPrefixedTag(arg, prefix, name) == arg = prefix \o name

IsTag(arg, short, long) ==
    \/ IsPrefixedTag(arg, <<"-">>, short) \/ arg = short
    \/ IsPrefixedTag(arg, <<"-", "-">>, long) \/ arg = long

\* program_arg_name() and environment_var_name() of a key, given as characters.
ArgName(key) == <<"-", "-">> \o [i \in DOMAIN key |-> IF key[i] \in {".", "_"} THEN "-" ELSE key[i]]

VarName(key, upper) ==
    <<"EAGINE_">> \o [i \in DOMAIN key |-> IF key[i] \in {".", "-"} THEN "_" ELSE upper[key[i]]]

\* is_set() of basic_config: an argument, or else a variable, that says nothing
\* that can be read is a yes.
BasicIsSet(hasArg, argFlag, varFlag) ==
    IF hasArg THEN argFlag # "false" ELSE varFlag # None /\ varFlag # "false"

\* is_set() of application_config asks the files whenever that is a no, the no
\* of an argument included.
IsSet(hasArg, argFlag, varFlag, attrFlag) ==
    BasicIsSet(hasArg, argFlag, varFlag) \/ attrFlag = "true"

\* fetch() of a vector: what every source says, together, unless one of them
\* cannot be read.
FetchedVector(argVals, envVal, attrVals) ==
    LET all == argVals \o (IF envVal = None THEN <<>> ELSE <<envVal>>) \o attrVals
    IN  IF \E i \in DOMAIN all : all[i] = Unreadable THEN None ELSE all

-----------------------------------------------------------------------------
\* find() is the first of all_like() and past the end when has() says no; an
\* argument has as its value what comes next.
ArgLaws(args, what) ==
    LET i == FindArg(args, what) IN
    /\ HasArg(args, what) = (i \in DOMAIN args)
    /\ HasArg(args, what) => AllLike(args, what)[1] = i
    /\ ~HasArg(args, what) => AllLike(args, what) = <<>> /\ NextArg(args, i) = None
    /\ Len(args) > i => NextArg(args, i) = args[i + 1]

\* Keys that differ in their separators only have the same argument and the same
\* variable, and no others do; the name of the argument is its long tag.
KeyNameLaws(k, l, upper) ==
    LET Same(x, y) == x = y \/ {x, y} \subseteq {".", "_", "-"} IN
    /\ (ArgName(k) = ArgName(l)) =
          (Len(k) = Len(l) /\ \A i \in DOMAIN k : Same(k[i], l[i]))
    /\ ArgName(k) = ArgName(l) => VarName(k, upper) = VarName(l, upper)
    /\ IsTag(ArgName(k), <<"x", "x", "x">>, SubSeq(ArgName(k), 3, Len(ArgName(k))))

\* A flag that an argument or the environment sets is set, only a file can set
\* one that they do not; a vector is what all sources say.
ConfigLaws(argFlag, varFlag, attrFlag) ==
    /\ argFlag \in {"true", None} => IsSet(TRUE, argFlag, varFlag, attrFlag)
    /\ attrFlag # "true" => IsSet(TRUE, argFlag, varFlag, attrFlag) = (argFlag # "false")
    /\ varFlag = None => IsSet(FALSE, argFlag, varFlag, attrFlag) = (attrFlag = "true")
    /\ LET v == FetchedVector(<<argFlag>>, varFlag, <<attrFlag>>)
       IN  Unreadable \notin {argFlag, varFlag, attrFlag} =>
               v = <<argFlag>> \o (IF varFlag = None THEN <<>> ELSE <<varFlag>>) \o <<attrFlag>>
=============================================================================
