------------------------------- MODULE MCUtil -------------------------------
(***************************************************************************)
(* The functions of util.c and the tool noop, each by itself: a behaviour  *)
(* runs one of them.                                                       *)
(***************************************************************************)
EXTENDS Strlcat, Noop

CONSTANTS TopBit,  \* the positions 0 .. TopBit - 1 may be one
          MaxOnes  \* bound on the number of ones

\* Above 2^32 the shifts of util.c do not reach every position.
ASSUME TopBitAssumption == TopBit \in 0 .. 32

VARIABLES fn,          \* what runs
          arg, power   \* an argument of upper_power_of_two, and its result

utilVars == <<fn, arg, power, strlcatVars, noopVars>>

Init ==
  /\ fn \in {"upper_power_of_two", "strlcat", "noop"}
  /\ arg = {} /\ power = upper_power_of_two({})
  /\ StrlcatInit
  /\ fn # "strlcat" => dst = <<>> /\ src = <<>>
  /\ NoopInit
  /\ fn # "noop" => input = <<>> /\ name = "null"

\* Set one more bit of the argument and call the function.
UpperPowerOfTwo ==
  /\ Cardinality(arg) < MaxOnes
  /\ \E b \in 0 .. TopBit - 1 :
       /\ b \notin arg
       /\ arg' = arg \union {b}
       /\ power' = upper_power_of_two(arg')

Next ==
  \/ /\ fn = "upper_power_of_two"
     /\ UpperPowerOfTwo
     /\ UNCHANGED <<fn, strlcatVars, noopVars>>
  \/ /\ fn = "strlcat"
     /\ StrlcatStep
     /\ UNCHANGED <<fn, arg, power, noopVars>>
  \/ /\ fn = "noop"
     /\ NoopStep
     /\ UNCHANGED <<fn, arg, power, strlcatVars>>

Spec == Init /\ [][Next]_utilVars

-----------------------------------------------------------------------------
\* "Returns the nearest upper power of 2 number to the argument passed in"
\* (util.c, above upper_power_of_two), for arguments above 1.
NearestUpperPower == ~(arg \subseteq {0}) => power = LeastPowerOfTwo(arg)

-----------------------------------------------------------------------------
\* Every array of up to four characters, and every string of up to three.
SmallArrays == SeqOf({"a", "b", NUL}, 4)
SmallStrings == SeqOf({"c", "d"}, 3)

\* The bytes of an input are all different, so that no mix-up goes unseen.
Numbered == {[i \in 1 .. k |-> i] : k \in 0 .. 5}
=============================================================================
