----------------------------- MODULE MCSequential -----------------------------
(* Small instances, for TLC, of the parts of libam that run on their caller's  *)
(* thread: the string hash, the tree, the options, the statistics, and files   *)
(* and sockets.  They do not meet: a behaviour is one of one part, and the     *)
(* others stay as they are.                                                    *)
EXTENDS AmStrHash, AmTree, AmStats, AmFd, AmOpts

CONSTANTS v1, v2, v3                     \* values of the hash

VARIABLE part                            \* which part this is a behaviour of

\* The values of the hash.  Its three keys share a bucket of eight, two of them
\* one of sixteen, none one of thirty-two.
MCValues == {v1, v2, v3}
MCFlagSets == {{"USE_LOCK", "DUP_KEYS"}, {"OVERWRITE"}, {"FIXED_SIZE", "OVERWRITE", "DUP_KEYS"}}
ValuesAlike == Permutations(MCValues)

\* Options of which one may not be registered, and two share a long name.
Text(dashes, rest) == [dashes |-> dashes, rest |-> rest]
Opt(short, long, kind, default, accepts, parses) ==
    [form_short |-> short, form_long |-> long, type |-> kind, default_value |-> default,
     accepts |-> accepts, parse |-> parses]
MCDescriptor ==
    "num"    :> Opt("n", "num", "UINT64", Absent, {70}, FALSE) @@
    "flag"   :> Opt("", "flag", "FLAG", Absent, Absent, FALSE) @@
    "custom" :> Opt("c", "", "CUSTOM", Text(2, "num"), Absent, TRUE) @@
    "shadow" :> Opt("", "num", "UDOUBLE", Absent, Absent, FALSE) @@
    "wrong"  :> Opt("", "wrong", "UINT64", Text(0, "2.5"), Absent, FALSE)
MCNumber == Text(0, "7") :> 70 @@ Text(0, "9") :> 90 @@ Text(0, "2.5") :> 25
MCTexts == {Text(2, "num"), Text(1, "n"), Text(2, "flag"), Text(1, "c"), Text(2, "")}
           \cup DOMAIN MCNumber
MCWhole == {Text(0, "7"), Text(0, "9")}
MCOptions == DOMAIN MCDescriptor

\* One port, whose bytes differ.
MCPorts == {<<1, 2>>}

-----------------------------------------------------------------------------
hashVars == vars

MCInit ==
    /\ part \in {"hash", "tree", "options", "statistics", "descriptors"}
    /\ Init /\ TreeInit /\ OptsInit /\ StatsInit /\ FdInit
    /\ part # "hash" => flags = {"OVERWRITE"} /\ percent = 25 /\ threshold = 2

\* Which variables the behaviours of a part leave alone.
NotHash == UNCHANGED <<part, treeVars, optsVars, statsVars, fdVars>>
NotTree == UNCHANGED <<part, hashVars, optsVars, statsVars, fdVars>>
NotOptions == UNCHANGED <<part, hashVars, treeVars, statsVars, fdVars>>
NotStatistics == UNCHANGED <<part, hashVars, treeVars, optsVars, fdVars>>
NotDescriptors == UNCHANGED <<part, hashVars, treeVars, optsVars, statsVars>>

MCNext ==
    \/ part = "hash" /\ Next /\ NotHash
    \/ part = "tree" /\ TreeNext /\ NotTree
    \/ part = "options" /\ OptsNext /\ NotOptions
    \/ part = "statistics" /\ StatsNext /\ NotStatistics
    \/ part = "descriptors" /\ FdNext /\ NotDescriptors

MCSpec == MCInit /\ [][MCNext]_<<part, hashVars, treeVars, optsVars, statsVars, fdVars>>
=============================================================================
